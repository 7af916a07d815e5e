-------------------------- MODULE InMemorySMTProofs --------------------------
(***************************************************************************)
(* Proofs about SparseMerkleTree and InMemorySMT, for every key length     *)
(* that is a multiple of the subtree height, every set of update data and  *)
(* any number of updates.                                                  *)
(*                                                                         *)
(* 1. A hash tells the contents below its path (RootTells).  Hence two     *)
(*    places share a stored subtree only if they are the same place, and   *)
(*    deleting the subtree of one harms no other place of the tree.        *)
(* 2. A subtree is a row of nodes along a frontier: places that have every *)
(*    longer key below one of them.  Fronts are the frontiers, NormalFront *)
(*    is the one that stops where no keys part: the stored form.           *)
(* 3. The hasher finds the root of a stored subtree (HasherFindsRoot), and *)
(*    calculate_subtree makes the stored form of the row of any frontier   *)
(*    that update_node can leave behind (CalculateIs).                     *)
(* 4. calculate_bins divides the data of an update among the places of a   *)
(*    frontier (SliceIs, FrontTiles).                                      *)
(* 5. So each frame of a running update is a frontier, cut in two: places  *)
(*    done, with the nodes of the updated contents, and places to be done, *)
(*    with those of the old ones (FrameWith).  Frames further out wait for *)
(*    the place of the frame inside them (OuterIs).                        *)
(* 6. The inductive invariant IInv adds what is stored.  Every step keeps  *)
(*    it, and the properties of InMemorySMT follow.                        *)
(***************************************************************************)
EXTENDS InMemorySMT, NaturalSets, SequenceTheorems

----------------------------------------------------------------------------
(* Keys, paths and the hash of a node.                                     *)

\* Paths without their bound on the length: the places that frontiers talk
\* about.
BitSeqs == Seq({0, 1})

\* The keys of a tree.
Keys == {k \in BitSeqs : Len(k) = KeyBits}

\* A map from keys to hashed values.
IsContents(c) == c = [k \in DOMAIN c |-> c[k]] /\ DOMAIN c \subseteq Keys

\* More than one key below the path.
Many(c, p) == \E k, l \in Below(DOMAIN c, p) : k # l

\* One step of the recursion of RootBelow, over the hashes g.
RootStep(c, g, p) ==
    LET keys == Below(DOMAIN c, p)
    IN  IF keys = {} THEN EmptyHash
        ELSE IF \E k \in keys : keys = {k}
        THEN LET k == CHOOSE x \in keys : TRUE IN LeafHash(k, c[k])
        ELSE BranchHash(g[Append(p, 0)], g[Append(p, 1)])

\* Keys that part below a path are longer than it.
LEMMA ManyIsShort ==
    ASSUME NEW c, IsContents(c), NEW p \in Paths, Many(c, p)
    PROVE  Len(p) \in Nat /\ Len(p) < KeyBits
<1>1. PICK k \in Below(DOMAIN c, p), l \in Below(DOMAIN c, p) : k # l
    BY DEF Many
<1>2. k \in BitSeqs /\ l \in BitSeqs /\ Len(k) = KeyBits /\ Len(l) = KeyBits
    BY DEF IsContents, Keys, Below
<1>3. Len(p) \in Nat /\ Len(p) <= KeyBits /\ KeyBits \in Nat
    BY SparseMerkleTreeAssumption DEF Paths
<1>4. SubSeq(k, 1, Len(p)) = p /\ SubSeq(l, 1, Len(p)) = p
    BY DEF Below
<1>5. CASE Len(p) = KeyBits
  <2>1. SubSeq(k, 1, Len(k)) = k /\ SubSeq(l, 1, Len(l)) = l
      BY <1>2, SubSeqFull DEF BitSeqs
  <2> QED BY <1>1, <1>2, <1>4, <1>5, <2>1
<1> QED BY <1>3, <1>5

\* One bit further down there is a path.
LEMMA PathExtends ==
    ASSUME NEW p \in Paths, Len(p) < KeyBits, NEW b \in {0, 1}
    PROVE  Append(p, b) \in Paths /\ Len(Append(p, b)) = Len(p) + 1
BY SparseMerkleTreeAssumption, AppendProperties DEF Paths

\* The recursion of RootBelow has a solution.
LEMMA RootsExist ==
    ASSUME NEW c, IsContents(c)
    PROVE  \E g : g = [p \in Paths |-> RootStep(c, g, p)]
<1> DEFINE D(n) == {q \in Paths : Len(q) >= KeyBits - n}
           S == {n \in Nat : \E g : g = [p \in D(n) |-> RootStep(c, g, p)]}
<1>0. KeyBits \in Nat /\ \A q \in Paths : Len(q) \in Nat /\ Len(q) <= KeyBits
    BY SparseMerkleTreeAssumption DEF Paths
<1>1. 0 \in S
  <2> DEFINE g == [p \in D(0) |-> RootStep(c, <<>>, p)]
  <2>1. ASSUME NEW p \in D(0)
        PROVE  RootStep(c, <<>>, p) = RootStep(c, g, p)
    <3>1. ~Many(c, p)
        BY <1>0, ManyIsShort
    <3> HIDE DEF g
    <3> QED BY <3>1 DEF RootStep, Many
  <2>2. g = [p \in D(0) |-> RootStep(c, g, p)]
    <3> HIDE DEF D
    <3> QED BY <2>1
  <2> QED BY <2>2
<1>2. ASSUME NEW n \in Nat, n \in S
      PROVE  n + 1 \in S
  <2>1. PICK g : g = [p \in D(n) |-> RootStep(c, g, p)]
      BY <1>2
  <2> DEFINE h == [p \in D(n + 1) |-> RootStep(c, g, p)]
  <2>2. ASSUME NEW p \in D(n)
        PROVE  h[p] = g[p]
    <3>1. p \in D(n + 1)
        BY <1>0
    <3>2. g[p] = RootStep(c, g, p)
      <4> HIDE DEF D
      <4> QED BY <2>1
    <3> QED BY <3>1, <3>2
  <2>3. ASSUME NEW p \in D(n + 1)
        PROVE  RootStep(c, g, p) = RootStep(c, h, p)
    <3>1. CASE Many(c, p)
      <4>1. Append(p, 0) \in D(n) /\ Append(p, 1) \in D(n)
          BY <1>0, <3>1, ManyIsShort, PathExtends
      <4>2. h[Append(p, 0)] = g[Append(p, 0)] /\ h[Append(p, 1)] = g[Append(p, 1)]
          BY <2>2, <4>1
      <4> HIDE DEF h
      <4> QED BY <4>2 DEF RootStep
    <3>2. CASE ~Many(c, p)
      <4> HIDE DEF h
      <4> QED BY <3>2 DEF RootStep, Many
    <3> QED BY <3>1, <3>2
  <2>4. h = [p \in D(n + 1) |-> RootStep(c, h, p)]
    <3> HIDE DEF D
    <3> QED BY <2>3
  <2> HIDE DEF h, D
  <2> QED BY <2>4
<1>3. KeyBits \in S
  <2> HIDE DEF S
  <2> QED BY <1>0, <1>1, <1>2, SetInduction
<1>4. D(KeyBits) = Paths
    BY <1>0
<1> HIDE DEF D
<1> QED BY <1>3, <1>4

\* RootBelow is what its recursion says.
LEMMA RootBelowStep ==
    ASSUME NEW c, IsContents(c), NEW p \in Paths
    PROVE  RootBelow(c, p) =
               LET keys == Below(DOMAIN c, p)
               IN  IF keys = {} THEN EmptyHash
                   ELSE IF \E k \in keys : keys = {k}
                   THEN LET k == CHOOSE x \in keys : TRUE IN LeafHash(k, c[k])
                   ELSE BranchHash(RootBelow(c, Append(p, 0)), RootBelow(c, Append(p, 1)))
<1> DEFINE g == CHOOSE root : root = [q \in Paths |-> RootStep(c, root, q)]
<1>1. \A q : RootBelow(c, q) = g[q]
    BY DEF RootBelow, RootStep
<1>2. g = [q \in Paths |-> RootStep(c, g, q)]
    BY RootsExist
<1> HIDE DEF g
<1>3. g[p] = RootStep(c, g, p)
    BY <1>2
<1> QED BY <1>1, <1>3 DEF RootStep

\* A path that goes on from another.
Extends(q, p) == Len(p) <= Len(q) /\ \A i \in 1 .. Len(p) : q[i] = p[i]

\* The part of the contents that is below a path.
Under(c, p) == [k \in Below(DOMAIN c, p) |-> c[k]]

\* Paths are short sequences of bits.
LEMMA PathLength ==
    ASSUME NEW p \in Paths
    PROVE  p \in BitSeqs /\ Len(p) \in Nat /\ Len(p) <= KeyBits /\ KeyBits \in Nat
               /\ DOMAIN p = 1 .. Len(p) /\ \A i \in 1 .. Len(p) : p[i] \in {0, 1}
BY SparseMerkleTreeAssumption DEF Paths, BitSeqs

\* A key is a path to the bottom.
LEMMA KeyIsPath ==
    ASSUME NEW k \in Keys
    PROVE  k \in Paths /\ k \in BitSeqs /\ Len(k) = KeyBits
BY SparseMerkleTreeAssumption DEF Paths, Keys, BitSeqs

\* Appending a bit.
LEMMA AppendBit ==
    ASSUME NEW p \in BitSeqs, NEW b \in {0, 1}
    PROVE  /\ Append(p, b) \in BitSeqs
           /\ Len(Append(p, b)) = Len(p) + 1
           /\ Append(p, b)[Len(p) + 1] = b
           /\ \A i \in 1 .. Len(p) : Append(p, b)[i] = p[i]
BY AppendProperties DEF BitSeqs

\* The keys below a path are those that extend it.
LEMMA BelowExtends ==
    ASSUME NEW K, K \subseteq Keys, NEW p \in Paths
    PROVE  Below(K, p) = {k \in K : Extends(k, p)}
<1>0. Len(p) \in Nat /\ Len(p) <= KeyBits /\ p = [i \in 1 .. Len(p) |-> p[i]]
    BY SparseMerkleTreeAssumption DEF Paths
<1>1. ASSUME NEW k \in K
      PROVE  SubSeq(k, 1, Len(p)) = p <=> Extends(k, p)
  <2>1. k \in BitSeqs /\ Len(k) = KeyBits
      BY DEF Keys
  <2>2. SubSeq(k, 1, Len(p)) = [i \in 1 .. Len(p) |-> k[i]]
      BY <1>0, <2>1, SubSeqProperties DEF BitSeqs
  <2> QED BY <1>0, <2>1, <2>2 DEF Extends
<1> QED BY <1>1 DEF Below

\* One bit further down the keys part in two.
LEMMA BelowParts ==
    ASSUME NEW K \in SUBSET Keys, NEW p \in Paths, Len(p) < KeyBits, NEW b \in {0, 1}
    PROVE  Below(K, Append(p, b)) = {k \in Below(K, p) : k[Len(p) + 1] = b}
<1>2. Append(p, b) \in Paths
    BY PathExtends
<1>3. Len(p) \in Nat /\ KeyBits \in Nat /\ p \in BitSeqs
    BY PathLength
<1>4. ASSUME NEW k \in K
      PROVE  Extends(k, Append(p, b)) <=> Extends(k, p) /\ k[Len(p) + 1] = b
  <2>1. Len(k) = KeyBits
      BY KeyIsPath
  <2> QED BY <1>3, <2>1, AppendBit DEF Extends
<1> QED BY <1>2, <1>4, BelowExtends

\* What two equal parts have in common.
LEMMA UnderDomain ==
    ASSUME NEW c, NEW d, NEW p, Under(c, p) = Under(d, p)
    PROVE  /\ Below(DOMAIN c, p) = Below(DOMAIN d, p)
           /\ \A k \in Below(DOMAIN c, p) : c[k] = d[k]
           /\ Many(c, p) <=> Many(d, p)
<1>1. DOMAIN Under(c, p) = Below(DOMAIN c, p) /\ DOMAIN Under(d, p) = Below(DOMAIN d, p)
    BY DEF Under
<1>2. Below(DOMAIN c, p) = Below(DOMAIN d, p)
    BY <1>1
<1>3. \A k \in Below(DOMAIN c, p) : Under(c, p)[k] = c[k]
    BY DEF Under
<1>4. \A k \in Below(DOMAIN d, p) : Under(d, p)[k] = d[k]
    BY DEF Under
<1> QED BY <1>2, <1>3, <1>4 DEF Many

\* Contents that agree below a path agree below its extensions.
LEMMA UnderStep ==
    ASSUME NEW c, IsContents(c), NEW d, IsContents(d), NEW p \in Paths, Len(p) < KeyBits,
           Under(c, p) = Under(d, p), NEW b \in {0, 1}
    PROVE  Under(c, Append(p, b)) = Under(d, Append(p, b))
<1>1. Below(DOMAIN c, p) = Below(DOMAIN d, p) /\ \A k \in Below(DOMAIN c, p) : c[k] = d[k]
    BY UnderDomain
<1>0. DOMAIN c \subseteq Keys /\ DOMAIN d \subseteq Keys
    BY DEF IsContents
<1>2. Below(DOMAIN c, Append(p, b)) = {k \in Below(DOMAIN c, p) : k[Len(p) + 1] = b}
    BY <1>0, BelowParts
<1>3. Below(DOMAIN d, Append(p, b)) = {k \in Below(DOMAIN d, p) : k[Len(p) + 1] = b}
    BY <1>0, BelowParts
<1> QED BY <1>1, <1>2, <1>3 DEF Under

\* The same for every extension, bit by bit.
LEMMA UnderExtension ==
    ASSUME NEW c, IsContents(c), NEW d, IsContents(d), NEW p \in Paths, NEW q \in Paths,
           Under(c, p) = Under(d, p), Extends(q, p)
    PROVE  Under(c, q) = Under(d, q)
<1>1. Below(DOMAIN c, p) = Below(DOMAIN d, p) /\ \A k \in Below(DOMAIN c, p) : c[k] = d[k]
    BY UnderDomain
<1>2. \A K : K \subseteq Keys => Below(K, q) = {k \in Below(K, p) : Extends(k, q)}
  <2> TAKE K
  <2> HAVE K \subseteq Keys
  <2>1. \A k \in K : Extends(k, q) => Extends(k, p)
      BY PathLength DEF Extends
  <2> QED BY <2>1, BelowExtends
<1>3. /\ Below(DOMAIN c, q) = {k \in Below(DOMAIN c, p) : Extends(k, q)}
      /\ Below(DOMAIN d, q) = {k \in Below(DOMAIN d, p) : Extends(k, q)}
    BY <1>2 DEF IsContents
<1> QED BY <1>1, <1>3 DEF Under

\* The three forms of a hash.
LEMMA RootForms ==
    ASSUME NEW c, IsContents(c), NEW p \in Paths
    PROVE  /\ Below(DOMAIN c, p) = {} => RootBelow(c, p) = EmptyHash
           /\ \A k : Below(DOMAIN c, p) = {k} => RootBelow(c, p) = LeafHash(k, c[k])
           /\ Many(c, p) => RootBelow(c, p) =
                  BranchHash(RootBelow(c, Append(p, 0)), RootBelow(c, Append(p, 1)))
<1> DEFINE keys == Below(DOMAIN c, p)
<1> HIDE DEF keys
<1>1. RootBelow(c, p) =
          IF keys = {} THEN EmptyHash
          ELSE IF \E k \in keys : keys = {k}
          THEN LeafHash(CHOOSE x \in keys : TRUE, c[CHOOSE x \in keys : TRUE])
          ELSE BranchHash(RootBelow(c, Append(p, 0)), RootBelow(c, Append(p, 1)))
    BY RootBelowStep DEF keys
<1>2. Many(c, p) <=> \E k, l \in keys : k # l
    BY DEF Many, keys
<1>3. ASSUME NEW k, keys = {k}
      PROVE  RootBelow(c, p) = LeafHash(k, c[k])
  <2>1. (CHOOSE x \in keys : TRUE) = k
      BY <1>3
  <2> QED BY <1>1, <1>3, <2>1
<1> QED BY <1>1, <1>2, <1>3 DEF keys

\* There is no key below a path, or one, or more than one.
LEMMA Forms ==
    ASSUME NEW c, NEW p
    PROVE  Below(DOMAIN c, p) = {} \/ (\E k : Below(DOMAIN c, p) = {k}) \/ Many(c, p)
BY DEF Many

\* The three cases exclude each other.
LEMMA FormsDiffer ==
    ASSUME NEW c, NEW p
    PROVE  /\ Below(DOMAIN c, p) = {} => ~Many(c, p)
           /\ \A k : Below(DOMAIN c, p) = {k} => ~Many(c, p)
BY DEF Many

\* Hashes of different kinds differ: the empty hash is no leaf's,
LEMMA EmptyIsNoLeaf ==
    ASSUME NEW k, NEW v
    PROVE  EmptyHash # LeafHash(k, v)
<1>1. DOMAIN <<"empty">> = 1 .. 1 /\ DOMAIN <<"leaf", k, v>> = 1 .. 3
    OBVIOUS
<1> QED BY <1>1 DEF EmptyHash, LeafHash

\* and no branch's,
LEMMA EmptyIsNoBranch ==
    ASSUME NEW l, NEW r
    PROVE  EmptyHash # BranchHash(l, r)
<1>1. DOMAIN <<"empty">> = 1 .. 1 /\ DOMAIN <<"branch", l, r>> = 1 .. 3
    OBVIOUS
<1> QED BY <1>1 DEF EmptyHash, BranchHash

\* and a leaf's is no branch's: leaf_hash and branch_hash hash another
\* first byte.
LEMMA LeafIsNoBranch ==
    ASSUME NEW k, NEW v, NEW l, NEW r
    PROVE  LeafHash(k, v) # BranchHash(l, r)
BY DEF LeafHash, BranchHash

\* A leaf's hash tells its key and its value,
LEMMA LeafTells ==
    ASSUME NEW k, NEW v, NEW l, NEW w, LeafHash(k, v) = LeafHash(l, w)
    PROVE  k = l /\ v = w
BY DEF LeafHash

\* and a branch's those of its halves: hashes do not collide.
LEMMA BranchTells ==
    ASSUME NEW k, NEW v, NEW l, NEW w, BranchHash(k, v) = BranchHash(l, w)
    PROVE  k = l /\ v = w
BY DEF BranchHash

\* The hash below a path depends on the contents below it only.
LEMMA RootIsLocal ==
    ASSUME NEW c, IsContents(c), NEW d, IsContents(d), NEW p \in Paths, Under(c, p) = Under(d, p)
    PROVE  RootBelow(c, p) = RootBelow(d, p)
<1> DEFINE S == {n \in Nat : \A q \in Paths : Len(q) >= KeyBits - n /\ Under(c, q) = Under(d, q)
                                 => RootBelow(c, q) = RootBelow(d, q)}
<1>1. ASSUME NEW n \in Nat, NEW q \in Paths, Under(c, q) = Under(d, q),
             Many(c, q) => RootBelow(c, Append(q, 0)) = RootBelow(d, Append(q, 0))
                           /\ RootBelow(c, Append(q, 1)) = RootBelow(d, Append(q, 1))
      PROVE  RootBelow(c, q) = RootBelow(d, q)
  <2>1. Below(DOMAIN c, q) = Below(DOMAIN d, q) /\ \A k \in Below(DOMAIN c, q) : c[k] = d[k]
      BY <1>1, UnderDomain
  <2>2. Many(c, q) <=> Many(d, q)
      BY <1>1, UnderDomain
  <2>3. CASE Below(DOMAIN c, q) = {}
      BY <2>1, <2>3, RootForms
  <2>4. CASE \E k : Below(DOMAIN c, q) = {k}
    <3>1. PICK k : Below(DOMAIN c, q) = {k}
        BY <2>4
    <3>2. RootBelow(c, q) = LeafHash(k, c[k]) /\ RootBelow(d, q) = LeafHash(k, d[k])
        BY <2>1, <3>1, RootForms
    <3> QED BY <2>1, <3>1, <3>2
  <2>5. CASE Many(c, q)
      BY <1>1, <2>2, <2>5, RootForms
  <2> QED BY <2>3, <2>4, <2>5, Forms
<1>2. 0 \in S
  <2> SUFFICES ASSUME NEW q \in Paths, Len(q) >= KeyBits - 0, Under(c, q) = Under(d, q)
               PROVE  RootBelow(c, q) = RootBelow(d, q)
      OBVIOUS
  <2>1. ~Many(c, q)
      BY ManyIsShort, PathLength
  <2> HIDE DEF S
  <2> QED BY <1>1, <2>1
<1>3. ASSUME NEW n \in Nat, n \in S
      PROVE  n + 1 \in S
  <2> SUFFICES ASSUME NEW q \in Paths, Len(q) >= KeyBits - (n + 1), Under(c, q) = Under(d, q)
               PROVE  RootBelow(c, q) = RootBelow(d, q)
      OBVIOUS
  <2>1. ASSUME Many(c, q), NEW b \in {0, 1}
        PROVE  RootBelow(c, Append(q, b)) = RootBelow(d, Append(q, b))
    <3>1. Len(q) < KeyBits
        BY <2>1, ManyIsShort
    <3>2. Append(q, b) \in Paths /\ Len(Append(q, b)) = Len(q) + 1
        BY <3>1, PathExtends
    <3>3. Under(c, Append(q, b)) = Under(d, Append(q, b))
        BY <3>1, UnderStep
    <3>4. Len(Append(q, b)) >= KeyBits - n
        BY <3>2, PathLength
    <3> QED BY <1>3, <3>2, <3>3, <3>4
  <2> HIDE DEF S
  <2> QED BY <1>1, <2>1
<1>4. KeyBits \in S
  <2> HIDE DEF S
  <2> QED BY <1>2, <1>3, SetInduction, SparseMerkleTreeAssumption
<1> QED BY <1>4, PathLength

\* A key is below a path that it extends only.
LEMMA PathFromKey ==
    ASSUME NEW p \in Paths, NEW q \in Paths, NEW k, Extends(k, p), Extends(k, q), Len(p) = Len(q)
    PROVE  p = q
<1>1. p = [i \in 1 .. Len(p) |-> p[i]] /\ q = [i \in 1 .. Len(q) |-> q[i]]
    BY DEF Paths
<1> QED BY <1>1, PathLength DEF Extends

\* Contents below a path are those below its two continuations.
LEMMA UnderJoin ==
    ASSUME NEW c, IsContents(c), NEW d, IsContents(d), NEW p \in Paths, Len(p) < KeyBits,
           \A b \in {0, 1} : Under(c, Append(p, b)) = Under(d, Append(p, b))
    PROVE  Under(c, p) = Under(d, p)
<1>0. DOMAIN c \subseteq Keys /\ DOMAIN d \subseteq Keys
    BY DEF IsContents
<1>1. \A b \in {0, 1} : /\ Below(DOMAIN c, Append(p, b)) = Below(DOMAIN d, Append(p, b))
                        /\ \A k \in Below(DOMAIN c, Append(p, b)) : c[k] = d[k]
    BY UnderDomain
<1>2. \A b \in {0, 1} :
         /\ Below(DOMAIN c, Append(p, b)) = {k \in Below(DOMAIN c, p) : k[Len(p) + 1] = b}
         /\ Below(DOMAIN d, Append(p, b)) = {k \in Below(DOMAIN d, p) : k[Len(p) + 1] = b}
  <2> TAKE b \in {0, 1}
  <2>1. \A K \in SUBSET Keys : Below(K, Append(p, b)) = {k \in Below(K, p) : k[Len(p) + 1] = b}
      BY BelowParts
  <2> QED BY <1>0, <2>1
<1>3. \A k \in Keys : k[Len(p) + 1] \in {0, 1}
  <2> TAKE k \in Keys
  <2>1. k \in BitSeqs /\ Len(k) = KeyBits /\ Len(p) \in Nat
      BY KeyIsPath, PathLength
  <2> QED BY <2>1, SparseMerkleTreeAssumption DEF BitSeqs
<1>4. Below(DOMAIN c, p) \subseteq Keys /\ Below(DOMAIN d, p) \subseteq Keys
    BY <1>0 DEF Below
<1>5. Below(DOMAIN c, p) = Below(DOMAIN d, p)
  <2>1. ASSUME NEW k \in Below(DOMAIN c, p)
        PROVE  k \in Below(DOMAIN d, p)
      BY <1>1, <1>2, <1>3, <1>4
  <2>2. ASSUME NEW k \in Below(DOMAIN d, p)
        PROVE  k \in Below(DOMAIN c, p)
      BY <1>1, <1>2, <1>3, <1>4
  <2> QED BY <2>1, <2>2
<1>6. \A k \in Below(DOMAIN c, p) : c[k] = d[k]
    BY <1>1, <1>2, <1>3, <1>4
<1> QED BY <1>5, <1>6 DEF Under

\* Keys that part at a path are below its two continuations, each on its own.
LEMMA PartAt ==
    ASSUME NEW c, IsContents(c), NEW p \in Paths, Many(c, p),
           ~Many(c, Append(p, 0)), ~Many(c, Append(p, 1))
    PROVE  \E k, l \in Keys : /\ Below(DOMAIN c, Append(p, 0)) = {k}
                              /\ Below(DOMAIN c, Append(p, 1)) = {l}
<1>0. DOMAIN c \subseteq Keys
    BY DEF IsContents
<1>1. Len(p) < KeyBits
    BY ManyIsShort
<1>2. \A b \in {0, 1} :
         Below(DOMAIN c, Append(p, b)) = {k \in Below(DOMAIN c, p) : k[Len(p) + 1] = b}
    BY <1>0, <1>1, BelowParts
<1>3. PICK k \in Below(DOMAIN c, p), l \in Below(DOMAIN c, p) : k # l
    BY DEF Many
<1>4. Below(DOMAIN c, p) \subseteq Keys
    BY <1>0 DEF Below
<1>5. \A x \in Below(DOMAIN c, p) : x[Len(p) + 1] = 0 \/ x[Len(p) + 1] = 1
  <2> TAKE x \in Below(DOMAIN c, p)
  <2>1. x \in BitSeqs /\ Len(x) = KeyBits /\ Len(p) \in Nat
      BY <1>4, KeyIsPath, PathLength
  <2> QED BY <1>1, <2>1, SparseMerkleTreeAssumption DEF BitSeqs
<1>6. \A b \in {0, 1} : \A x, y \in Below(DOMAIN c, Append(p, b)) : x = y
    BY DEF Many
<1>7. \A b \in {0, 1} : \E x \in Below(DOMAIN c, p) : x \in Below(DOMAIN c, Append(p, b))
    BY <1>2, <1>3, <1>5, <1>6
<1>8. PICK x \in Keys, y \in Keys : x \in Below(DOMAIN c, Append(p, 0)) /\ y \in Below(DOMAIN c, Append(p, 1))
    BY <1>4, <1>7
<1> QED BY <1>6, <1>8

\* The hash of a node (leaf_hash, branch_hash) tells the contents below its
\* path and, if there is more than one key, the path itself: a leaf's hash
\* covers the whole key.  This is why a stub may be deleted by its hash.
THEOREM RootTells ==
    ASSUME NEW c, IsContents(c), NEW d, IsContents(d), NEW p \in Paths, NEW q \in Paths,
           RootBelow(c, p) = RootBelow(d, q)
    PROVE  /\ Under(c, p) = Under(d, q)
           /\ Many(c, p) => p = q
<1> DEFINE Good(u, v) == /\ Under(c, u) = Under(d, v)
                         /\ Many(c, u) => u = v
           S == {n \in Nat : \A u, v \in Paths :
                                 Len(u) >= KeyBits - n /\ RootBelow(c, u) = RootBelow(d, v)
                                     => Good(u, v)}
<1>1. ASSUME NEW u \in Paths, NEW v \in Paths, RootBelow(c, u) = RootBelow(d, v), ~Many(c, u)
      PROVE  Good(u, v)
  <2>1. CASE Below(DOMAIN c, u) = {}
    <3>1. RootBelow(c, u) = EmptyHash
        BY <2>1, RootForms
    <3>2. Below(DOMAIN d, v) = {}
      <4>1. CASE \E l : Below(DOMAIN d, v) = {l}
        <5>1. PICK l : Below(DOMAIN d, v) = {l}
            BY <4>1
        <5>2. RootBelow(d, v) = LeafHash(l, d[l])
            BY <5>1, RootForms
        <5> QED BY <1>1, <3>1, <5>2, EmptyIsNoLeaf
      <4>2. CASE Many(d, v)
        <5>1. RootBelow(d, v) = BranchHash(RootBelow(d, Append(v, 0)), RootBelow(d, Append(v, 1)))
            BY <4>2, RootForms
        <5> QED BY <1>1, <3>1, <5>1, EmptyIsNoBranch
      <4> QED BY <4>1, <4>2, Forms
    <3> QED BY <1>1, <2>1, <3>2 DEF Under
  <2>2. CASE \E k : Below(DOMAIN c, u) = {k}
    <3>1. PICK k : Below(DOMAIN c, u) = {k}
        BY <2>2
    <3>2. RootBelow(c, u) = LeafHash(k, c[k])
        BY <3>1, RootForms
    <3>3. PICK l : Below(DOMAIN d, v) = {l}
      <4>1. CASE Below(DOMAIN d, v) = {}
          BY <1>1, <3>2, <4>1, RootForms, EmptyIsNoLeaf
      <4>2. CASE Many(d, v)
        <5>1. RootBelow(d, v) = BranchHash(RootBelow(d, Append(v, 0)), RootBelow(d, Append(v, 1)))
            BY <4>2, RootForms
        <5> QED BY <1>1, <3>2, <5>1, LeafIsNoBranch
      <4> QED BY <4>1, <4>2, Forms
    <3>4. RootBelow(d, v) = LeafHash(l, d[l])
        BY <3>3, RootForms
    <3>5. k = l /\ c[k] = d[k]
      <4>1. LeafHash(k, c[k]) = LeafHash(l, d[l])
          BY <1>1, <3>2, <3>4
      <4> QED BY <4>1, LeafTells
    <3> QED BY <1>1, <3>1, <3>3, <3>5 DEF Under
  <2> QED BY <1>1, <2>1, <2>2, Forms
<1>2. 0 \in S
  <2> SUFFICES ASSUME NEW u \in Paths, NEW v \in Paths, Len(u) >= KeyBits - 0,
                      RootBelow(c, u) = RootBelow(d, v)
               PROVE  Good(u, v)
      OBVIOUS
  <2>1. ~Many(c, u)
      BY ManyIsShort, PathLength
  <2> HIDE DEF S, Good
  <2> QED BY <1>1, <2>1
<1>3. ASSUME NEW n \in Nat, n \in S
      PROVE  n + 1 \in S
  <2> SUFFICES ASSUME NEW u \in Paths, NEW v \in Paths, Len(u) >= KeyBits - (n + 1),
                      RootBelow(c, u) = RootBelow(d, v), Many(c, u)
               PROVE  Good(u, v)
    <3> HIDE DEF Good
    <3> QED BY <1>1
  <2>1. RootBelow(c, u) = BranchHash(RootBelow(c, Append(u, 0)), RootBelow(c, Append(u, 1)))
      BY RootForms
  <2>2. Many(d, v)
    <3>1. CASE Below(DOMAIN d, v) = {}
        BY <2>1, <3>1, RootForms, EmptyIsNoBranch, ZenonT(40)
    <3>2. CASE \E k : Below(DOMAIN d, v) = {k}
      <4>1. PICK l : Below(DOMAIN d, v) = {l}
          BY <3>2
      <4>2. RootBelow(d, v) = LeafHash(l, d[l])
          BY <4>1, RootForms
      <4> QED BY <2>1, <4>2, LeafIsNoBranch
    <3> QED BY <3>1, <3>2, Forms
  <2>3. RootBelow(d, v) = BranchHash(RootBelow(d, Append(v, 0)), RootBelow(d, Append(v, 1)))
      BY <2>2, RootForms
  <2>4. \A b \in {0, 1} : RootBelow(c, Append(u, b)) = RootBelow(d, Append(v, b))
    <3>1. BranchHash(RootBelow(c, Append(u, 0)), RootBelow(c, Append(u, 1))) =
          BranchHash(RootBelow(d, Append(v, 0)), RootBelow(d, Append(v, 1)))
        BY <2>1, <2>3
    <3>2. /\ RootBelow(c, Append(u, 0)) = RootBelow(d, Append(v, 0))
          /\ RootBelow(c, Append(u, 1)) = RootBelow(d, Append(v, 1))
        BY <3>1, BranchTells
    <3> QED BY <3>2
  <2>5. Len(u) < KeyBits /\ Len(v) < KeyBits
      BY <2>2, ManyIsShort
  <2>6. \A b \in {0, 1} : /\ Append(u, b) \in Paths /\ Len(Append(u, b)) = Len(u) + 1
                          /\ Append(v, b) \in Paths /\ Len(Append(v, b)) = Len(v) + 1
      BY <2>5, PathExtends
  <2>7. \A b \in {0, 1} : Good(Append(u, b), Append(v, b))
    <3> TAKE b \in {0, 1}
    <3>1. Len(Append(u, b)) >= KeyBits - n
        BY <2>6, PathLength
    <3> HIDE DEF Good
    <3> QED BY <1>3, <2>4, <2>6, <3>1
  <2>8. u = v
    <3>1. CASE \E b \in {0, 1} : Many(c, Append(u, b))
      <4>1. PICK b \in {0, 1} : Append(u, b) = Append(v, b)
          BY <2>7, <3>1
      <4> QED BY <4>1, PathLength, AppendInjective DEF BitSeqs
    <3>2. CASE ~\E b \in {0, 1} : Many(c, Append(u, b))
      <4>1. PICK k \in Keys, l \in Keys : /\ Below(DOMAIN c, Append(u, 0)) = {k}
                                          /\ Below(DOMAIN c, Append(u, 1)) = {l}
          BY <3>2, PartAt
      <4>2. Below(DOMAIN d, Append(v, 0)) = {k} /\ Below(DOMAIN d, Append(v, 1)) = {l}
        <5>1. /\ Under(c, Append(u, 0)) = Under(d, Append(v, 0))
              /\ Under(c, Append(u, 1)) = Under(d, Append(v, 1))
            BY <2>7
        <5>2. /\ \A x, e, f : DOMAIN [k1 \in Below(DOMAIN e, f) |-> e[k1]] = Below(DOMAIN e, f)
            OBVIOUS
        <5> QED BY <4>1, <5>1, <5>2 DEF Under
      <4>0. DOMAIN c \subseteq Keys /\ DOMAIN d \subseteq Keys
          BY DEF IsContents
      <4>3. /\ Extends(k, Append(u, 0)) /\ Extends(k, Append(v, 0))
            /\ Extends(l, Append(u, 1)) /\ Extends(l, Append(v, 1))
        <5>1. k \in Below(DOMAIN c, Append(u, 0)) /\ k \in Below(DOMAIN d, Append(v, 0))
            BY <4>1, <4>2
        <5>2. l \in Below(DOMAIN c, Append(u, 1)) /\ l \in Below(DOMAIN d, Append(v, 1))
            BY <4>1, <4>2
        <5>3. \A w \in Paths : /\ \A x \in Below(DOMAIN c, w) : Extends(x, w)
                              /\ \A x \in Below(DOMAIN d, w) : Extends(x, w)
            BY <4>0, BelowExtends
        <5>4. /\ Append(u, 0) \in Paths /\ Append(v, 0) \in Paths
              /\ Append(u, 1) \in Paths /\ Append(v, 1) \in Paths
            BY <2>6
        <5> QED BY <5>1, <5>2, <5>3, <5>4
      <4>9. \A w \in Paths, b \in {0, 1} : \A x : Extends(x, Append(w, b)) =>
                Extends(x, w) /\ x[Len(w) + 1] = b /\ Len(w) + 1 <= Len(x)
        <5> TAKE w \in Paths, b \in {0, 1}
        <5> TAKE x
        <5> HAVE Extends(x, Append(w, b))
        <5>1. w \in BitSeqs /\ Len(w) \in Nat
            BY PathLength
        <5>2. /\ Len(Append(w, b)) = Len(w) + 1 /\ Append(w, b)[Len(w) + 1] = b
              /\ \A i \in 1 .. Len(w) : Append(w, b)[i] = w[i]
            BY <5>1, AppendBit
        <5>3. Len(x) >= Len(w) + 1 /\ \A i \in 1 .. Len(w) + 1 : x[i] = Append(w, b)[i]
            BY <5>2 DEF Extends
        <5> QED BY <5>1, <5>2, <5>3 DEF Extends
      <4>4. Extends(k, u) /\ k[Len(u) + 1] = 0 /\ Extends(l, u) /\ l[Len(u) + 1] = 1
          BY <4>3, <4>9
      <4>5. Extends(k, v) /\ k[Len(v) + 1] = 0 /\ Extends(l, v) /\ l[Len(v) + 1] = 1
          BY <4>3, <4>9
      <4>6. Len(u) = Len(v)
        <5>1. Len(u) \in Nat /\ Len(v) \in Nat
            BY PathLength
        <5>2. CASE Len(u) < Len(v)
          <6>1. k[Len(u) + 1] = v[Len(u) + 1] /\ l[Len(u) + 1] = v[Len(u) + 1]
              BY <4>5, <5>1, <5>2 DEF Extends
          <6> QED BY <4>4, <6>1
        <5>3. CASE Len(v) < Len(u)
          <6>1. k[Len(v) + 1] = u[Len(v) + 1] /\ l[Len(v) + 1] = u[Len(v) + 1]
              BY <4>4, <5>1, <5>3 DEF Extends
          <6> QED BY <4>5, <6>1
        <5> QED BY <5>1, <5>2, <5>3
      <4> QED BY <4>4, <4>5, <4>6, PathFromKey
    <3> QED BY <3>1, <3>2
  <2>9. Under(c, u) = Under(d, u)
      BY <2>5, <2>7, <2>8, UnderJoin
  <2> QED BY <2>8, <2>9
<1>4. KeyBits \in S
  <2> HIDE DEF S
  <2> QED BY <1>2, <1>3, SetInduction, SparseMerkleTreeAssumption
<1> QED BY <1>4, PathLength

\* Frontiers made of one of each half.
Joined(fronts, q) ==
    {a \in Seq(BitSeqs) :
        \E u \in fronts[Append(q, 0)], v \in fronts[Append(q, 1)] : a = u \o v}

\* The frontiers of the tree below a path that reach at most n bits further
\* down: the path itself, or a frontier of its left half and one of its right.
Fronts[n \in 0 .. SubtreeHeight] ==
    [q \in BitSeqs |-> {<<q>>} \union IF n = 0 THEN {} ELSE Joined(Fronts[n - 1], q)]

\* Fronts is what its recursion says.
LEMMA FrontsAre ==
    /\ Fronts \in [0 .. SubtreeHeight -> [BitSeqs -> SUBSET Seq(BitSeqs)]]
    /\ \A n \in 0 .. SubtreeHeight : \A q \in BitSeqs :
           Fronts[n][q] = {<<q>>} \union IF n = 0 THEN {} ELSE Joined(Fronts[n - 1], q)
<1> DEFINE A == [BitSeqs -> SUBSET Seq(BitSeqs)]
           base == [q \in BitSeqs |-> {<<q>>}]
           step == [x \in Nat \X A |-> [q \in BitSeqs |-> {<<q>>} \union Joined(x[2], q)]]
<1>0. SubtreeHeight \in Nat
    BY SparseMerkleTreeAssumption
<1>1. base \in A
    OBVIOUS
<1>2. step \in [Nat \X A -> A]
  <2>1. ASSUME NEW x \in Nat \X A, NEW q \in BitSeqs
        PROVE  {<<q>>} \union Joined(x[2], q) \in SUBSET Seq(BitSeqs)
    <3>1. x[2] \in A
        OBVIOUS
    <3>2. Joined(x[2], q) \in SUBSET Seq(BitSeqs)
        BY DEF Joined
    <3> QED BY <3>2
  <2> QED BY <2>1
<1> HIDE DEF A, base, step
<1>3. PICK f : Recurs(f, A, base, step, SubtreeHeight)
    BY <1>0, <1>1, <1>2, Recursion
<1>4. \A n \in 0 .. SubtreeHeight : f[n] =
          [q \in BitSeqs |-> {<<q>>} \union IF n = 0 THEN {} ELSE Joined(f[n - 1], q)]
  <2> TAKE n \in 0 .. SubtreeHeight
  <2>1. CASE n = 0
      BY <1>3, <2>1 DEF Recurs, base
  <2>2. CASE n # 0
    <3>1. n - 1 \in 0 .. SubtreeHeight /\ n \in 1 .. SubtreeHeight
        BY <1>0, <2>2
    <3>2. f[n] = step[<<n, f[n - 1]>>] /\ f[n - 1] \in A
        BY <1>3, <3>1 DEF Recurs
    <3>3. <<n, f[n - 1]>> \in Nat \X A
        BY <3>2
    <3>4. f[n] = [q \in BitSeqs |-> {<<q>>} \union Joined(f[n - 1], q)]
        BY <3>2, <3>3 DEF step
    <3> QED BY <2>2, <3>4
  <2> QED BY <2>1, <2>2
<1>5. f = [n \in 0 .. SubtreeHeight |->
              [q \in BitSeqs |-> {<<q>>} \union IF n = 0 THEN {} ELSE Joined(f[n - 1], q)]]
  <2>1. f = [n \in 0 .. SubtreeHeight |-> f[n]]
      BY <1>3 DEF Recurs
  <2> QED BY <1>4, <2>1
<1>6. Fronts = [n \in 0 .. SubtreeHeight |->
                   [q \in BitSeqs |-> {<<q>>} \union IF n = 0 THEN {} ELSE Joined(Fronts[n - 1], q)]]
    BY <1>5 DEF Fronts
<1>7. \A n \in 0 .. SubtreeHeight : Fronts[n] =
                   [q \in BitSeqs |-> {<<q>>} \union IF n = 0 THEN {} ELSE Joined(Fronts[n - 1], q)]
    BY <1>6
<1>8. \A n \in 0 .. SubtreeHeight : \A q \in BitSeqs :
           Fronts[n][q] = {<<q>>} \union IF n = 0 THEN {} ELSE Joined(Fronts[n - 1], q)
    BY <1>7
<1>9. \A n \in 0 .. SubtreeHeight : Fronts[n] \in A
  <2> DEFINE S == {n \in Nat : n <= SubtreeHeight => Fronts[n] \in A}
  <2>1. 0 \in S
      BY <1>0, <1>1, <1>7 DEF base
  <2>2. ASSUME NEW n \in Nat, n \in S
        PROVE  n + 1 \in S
    <3>1. SUFFICES ASSUME n + 1 <= SubtreeHeight
                   PROVE  Fronts[n + 1] \in A
        OBVIOUS
    <3>2. Fronts[n] \in A
        BY <1>0, <2>2, <3>1
    <3>3. <<n, Fronts[n]>> \in Nat \X A
        BY <3>2
    <3>4. step[<<n, Fronts[n]>>] \in A
        BY <1>2, <3>3
    <3>5. step[<<n, Fronts[n]>>] = [q \in BitSeqs |-> {<<q>>} \union Joined(Fronts[n], q)]
        BY <3>3 DEF step
    <3>6. n + 1 \in 0 .. SubtreeHeight /\ n + 1 # 0 /\ (n + 1) - 1 = n
        BY <1>0, <3>1
    <3>7. Fronts[n + 1] = [q \in BitSeqs |-> {<<q>>} \union Joined(Fronts[n], q)]
        BY <1>7, <3>6
    <3> QED BY <3>4, <3>5, <3>7
  <2>3. Nat \subseteq S
    <3> HIDE DEF S
    <3> QED BY <2>1, <2>2, SetInduction
  <2> QED BY <1>0, <2>3
<1>10. Fronts \in [0 .. SubtreeHeight -> A]
    BY <1>6, <1>9
<1> QED BY <1>8, <1>10 DEF A

\* The empty frontier further down, and the two halves of any other.
LEMMA FrontIsSingle ==
    ASSUME NEW n \in 0 .. SubtreeHeight, NEW q \in BitSeqs
    PROVE  <<q>> \in Fronts[n][q] /\ (n = 0 => Fronts[n][q] = {<<q>>})
BY FrontsAre

\* The elements of a sequence that is cut in two.
LEMMA ConcatElements ==
    ASSUME NEW T, NEW u \in Seq(T), NEW v \in Seq(T)
    PROVE  /\ u \o v \in Seq(T)
           /\ Len(u \o v) = Len(u) + Len(v)
           /\ Len(u) \in Nat /\ Len(v) \in Nat
           /\ \A i \in 1 .. Len(u) : (u \o v)[i] = u[i]
           /\ \A i \in 1 .. Len(u) + Len(v) : i > Len(u) => (u \o v)[i] = v[i - Len(u)]
BY ConcatProperties

\* A frontier is a sequence of places.
LEMMA FrontType ==
    ASSUME NEW n \in Nat, n <= SubtreeHeight, NEW q \in BitSeqs, NEW a \in Fronts[n][q]
    PROVE  a \in Seq(BitSeqs)
<1>1. n \in 0 .. SubtreeHeight
    BY SparseMerkleTreeAssumption
<1> QED BY <1>1, FrontsAre

\* Frontiers of the two halves make one.
LEMMA FrontIsJoined ==
    ASSUME NEW n \in Nat, n < SubtreeHeight, NEW q \in BitSeqs,
           NEW u \in Fronts[n][Append(q, 0)], NEW v \in Fronts[n][Append(q, 1)]
    PROVE  u \o v \in Fronts[n + 1][q]
<1>1. n + 1 \in 0 .. SubtreeHeight /\ (n + 1) - 1 = n /\ n + 1 # 0
    BY SparseMerkleTreeAssumption
<1>2. Fronts[n + 1][q] = {<<q>>} \union Joined(Fronts[n], q)
    BY <1>1, FrontsAre
<1>3. u \in Seq(BitSeqs) /\ v \in Seq(BitSeqs)
  <2>1. Append(q, 0) \in BitSeqs /\ Append(q, 1) \in BitSeqs /\ n <= SubtreeHeight
      BY AppendBit, SparseMerkleTreeAssumption
  <2> QED BY <2>1, FrontType
<1>4. u \o v \in Seq(BitSeqs)
    BY <1>3, ConcatElements
<1> QED BY <1>2, <1>4 DEF Joined

\* A frontier is the place itself or made of frontiers of its halves.
LEMMA FrontParts ==
    ASSUME NEW n \in Nat, n < SubtreeHeight, NEW q \in BitSeqs, NEW a \in Fronts[n + 1][q]
    PROVE  a = <<q>> \/ \E u \in Fronts[n][Append(q, 0)], v \in Fronts[n][Append(q, 1)] : a = u \o v
<1>1. n + 1 \in 0 .. SubtreeHeight /\ (n + 1) - 1 = n /\ n + 1 # 0
    BY SparseMerkleTreeAssumption
<1>2. Fronts[n + 1][q] = {<<q>>} \union Joined(Fronts[n], q)
    BY <1>1, FrontsAre
<1> QED BY <1>2 DEF Joined

\* A frontier lies below its path, at most n bits further down.
LEMMA FrontExtends ==
    ASSUME NEW n \in Nat, n <= SubtreeHeight
    PROVE  \A q \in BitSeqs : \A a \in Fronts[n][q] :
               /\ a \in Seq(BitSeqs) /\ Len(a) \in Nat /\ Len(a) > 0
               /\ \A i \in 1 .. Len(a) : a[i] \in BitSeqs /\ Extends(a[i], q) /\ Len(a[i]) <= Len(q) + n
<1> DEFINE Good(m, q, a) ==
               /\ a \in Seq(BitSeqs) /\ Len(a) \in Nat /\ Len(a) > 0
               /\ \A i \in 1 .. Len(a) : a[i] \in BitSeqs /\ Extends(a[i], q) /\ Len(a[i]) <= Len(q) + m
           S == {m \in Nat : m <= SubtreeHeight =>
                                 \A q \in BitSeqs : \A a \in Fronts[m][q] : Good(m, q, a)}
<1>0. SubtreeHeight \in Nat
    BY SparseMerkleTreeAssumption
<1>1. ASSUME NEW m \in Nat, NEW q \in BitSeqs
      PROVE  Good(m, q, <<q>>)
  <2>1. <<q>> \in Seq(BitSeqs) /\ Len(<<q>>) = 1 /\ <<q>>[1] = q
      OBVIOUS
  <2>2. Extends(q, q) /\ Len(q) \in Nat
      BY DEF Extends, BitSeqs
  <2> QED BY <2>1, <2>2
<1>2. 0 \in S
  <2>1. 0 \in 0 .. SubtreeHeight
      BY <1>0
  <2>2. \A q \in BitSeqs : \A a \in Fronts[0][q] : a = <<q>>
      BY <2>1, FrontIsSingle
  <2> HIDE DEF Good
  <2> QED BY <1>1, <2>2
<1>3. ASSUME NEW m \in Nat, m \in S
      PROVE  m + 1 \in S
  <2> SUFFICES ASSUME m + 1 <= SubtreeHeight, NEW q \in BitSeqs, NEW a \in Fronts[m + 1][q]
               PROVE  Good(m + 1, q, a)
      OBVIOUS
  <2>1. m < SubtreeHeight /\ m <= SubtreeHeight
      BY <1>0
  <2>2. CASE a = <<q>>
      BY <1>1, <2>2
  <2>3. CASE \E u \in Fronts[m][Append(q, 0)], v \in Fronts[m][Append(q, 1)] : a = u \o v
    <3>1. PICK u \in Fronts[m][Append(q, 0)], v \in Fronts[m][Append(q, 1)] : a = u \o v
        BY <2>3
    <3>2. Append(q, 0) \in BitSeqs /\ Append(q, 1) \in BitSeqs
        BY AppendBit
    <3>3. Good(m, Append(q, 0), u) /\ Good(m, Append(q, 1), v)
      <4> HIDE DEF Good
      <4> QED BY <1>3, <2>1, <3>2
    <3>4. /\ a \in Seq(BitSeqs) /\ Len(a) = Len(u) + Len(v)
          /\ \A i \in 1 .. Len(u) : a[i] = u[i]
          /\ \A i \in 1 .. Len(u) + Len(v) : i > Len(u) => a[i] = v[i - Len(u)]
        BY <3>1, <3>3, ConcatElements
    <3>5. \A x \in BitSeqs, b \in {0, 1} : Extends(x, Append(q, b)) => Extends(x, q)
      <4> TAKE x \in BitSeqs, b \in {0, 1}
      <4>1. /\ Len(Append(q, b)) = Len(q) + 1 /\ Len(q) \in Nat /\ Len(x) \in Nat
            /\ \A i \in 1 .. Len(q) : Append(q, b)[i] = q[i]
          BY AppendBit DEF BitSeqs
      <4> QED BY <4>1 DEF Extends
    <3>6. Len(Append(q, 0)) = Len(q) + 1 /\ Len(Append(q, 1)) = Len(q) + 1 /\ Len(q) \in Nat
        BY AppendBit DEF BitSeqs
    <3>7. ASSUME NEW i \in 1 .. Len(a)
          PROVE  a[i] \in BitSeqs /\ Extends(a[i], q) /\ Len(a[i]) <= Len(q) + (m + 1)
      <4>1. CASE i <= Len(u)
        <5>1. i \in 1 .. Len(u) /\ a[i] = u[i]
            BY <3>3, <3>4, <4>1
        <5>2. u[i] \in BitSeqs /\ Extends(u[i], Append(q, 0)) /\ Len(u[i]) <= Len(q) + 1 + m
            BY <3>3, <3>6, <5>1
        <5> QED BY <3>5, <3>6, <5>1, <5>2
      <4>2. CASE i > Len(u)
        <5>0. Len(a) = Len(u) + Len(v) /\ Len(u) \in Nat /\ Len(v) \in Nat /\ i \in Nat
            BY <3>3, <3>4
        <5>1. i - Len(u) \in 1 .. Len(v) /\ i \in 1 .. Len(u) + Len(v)
            BY <4>2, <5>0
        <5>3. a[i] = v[i - Len(u)]
            BY <3>4, <4>2, <5>1
        <5>2. v[i - Len(u)] \in BitSeqs /\ Extends(v[i - Len(u)], Append(q, 1))
              /\ Len(v[i - Len(u)]) <= Len(q) + 1 + m
            BY <3>3, <3>6, <5>1
        <5> QED BY <3>5, <3>6, <5>2, <5>3
      <4> QED BY <3>3, <3>4, <4>1, <4>2
    <3> QED BY <3>3, <3>4, <3>7
  <2> HIDE DEF Good
  <2> QED BY <2>1, <2>2, <2>3, FrontParts
<1>4. n \in S
  <2> HIDE DEF S
  <2> QED BY <1>2, <1>3, SetInduction
<1> QED BY <1>4

\* Induction over frontiers: S[n][q] holds all frontiers if it holds the
\* single ones and what is joined from its members further down.
LEMMA FrontInduction ==
    ASSUME NEW S,
           \A n \in 0 .. SubtreeHeight : \A q \in BitSeqs : <<q>> \in S[n][q],
           \A n \in Nat : \A q \in BitSeqs : n < SubtreeHeight =>
               \A u \in Fronts[n][Append(q, 0)], v \in Fronts[n][Append(q, 1)] :
                   u \in S[n][Append(q, 0)] /\ v \in S[n][Append(q, 1)]
                       => u \o v \in S[n + 1][q]
    PROVE  \A n \in 0 .. SubtreeHeight : \A q \in BitSeqs : Fronts[n][q] \subseteq S[n][q]
<1> DEFINE T == {n \in Nat : n <= SubtreeHeight =>
                                 \A q \in BitSeqs : Fronts[n][q] \subseteq S[n][q]}
<1>0. SubtreeHeight \in Nat
    BY SparseMerkleTreeAssumption
<1>1. 0 \in T
  <2>1. 0 \in 0 .. SubtreeHeight
      BY <1>0
  <2>2. \A q \in BitSeqs : Fronts[0][q] = {<<q>>}
      BY <2>1, FrontIsSingle
  <2> QED BY <2>1, <2>2
<1>2. ASSUME NEW n \in Nat, n \in T
      PROVE  n + 1 \in T
  <2> SUFFICES ASSUME n + 1 <= SubtreeHeight, NEW q \in BitSeqs, NEW a \in Fronts[n + 1][q]
               PROVE  a \in S[n + 1][q]
      OBVIOUS
  <2>1. n < SubtreeHeight /\ n <= SubtreeHeight /\ n + 1 \in 0 .. SubtreeHeight
      BY <1>0
  <2>2. CASE a = <<q>>
      BY <2>1, <2>2
  <2>3. CASE \E u \in Fronts[n][Append(q, 0)], v \in Fronts[n][Append(q, 1)] : a = u \o v
    <3>1. PICK u \in Fronts[n][Append(q, 0)], v \in Fronts[n][Append(q, 1)] : a = u \o v
        BY <2>3
    <3>2. Append(q, 0) \in BitSeqs /\ Append(q, 1) \in BitSeqs
        BY AppendBit
    <3>3. u \in S[n][Append(q, 0)] /\ v \in S[n][Append(q, 1)]
        BY <1>2, <2>1, <3>2
    <3> QED BY <2>1, <3>1, <3>3
  <2> HIDE DEF T
  <2> QED BY <2>1, <2>2, <2>3, FrontParts
<1>3. Nat \subseteq T
  <2> HIDE DEF T
  <2> QED BY <1>1, <1>2, SetInduction
<1> QED
  <2> TAKE n \in 0 .. SubtreeHeight
  <2>1. n \in T /\ n <= SubtreeHeight
      BY <1>0, <1>3
  <2> QED BY <2>1

\* What the halves of a frontier are.
LEMMA FrontHalves ==
    ASSUME NEW n \in Nat, n < SubtreeHeight, NEW q \in BitSeqs,
           NEW u \in Fronts[n][Append(q, 0)], NEW v \in Fronts[n][Append(q, 1)]
    PROVE  /\ Len(q) \in Nat /\ Append(q, 0) \in BitSeqs /\ Append(q, 1) \in BitSeqs
           /\ Len(Append(q, 0)) = Len(q) + 1 /\ Len(Append(q, 1)) = Len(q) + 1
           /\ u \in Seq(BitSeqs) /\ Len(u) \in Nat /\ Len(u) > 0
           /\ v \in Seq(BitSeqs) /\ Len(v) \in Nat /\ Len(v) > 0
           /\ u \o v \in Seq(BitSeqs) /\ Len(u \o v) = Len(u) + Len(v)
           /\ \A i \in 1 .. Len(u) : (u \o v)[i] = u[i]
           /\ \A i \in 1 .. Len(u) + Len(v) : i > Len(u) => (u \o v)[i] = v[i - Len(u)]
           /\ \A i \in 1 .. Len(u) : u[i] \in BitSeqs /\ Len(u[i]) <= Len(q) + (n + 1)
                                         /\ Extends(u[i], Append(q, 0))
           /\ \A i \in 1 .. Len(v) : v[i] \in BitSeqs /\ Len(v[i]) <= Len(q) + (n + 1)
                                         /\ Extends(v[i], Append(q, 1))
<1>1. /\ Len(q) \in Nat /\ Append(q, 0) \in BitSeqs /\ Append(q, 1) \in BitSeqs
      /\ Len(Append(q, 0)) = Len(q) + 1 /\ Len(Append(q, 1)) = Len(q) + 1
    BY AppendBit DEF BitSeqs
<1>2. n <= SubtreeHeight
    BY SparseMerkleTreeAssumption
<1>3. /\ u \in Seq(BitSeqs) /\ Len(u) \in Nat /\ Len(u) > 0
      /\ \A i \in 1 .. Len(u) : u[i] \in BitSeqs /\ Extends(u[i], Append(q, 0))
                                    /\ Len(u[i]) <= Len(Append(q, 0)) + n
    BY <1>1, <1>2, FrontExtends
<1>4. /\ v \in Seq(BitSeqs) /\ Len(v) \in Nat /\ Len(v) > 0
      /\ \A i \in 1 .. Len(v) : v[i] \in BitSeqs /\ Extends(v[i], Append(q, 1))
                                    /\ Len(v[i]) <= Len(Append(q, 1)) + n
    BY <1>1, <1>2, FrontExtends
<1>5. \A i \in 1 .. Len(u) : Len(u[i]) <= Len(q) + (n + 1)
    BY <1>1, <1>3 DEF BitSeqs
<1>6. \A i \in 1 .. Len(v) : Len(v[i]) <= Len(q) + (n + 1)
    BY <1>1, <1>4 DEF BitSeqs
<1>7. /\ u \o v \in Seq(BitSeqs) /\ Len(u \o v) = Len(u) + Len(v)
      /\ \A i \in 1 .. Len(u) : (u \o v)[i] = u[i]
      /\ \A i \in 1 .. Len(u) + Len(v) : i > Len(u) => (u \o v)[i] = v[i - Len(u)]
    BY <1>3, <1>4, ConcatElements
<1> QED BY <1>1, <1>3, <1>4, <1>5, <1>6, <1>7

\* Two elements of a frontier have no common extension.
LEMMA FrontApart ==
    ASSUME NEW n \in 0 .. SubtreeHeight, NEW q \in BitSeqs, NEW a \in Fronts[n][q],
           NEW i \in 1 .. Len(a), NEW j \in 1 .. Len(a), NEW z,
           Extends(z, a[i]), Extends(z, a[j])
    PROVE  i = j
<1> DEFINE Apart(b) == \A k, l \in 1 .. Len(b) : Extends(z, b[k]) /\ Extends(z, b[l]) => k = l
           S == [m \in 0 .. SubtreeHeight |-> [p \in BitSeqs |-> {b \in Seq(BitSeqs) : Apart(b)}]]
<1>0. SubtreeHeight \in Nat
    BY SparseMerkleTreeAssumption
<1>1. ASSUME NEW m \in 0 .. SubtreeHeight, NEW p \in BitSeqs
      PROVE  <<p>> \in S[m][p]
  <2>1. <<p>> \in Seq(BitSeqs) /\ Len(<<p>>) = 1
      OBVIOUS
  <2>2. m \in Nat
      BY <1>0
  <2> QED BY <2>1, <2>2
<1>2. ASSUME NEW m \in Nat, NEW p \in BitSeqs, m < SubtreeHeight,
             NEW u \in Fronts[m][Append(p, 0)], NEW v \in Fronts[m][Append(p, 1)],
             u \in S[m][Append(p, 0)], v \in S[m][Append(p, 1)]
      PROVE  u \o v \in S[m + 1][p]
  <2>0. /\ Apart(u) /\ Apart(v)
        /\ S[m + 1][p] = {b \in Seq(BitSeqs) : Apart(b)}
    <3>1. m \in 0 .. SubtreeHeight /\ m + 1 \in 0 .. SubtreeHeight
        BY <1>0, <1>2
    <3>2. Append(p, 0) \in BitSeqs /\ Append(p, 1) \in BitSeqs
        BY AppendBit
    <3> QED BY <1>2, <3>1, <3>2
  <2>2. ASSUME NEW x \in 1 .. Len(u), NEW y \in 1 .. Len(v), Extends(z, u[x]), Extends(z, v[y])
        PROVE  FALSE
    <3>1. /\ Len(p) \in Nat /\ Len(Append(p, 0)) = Len(p) + 1 /\ Len(Append(p, 1)) = Len(p) + 1
          /\ u[x] \in BitSeqs /\ v[y] \in BitSeqs
          /\ Extends(u[x], Append(p, 0)) /\ Extends(v[y], Append(p, 1))
        BY <1>2, FrontHalves
    <3>2. u[x][Len(p) + 1] = 0 /\ v[y][Len(p) + 1] = 1
              /\ Len(u[x]) >= Len(p) + 1 /\ Len(v[y]) >= Len(p) + 1
      <4>1. Append(p, 0)[Len(p) + 1] = 0 /\ Append(p, 1)[Len(p) + 1] = 1
          BY AppendBit
      <4>2. Len(p) + 1 \in 1 .. Len(p) + 1
          BY <3>1
      <4> QED BY <3>1, <4>1, <4>2 DEF Extends
    <3>3. \A s \in BitSeqs : Len(s) \in Nat
        BY DEF BitSeqs
    <3>4. Len(p) + 1 \in 1 .. Len(u[x]) /\ Len(p) + 1 \in 1 .. Len(v[y])
        BY <3>1, <3>2, <3>3
    <3>5. z[Len(p) + 1] = u[x][Len(p) + 1] /\ z[Len(p) + 1] = v[y][Len(p) + 1]
        BY <2>2, <3>4 DEF Extends
    <3> QED BY <3>2, <3>5
  <2> SUFFICES ASSUME NEW k \in 1 .. Len(u \o v), NEW l \in 1 .. Len(u \o v),
                      Extends(z, (u \o v)[k]), Extends(z, (u \o v)[l])
               PROVE  k = l
    <3>1. u \o v \in Seq(BitSeqs)
        BY <1>2, FrontHalves
    <3> QED BY <2>0, <3>1
  <2>1. /\ Len(u) \in Nat /\ Len(v) \in Nat
        /\ Len(u \o v) = Len(u) + Len(v)
        /\ \A i1 \in 1 .. Len(u) : (u \o v)[i1] = u[i1]
        /\ \A i1 \in 1 .. Len(u) + Len(v) : i1 > Len(u) => (u \o v)[i1] = v[i1 - Len(u)]
      BY <1>2, FrontHalves
  <2>3. CASE k <= Len(u) /\ l <= Len(u)
    <3>1. k \in 1 .. Len(u) /\ l \in 1 .. Len(u)
        BY <2>1, <2>3
    <3> QED BY <2>0, <2>1, <3>1
  <2>4. CASE k > Len(u) /\ l > Len(u)
    <3>1. k - Len(u) \in 1 .. Len(v) /\ l - Len(u) \in 1 .. Len(v)
        BY <2>1, <2>4
    <3>2. (u \o v)[k] = v[k - Len(u)] /\ (u \o v)[l] = v[l - Len(u)]
        BY <2>1, <2>4
    <3>3. k - Len(u) = l - Len(u)
        BY <2>0, <3>1, <3>2
    <3> QED BY <2>1, <3>3
  <2>5. CASE k <= Len(u) /\ l > Len(u)
    <3>1. k \in 1 .. Len(u) /\ l - Len(u) \in 1 .. Len(v)
        BY <2>1, <2>5
    <3>2. (u \o v)[k] = u[k] /\ (u \o v)[l] = v[l - Len(u)]
        BY <2>1, <2>5, <3>1
    <3> QED BY <2>2, <3>1, <3>2
  <2>6. CASE k > Len(u) /\ l <= Len(u)
    <3>1. l \in 1 .. Len(u) /\ k - Len(u) \in 1 .. Len(v)
        BY <2>1, <2>6
    <3>2. (u \o v)[l] = u[l] /\ (u \o v)[k] = v[k - Len(u)]
        BY <2>1, <2>6, <3>1
    <3> QED BY <2>2, <3>1, <3>2
  <2> QED BY <2>1, <2>3, <2>4, <2>5, <2>6
<1>3. a \in S[n][q]
  <2> HIDE DEF S
  <2> QED BY <1>1, <1>2, FrontInduction
<1> QED BY <1>3

\* Every path that is as long as a frontier reaches extends an element of it.
LEMMA FrontCovers ==
    ASSUME NEW n \in 0 .. SubtreeHeight, NEW q \in BitSeqs, NEW a \in Fronts[n][q],
           NEW z \in BitSeqs, Extends(z, q), Len(z) >= Len(q) + n
    PROVE  \E i \in 1 .. Len(a) : Extends(z, a[i])
<1> DEFINE Covers(m, p, b) == Extends(z, p) /\ Len(z) >= Len(p) + m =>
                                  \E i \in 1 .. Len(b) : Extends(z, b[i])
           S == [m \in 0 .. SubtreeHeight |-> [p \in BitSeqs |-> {b \in Seq(BitSeqs) : Covers(m, p, b)}]]
<1>0. SubtreeHeight \in Nat
    BY SparseMerkleTreeAssumption
<1>1. ASSUME NEW m \in 0 .. SubtreeHeight, NEW p \in BitSeqs
      PROVE  <<p>> \in S[m][p]
  <2>1. <<p>> \in Seq(BitSeqs) /\ Len(<<p>>) = 1 /\ <<p>>[1] = p
      OBVIOUS
  <2> QED BY <2>1
<1>2. ASSUME NEW m \in Nat, NEW p \in BitSeqs, m < SubtreeHeight,
             NEW u \in Fronts[m][Append(p, 0)], NEW v \in Fronts[m][Append(p, 1)],
             u \in S[m][Append(p, 0)], v \in S[m][Append(p, 1)]
      PROVE  u \o v \in S[m + 1][p]
  <2>0. /\ Covers(m, Append(p, 0), u) /\ Covers(m, Append(p, 1), v)
        /\ S[m + 1][p] = {b \in Seq(BitSeqs) : Covers(m + 1, p, b)}
    <3>1. m \in 0 .. SubtreeHeight /\ m + 1 \in 0 .. SubtreeHeight
        BY <1>0, <1>2
    <3>2. Append(p, 0) \in BitSeqs /\ Append(p, 1) \in BitSeqs
        BY AppendBit
    <3> QED BY <1>2, <3>1, <3>2
  <2>1. /\ Len(u) \in Nat /\ Len(v) \in Nat /\ u \o v \in Seq(BitSeqs)
        /\ Len(u \o v) = Len(u) + Len(v)
        /\ \A i1 \in 1 .. Len(u) : (u \o v)[i1] = u[i1]
        /\ \A i1 \in 1 .. Len(u) + Len(v) : i1 > Len(u) => (u \o v)[i1] = v[i1 - Len(u)]
      BY <1>2, FrontHalves
  <2> SUFFICES ASSUME Extends(z, p), Len(z) >= Len(p) + (m + 1)
               PROVE  \E i \in 1 .. Len(u \o v) : Extends(z, (u \o v)[i])
      BY <2>0, <2>1
  <2>2. Len(p) \in Nat /\ Len(z) \in Nat
      BY DEF BitSeqs
  <2>3. z[Len(p) + 1] \in {0, 1}
      BY <2>2 DEF BitSeqs
  <2>4. ASSUME NEW b \in {0, 1}, z[Len(p) + 1] = b
        PROVE  Extends(z, Append(p, b)) /\ Len(z) >= Len(Append(p, b)) + m
      BY <2>2, <2>4, AppendBit DEF Extends
  <2>5. CASE z[Len(p) + 1] = 0
    <3>1. PICK i \in 1 .. Len(u) : Extends(z, u[i])
        BY <2>0, <2>4, <2>5
    <3>2. i \in 1 .. Len(u \o v) /\ (u \o v)[i] = u[i]
        BY <2>1
    <3> QED BY <3>1, <3>2
  <2>6. CASE z[Len(p) + 1] = 1
    <3>1. PICK i \in 1 .. Len(v) : Extends(z, v[i])
        BY <2>0, <2>4, <2>6
    <3>2. Len(u) + i \in 1 .. Len(u \o v) /\ Len(u) + i > Len(u) /\ (Len(u) + i) - Len(u) = i
        BY <2>1
    <3>3. (u \o v)[Len(u) + i] = v[i]
        BY <2>1, <3>2
    <3> QED BY <3>1, <3>2, <3>3
  <2> QED BY <2>3, <2>5, <2>6
<1>3. a \in S[n][q]
  <2> HIDE DEF S
  <2> QED BY <1>1, <1>2, FrontInduction
<1> QED BY <1>3

\* A frontier reaches as far down as its elements.
LEMMA FrontShallow ==
    ASSUME NEW n \in 0 .. SubtreeHeight, NEW q \in BitSeqs, NEW a \in Fronts[n][q],
           NEW d \in 0 .. n, \A i \in 1 .. Len(a) : Len(a[i]) <= Len(q) + d
    PROVE  a \in Fronts[d][q]
<1> DEFINE Shallow(p, b) == \A e \in 0 .. SubtreeHeight :
                               (\A i \in 1 .. Len(b) : Len(b[i]) <= Len(p) + e) => b \in Fronts[e][p]
           S == [m \in 0 .. SubtreeHeight |-> [p \in BitSeqs |-> {b \in Seq(BitSeqs) : Shallow(p, b)}]]
<1>0. SubtreeHeight \in Nat
    BY SparseMerkleTreeAssumption
<1>1. ASSUME NEW m \in 0 .. SubtreeHeight, NEW p \in BitSeqs
      PROVE  <<p>> \in S[m][p]
  <2>1. <<p>> \in Seq(BitSeqs)
      OBVIOUS
  <2>2. Shallow(p, <<p>>)
      BY FrontIsSingle
  <2> QED BY <2>1, <2>2
<1>2. ASSUME NEW m \in Nat, NEW p \in BitSeqs, m < SubtreeHeight,
             NEW u \in Fronts[m][Append(p, 0)], NEW v \in Fronts[m][Append(p, 1)],
             u \in S[m][Append(p, 0)], v \in S[m][Append(p, 1)]
      PROVE  u \o v \in S[m + 1][p]
  <2>0. /\ Shallow(Append(p, 0), u) /\ Shallow(Append(p, 1), v)
        /\ S[m + 1][p] = {b \in Seq(BitSeqs) : Shallow(p, b)}
    <3>1. m \in 0 .. SubtreeHeight /\ m + 1 \in 0 .. SubtreeHeight
        BY <1>0, <1>2
    <3>2. Append(p, 0) \in BitSeqs /\ Append(p, 1) \in BitSeqs
        BY AppendBit
    <3> HIDE DEF Shallow
    <3> QED BY <1>2, <3>1, <3>2
  <2>1. /\ Len(u) \in Nat /\ Len(v) \in Nat /\ u \o v \in Seq(BitSeqs) /\ Len(u) > 0
        /\ Len(u \o v) = Len(u) + Len(v)
        /\ \A i1 \in 1 .. Len(u) : (u \o v)[i1] = u[i1]
        /\ \A i1 \in 1 .. Len(u) + Len(v) : i1 > Len(u) => (u \o v)[i1] = v[i1 - Len(u)]
      BY <1>2, FrontHalves
  <2>2. /\ Len(p) \in Nat /\ Append(p, 0) \in BitSeqs /\ Append(p, 1) \in BitSeqs
        /\ Len(Append(p, 0)) = Len(p) + 1 /\ Len(Append(p, 1)) = Len(p) + 1
        /\ \A i \in 1 .. Len(u) : u[i] \in BitSeqs /\ Extends(u[i], Append(p, 0))
      BY <1>2, FrontHalves
  <2> SUFFICES ASSUME NEW e \in 0 .. SubtreeHeight,
                      \A i \in 1 .. Len(u \o v) : Len((u \o v)[i]) <= Len(p) + e
               PROVE  u \o v \in Fronts[e][p]
      BY <2>0, <2>1
  <2>3. \A i \in 1 .. Len(u) : Len(u[i]) <= Len(p) + e
    <3> TAKE i \in 1 .. Len(u)
    <3>1. i \in 1 .. Len(u \o v) /\ (u \o v)[i] = u[i]
        BY <2>1
    <3> QED BY <3>1
  <2>4. \A i \in 1 .. Len(v) : Len(v[i]) <= Len(p) + e
    <3> TAKE i \in 1 .. Len(v)
    <3>1. Len(u) + i \in 1 .. Len(u \o v) /\ Len(u) + i > Len(u) /\ (Len(u) + i) - Len(u) = i
        BY <2>1
    <3>2. (u \o v)[Len(u) + i] = v[i]
        BY <2>1, <3>1
    <3> QED BY <3>1, <3>2
  <2>5. e > 0
    <3>1. 1 \in 1 .. Len(u) /\ Len(u[1]) >= Len(p) + 1 /\ Len(u[1]) \in Nat
        BY <2>1, <2>2 DEF Extends, BitSeqs
    <3> QED BY <2>2, <2>3, <3>1
  <2>6. e - 1 \in Nat /\ e - 1 \in 0 .. SubtreeHeight /\ e - 1 < SubtreeHeight /\ (e - 1) + 1 = e
      BY <1>0, <2>5
  <2>7. Len(p) + e = (Len(p) + 1) + (e - 1)
      BY <2>2, <2>6
  <2>8. u \in Fronts[e - 1][Append(p, 0)]
      BY <2>0, <2>2, <2>3, <2>6, <2>7
  <2>9. v \in Fronts[e - 1][Append(p, 1)]
      BY <2>0, <2>2, <2>4, <2>6, <2>7
  <2> QED BY <2>6, <2>8, <2>9, FrontIsJoined
<1>3. a \in S[n][q]
  <2> HIDE DEF S
  <2> QED BY <1>1, <1>2, FrontInduction
<1>4. Shallow(q, a)
  <2> HIDE DEF Shallow
  <2> QED BY <1>3
<1> QED BY <1>0, <1>4

\* The frontier after its i-th element has been split.
SplitAt(a, i) ==
    [j \in 1 .. Len(a) + 1 |->
        IF j < i THEN a[j]
        ELSE IF j = i THEN Append(a[i], 0)
        ELSE IF j = i + 1 THEN Append(a[i], 1)
        ELSE a[j - 1]]

\* Splitting an element makes a sequence one longer.
LEMMA SplitIsSeq ==
    ASSUME NEW a \in Seq(BitSeqs), NEW i \in 1 .. Len(a)
    PROVE  SplitAt(a, i) \in Seq(BitSeqs) /\ Len(SplitAt(a, i)) = Len(a) + 1
<1> DEFINE s == SplitAt(a, i)
<1>0. Len(a) \in Nat /\ \A j \in 1 .. Len(a) : a[j] \in BitSeqs
    OBVIOUS
<1>1. \A j \in 1 .. Len(a) + 1 : s[j] \in BitSeqs
  <2> TAKE j \in 1 .. Len(a) + 1
  <2>1. Append(a[i], 0) \in BitSeqs /\ Append(a[i], 1) \in BitSeqs
      BY <1>0, AppendBit
  <2>2. j < i => j \in 1 .. Len(a)
      BY <1>0
  <2>3. j > i + 1 => j - 1 \in 1 .. Len(a)
      BY <1>0
  <2> QED BY <1>0, <2>1, <2>2, <2>3 DEF SplitAt
<1>2. s = [j \in 1 .. Len(a) + 1 |-> s[j]]
    BY DEF SplitAt
<1>3. s \in [1 .. Len(a) + 1 -> BitSeqs] /\ Len(a) + 1 \in Nat
  <2> HIDE DEF s
  <2> QED BY <1>0, <1>1, <1>2
<1> HIDE DEF s
<1>4. s \in Seq(BitSeqs) /\ DOMAIN s = 1 .. Len(a) + 1
    BY <1>3, IsASeq
<1>5. Len(s) = Len(a) + 1
    BY <1>0, <1>4, LenProperties
<1> QED BY <1>4, <1>5 DEF s

\* Splitting an element of a sequence cut in two splits it in its part.
LEMMA SplitHalf ==
    ASSUME NEW u \in Seq(BitSeqs), NEW v \in Seq(BitSeqs), NEW i \in 1 .. Len(u) + Len(v)
    PROVE  /\ i <= Len(u) => SplitAt(u \o v, i) = SplitAt(u, i) \o v
           /\ i > Len(u) => SplitAt(u \o v, i) = u \o SplitAt(v, i - Len(u))
<1> DEFINE a == u \o v
<1>1. /\ a \in Seq(BitSeqs) /\ Len(u) \in Nat /\ Len(v) \in Nat /\ Len(a) = Len(u) + Len(v)
      /\ \A j \in 1 .. Len(u) : a[j] = u[j]
      /\ \A j \in 1 .. Len(u) + Len(v) : j > Len(u) => a[j] = v[j - Len(u)]
    BY ConcatElements
<1> HIDE DEF a
<1>0. SplitAt(a, i) \in Seq(BitSeqs) /\ Len(SplitAt(a, i)) = Len(a) + 1
    BY <1>1, SplitIsSeq
<1>2. ASSUME i <= Len(u)
      PROVE  SplitAt(a, i) = SplitAt(u, i) \o v
  <2> DEFINE s == SplitAt(u, i)
  <2>1. s \in Seq(BitSeqs) /\ Len(s) = Len(u) + 1
      BY <1>1, <1>2, SplitIsSeq
  <2>2. \A j \in 1 .. Len(u) + 1 : s[j] =
             (IF j < i THEN u[j] ELSE IF j = i THEN Append(u[i], 0)
              ELSE IF j = i + 1 THEN Append(u[i], 1) ELSE u[j - 1])
      BY DEF SplitAt
  <2> HIDE DEF s
  <2>3. /\ s \o v \in Seq(BitSeqs) /\ Len(s \o v) = Len(s) + Len(v)
        /\ \A j \in 1 .. Len(s) : (s \o v)[j] = s[j]
        /\ \A j \in 1 .. Len(s) + Len(v) : j > Len(s) => (s \o v)[j] = v[j - Len(s)]
      BY <2>1, ConcatElements
  <2>4. ASSUME NEW j \in 1 .. Len(a) + 1
        PROVE  SplitAt(a, i)[j] = (s \o v)[j]
    <3>1. SplitAt(a, i)[j] =
             (IF j < i THEN a[j] ELSE IF j = i THEN Append(a[i], 0)
              ELSE IF j = i + 1 THEN Append(a[i], 1) ELSE a[j - 1])
        BY DEF SplitAt
    <3>2. CASE j <= Len(s)
      <4>1. j \in 1 .. Len(s) /\ (s \o v)[j] = s[j]
          BY <2>1, <2>3, <3>2, <1>1
      <4>2. a[i] = u[i] /\ (j < i => a[j] = u[j])
          BY <1>1, <1>2
      <4>3. j > i + 1 => a[j - 1] = u[j - 1]
        <5>1. j > i + 1 => j - 1 \in 1 .. Len(u)
            BY <1>1, <1>2, <2>1, <3>2
        <5> QED BY <1>1, <5>1
      <4> QED BY <2>1, <2>2, <3>1, <4>1, <4>2, <4>3
    <3>3. CASE j > Len(s)
      <4>1. (s \o v)[j] = v[j - Len(s)]
          BY <1>1, <2>1, <2>3, <3>3
      <4>2. j > i + 1 /\ j - 1 \in 1 .. Len(u) + Len(v) /\ j - 1 > Len(u) /\ (j - 1) - Len(u) = j - Len(s)
          BY <1>1, <1>2, <2>1, <3>3
      <4>3. a[j - 1] = v[j - Len(s)]
          BY <1>1, <4>2
      <4>4. ~(j < i) /\ j # i /\ j # i + 1
          BY <4>2
      <4> QED BY <3>1, <4>1, <4>3, <4>4
    <3> QED BY <2>1, <1>1, <3>2, <3>3
  <2>5. Len(s \o v) = Len(a) + 1
      BY <1>1, <2>1, <2>3
  <2>6. SplitAt(a, i) = s \o v
      BY <1>0, <2>3, <2>4, <2>5, SeqEqual
  <2> QED BY <2>6 DEF s
<1>3. ASSUME i > Len(u)
      PROVE  SplitAt(a, i) = u \o SplitAt(v, i - Len(u))
  <2> DEFINE k == i - Len(u)
             s == SplitAt(v, k)
  <2>0. k \in 1 .. Len(v) /\ i = Len(u) + k
      BY <1>1, <1>3
  <2> HIDE DEF k
  <2>1. s \in Seq(BitSeqs) /\ Len(s) = Len(v) + 1
      BY <1>1, <2>0, SplitIsSeq
  <2>2. \A j \in 1 .. Len(v) + 1 : s[j] =
             (IF j < k THEN v[j] ELSE IF j = k THEN Append(v[k], 0)
              ELSE IF j = k + 1 THEN Append(v[k], 1) ELSE v[j - 1])
      BY DEF SplitAt
  <2> HIDE DEF s
  <2>3. /\ u \o s \in Seq(BitSeqs) /\ Len(u \o s) = Len(u) + Len(s)
        /\ \A j \in 1 .. Len(u) : (u \o s)[j] = u[j]
        /\ \A j \in 1 .. Len(u) + Len(s) : j > Len(u) => (u \o s)[j] = s[j - Len(u)]
      BY <2>1, ConcatElements
  <2>4. ASSUME NEW j \in 1 .. Len(a) + 1
        PROVE  SplitAt(a, i)[j] = (u \o s)[j]
    <3>1. SplitAt(a, i)[j] =
             (IF j < i THEN a[j] ELSE IF j = i THEN Append(a[i], 0)
              ELSE IF j = i + 1 THEN Append(a[i], 1) ELSE a[j - 1])
        BY DEF SplitAt
    <3>2. CASE j <= Len(u)
      <4>1. (u \o s)[j] = u[j] /\ a[j] = u[j] /\ j < i
          BY <1>1, <2>0, <2>3, <3>2
      <4> QED BY <3>1, <4>1
    <3>3. CASE j > Len(u)
      <4>1. j - Len(u) \in 1 .. Len(v) + 1 /\ (u \o s)[j] = s[j - Len(u)]
          BY <1>1, <2>1, <2>3, <3>3
      <4>2. a[i] = v[k]
          BY <1>1, <1>3, <2>0
      <4>3. CASE j < i
        <5>1. a[j] = v[j - Len(u)] /\ j - Len(u) < k
            BY <1>1, <2>0, <3>3, <4>3
        <5> QED BY <2>2, <3>1, <4>1, <4>3, <5>1
      <4>4. CASE j = i
        <5>1. j - Len(u) = k
            BY <1>1, <2>0, <4>4
        <5> QED BY <2>0, <2>2, <3>1, <4>1, <4>2, <4>4, <5>1
      <4>5. CASE j = i + 1
        <5>1. j - Len(u) = k + 1
            BY <1>1, <2>0, <4>5
        <5> QED BY <2>0, <2>2, <3>1, <4>1, <4>2, <4>5, <5>1
      <4>6. CASE j > i + 1
        <5>1. j - Len(u) > k + 1 /\ j - 1 > Len(u) /\ j - 1 \in 1 .. Len(u) + Len(v)
            BY <1>1, <2>0, <4>6
        <5>2. a[j - 1] = v[(j - 1) - Len(u)] /\ (j - 1) - Len(u) = (j - Len(u)) - 1
            BY <1>1, <5>1
        <5>4. ~(j - Len(u) < k) /\ j - Len(u) # k /\ j - Len(u) # k + 1
            BY <1>1, <2>0, <4>1, <5>1
        <5>3. s[j - Len(u)] = v[(j - Len(u)) - 1]
            BY <2>2, <4>1, <5>4
        <5>5. ~(j < i) /\ j # i /\ j # i + 1
            BY <1>1, <4>6
        <5> QED BY <3>1, <4>1, <5>5, <5>2, <5>3
      <4>7. j < i \/ j = i \/ j = i + 1 \/ j > i + 1
          BY <1>1
      <4> QED BY <4>3, <4>4, <4>5, <4>6, <4>7, Zenon
    <3>4. j <= Len(u) \/ j > Len(u)
        BY <1>1
    <3> QED BY <3>2, <3>3, <3>4, Zenon
  <2>5. Len(u \o s) = Len(a) + 1
      BY <1>1, <2>1, <2>3
  <2>6. SplitAt(a, i) = u \o s
      BY <1>0, <2>3, <2>4, <2>5, SeqEqual
  <2> QED BY <2>6 DEF s, k
<1> QED BY <1>2, <1>3 DEF a

\* A pair is made of two single sequences.
LEMMA PairIsConcat ==
    ASSUME NEW T, NEW x \in T, NEW y \in T
    PROVE  <<x>> \o <<y>> = <<x, y>>
<1>1. <<x>> \in Seq(T) /\ <<y>> \in Seq(T) /\ Len(<<x>>) = 1 /\ Len(<<y>>) = 1
          /\ <<x>>[1] = x /\ <<y>>[1] = y
    OBVIOUS
<1> DEFINE s == <<x>> \o <<y>>
<1>2. s \in Seq(T) /\ Len(s) = 2 /\ s[1] = x /\ s[2] = y
  <2>1. 1 \in 1 .. 1 /\ 2 \in 1 .. 1 + 1 /\ 2 > 1 /\ 2 - 1 = 1 /\ 1 + 1 = 2
      OBVIOUS
  <2> QED BY <1>1, <2>1, ConcatElements
<1> HIDE DEF s
<1>3. s = <<x, y>>
    BY <1>2
<1> QED BY <1>1, <1>3 DEF s

\* Splitting an element that is not as far down as it may be leaves a frontier.
LEMMA FrontSplits ==
    ASSUME NEW n \in 0 .. SubtreeHeight, NEW q \in BitSeqs, NEW a \in Fronts[n][q],
           NEW i \in 1 .. Len(a), Len(a[i]) < Len(q) + n
    PROVE  SplitAt(a, i) \in Fronts[n][q]
<1> DEFINE Splits(m, p, b) == \A k \in 1 .. Len(b) : Len(b[k]) < Len(p) + m
                                                        => SplitAt(b, k) \in Fronts[m][p]
           S == [m \in 0 .. SubtreeHeight |-> [p \in BitSeqs |-> {b \in Seq(BitSeqs) : Splits(m, p, b)}]]
<1>0. SubtreeHeight \in Nat
    BY SparseMerkleTreeAssumption
<1>1. ASSUME NEW m \in 0 .. SubtreeHeight, NEW p \in BitSeqs
      PROVE  <<p>> \in S[m][p]
  <2>1. <<p>> \in Seq(BitSeqs) /\ Len(<<p>>) = 1 /\ <<p>>[1] = p /\ Len(p) \in Nat
      BY DEF BitSeqs
  <2>2. ASSUME NEW k \in 1 .. Len(<<p>>), Len(<<p>>[k]) < Len(p) + m
        PROVE  SplitAt(<<p>>, k) \in Fronts[m][p]
    <3>1. k = 1 /\ m - 1 \in Nat /\ m - 1 < SubtreeHeight /\ m - 1 \in 0 .. SubtreeHeight
              /\ (m - 1) + 1 = m
        BY <1>0, <2>1, <2>2
    <3>2. Append(p, 0) \in BitSeqs /\ Append(p, 1) \in BitSeqs
        BY AppendBit
    <3>3. /\ <<Append(p, 0)>> \in Fronts[m - 1][Append(p, 0)]
          /\ <<Append(p, 1)>> \in Fronts[m - 1][Append(p, 1)]
        BY <3>1, <3>2, FrontIsSingle
    <3>4. <<Append(p, 0)>> \o <<Append(p, 1)>> \in Fronts[m][p]
        BY <3>1, <3>3, FrontIsJoined
    <3>5. SplitAt(<<p>>, 1) = <<Append(p, 0), Append(p, 1)>>
      <4>1. SplitAt(<<p>>, 1) \in Seq(BitSeqs) /\ Len(SplitAt(<<p>>, 1)) = 2
        <5> DEFINE w == <<p>>
        <5>1. w \in Seq(BitSeqs) /\ Len(w) = 1 /\ 1 \in 1 .. Len(w)
            BY <2>1
        <5> HIDE DEF w
        <5>2. SplitAt(w, 1) \in Seq(BitSeqs) /\ Len(SplitAt(w, 1)) = Len(w) + 1
            BY <5>1, SplitIsSeq
        <5>3. SplitAt(w, 1) \in Seq(BitSeqs) /\ Len(SplitAt(w, 1)) = 2
            BY <5>1, <5>2
        <5> QED BY <5>3 DEF w
      <4>2. SplitAt(<<p>>, 1)[1] = Append(p, 0) /\ SplitAt(<<p>>, 1)[2] = Append(p, 1)
          BY <2>1 DEF SplitAt
      <4> QED BY <4>1, <4>2, SMTT(30)
    <3>6. <<Append(p, 0)>> \o <<Append(p, 1)>> = <<Append(p, 0), Append(p, 1)>>
        BY <3>2, PairIsConcat
    <3> QED BY <3>1, <3>4, <3>5, <3>6
  <2> QED BY <2>1, <2>2
<1>2. ASSUME NEW m \in Nat, NEW p \in BitSeqs, m < SubtreeHeight,
             NEW u \in Fronts[m][Append(p, 0)], NEW v \in Fronts[m][Append(p, 1)],
             u \in S[m][Append(p, 0)], v \in S[m][Append(p, 1)]
      PROVE  u \o v \in S[m + 1][p]
  <2>0. /\ Splits(m, Append(p, 0), u) /\ Splits(m, Append(p, 1), v)
        /\ S[m + 1][p] = {b \in Seq(BitSeqs) : Splits(m + 1, p, b)}
    <3>1. m \in 0 .. SubtreeHeight /\ m + 1 \in 0 .. SubtreeHeight
        BY <1>0, <1>2
    <3>2. Append(p, 0) \in BitSeqs /\ Append(p, 1) \in BitSeqs
        BY AppendBit
    <3> HIDE DEF Splits
    <3> QED BY <1>2, <3>1, <3>2
  <2>1. /\ Len(u) \in Nat /\ Len(v) \in Nat /\ u \o v \in Seq(BitSeqs)
        /\ u \in Seq(BitSeqs) /\ v \in Seq(BitSeqs)
        /\ Len(u \o v) = Len(u) + Len(v)
        /\ \A i1 \in 1 .. Len(u) : (u \o v)[i1] = u[i1]
        /\ \A i1 \in 1 .. Len(u) + Len(v) : i1 > Len(u) => (u \o v)[i1] = v[i1 - Len(u)]
        /\ Len(p) \in Nat /\ Len(Append(p, 0)) = Len(p) + 1 /\ Len(Append(p, 1)) = Len(p) + 1
      BY <1>2, FrontHalves
  <2> SUFFICES ASSUME NEW k \in 1 .. Len(u \o v), Len((u \o v)[k]) < Len(p) + (m + 1)
               PROVE  SplitAt(u \o v, k) \in Fronts[m + 1][p]
      BY <2>0, <2>1
  <2>2. k \in 1 .. Len(u) + Len(v) /\ Len(p) + (m + 1) = (Len(p) + 1) + m
      BY <2>1
  <2>3. CASE k <= Len(u)
    <3>1. k \in 1 .. Len(u) /\ (u \o v)[k] = u[k]
        BY <2>1, <2>2, <2>3
    <3>2. SplitAt(u, k) \in Fronts[m][Append(p, 0)]
        BY <2>0, <2>1, <2>2, <3>1
    <3>3. SplitAt(u \o v, k) = SplitAt(u, k) \o v
        BY <2>1, <2>2, <2>3, SplitHalf
    <3> QED BY <1>2, <3>2, <3>3, FrontIsJoined
  <2>4. CASE k > Len(u)
    <3>1. k - Len(u) \in 1 .. Len(v) /\ (u \o v)[k] = v[k - Len(u)]
        BY <2>1, <2>2, <2>4
    <3>2. SplitAt(v, k - Len(u)) \in Fronts[m][Append(p, 1)]
        BY <2>0, <2>1, <2>2, <3>1
    <3>3. SplitAt(u \o v, k) = u \o SplitAt(v, k - Len(u))
        BY <2>1, <2>2, <2>4, SplitHalf
    <3> QED BY <1>2, <3>2, <3>3, FrontIsJoined
  <2>5. k <= Len(u) \/ k > Len(u)
      BY <2>1
  <2> QED BY <2>3, <2>4, <2>5, Zenon
<1>3. a \in S[n][q]
  <2> HIDE DEF S
  <2> QED BY <1>1, <1>2, FrontInduction
<1> QED BY <1>3

----------------------------------------------------------------------------
(* The stored form of a subtree.                                           *)

\* The frontier of the subtree of some contents: a path with at most one key
\* below it ends a branch.
NormalFront(c) ==
    LET front[n \in 0 .. SubtreeHeight] ==
            [q \in BitSeqs |->
                IF n = 0 \/ ~Many(c, q) THEN <<q>>
                ELSE front[n - 1][Append(q, 0)] \o front[n - 1][Append(q, 1)]]
    IN  front

\* NormalFront is what its recursion says, and a frontier.
LEMMA NormalFrontIs ==
    ASSUME NEW c
    PROVE  \A n \in 0 .. SubtreeHeight : \A q \in BitSeqs :
               /\ NormalFront(c)[n][q] =
                     IF n = 0 \/ ~Many(c, q) THEN <<q>>
                     ELSE NormalFront(c)[n - 1][Append(q, 0)] \o NormalFront(c)[n - 1][Append(q, 1)]
               /\ NormalFront(c)[n][q] \in Fronts[n][q]
<1> DEFINE A == [BitSeqs -> Seq(BitSeqs)]
           base == [q \in BitSeqs |-> <<q>>]
           step == [x \in Nat \X A |-> [q \in BitSeqs |->
                       IF ~Many(c, q) THEN <<q>> ELSE x[2][Append(q, 0)] \o x[2][Append(q, 1)]]]
           N == NormalFront(c)
<1>0. SubtreeHeight \in Nat
    BY SparseMerkleTreeAssumption
<1>1. base \in A
    OBVIOUS
<1>2. step \in [Nat \X A -> A]
  <2>1. ASSUME NEW x \in Nat \X A, NEW q \in BitSeqs
        PROVE  x[2][Append(q, 0)] \o x[2][Append(q, 1)] \in Seq(BitSeqs)
    <3>1. Append(q, 0) \in BitSeqs /\ Append(q, 1) \in BitSeqs
        BY AppendBit
    <3>2. x[2][Append(q, 0)] \in Seq(BitSeqs) /\ x[2][Append(q, 1)] \in Seq(BitSeqs)
        BY <3>1
    <3> QED BY <3>2, ConcatProperties
  <2> QED BY <2>1
<1> HIDE DEF A, base, step
<1>3. PICK f : Recurs(f, A, base, step, SubtreeHeight)
    BY <1>0, <1>1, <1>2, Recursion
<1>4. \A n \in 0 .. SubtreeHeight : f[n] =
          [q \in BitSeqs |->
              IF n = 0 \/ ~Many(c, q) THEN <<q>>
              ELSE f[n - 1][Append(q, 0)] \o f[n - 1][Append(q, 1)]]
  <2> TAKE n \in 0 .. SubtreeHeight
  <2>1. CASE n = 0
      BY <1>3, <2>1 DEF Recurs, base
  <2>2. CASE n # 0
    <3>1. n - 1 \in 0 .. SubtreeHeight /\ n \in 1 .. SubtreeHeight
        BY <1>0, <2>2
    <3>2. f[n] = step[<<n, f[n - 1]>>] /\ f[n - 1] \in A
        BY <1>3, <3>1 DEF Recurs
    <3>3. <<n, f[n - 1]>> \in Nat \X A
        BY <3>2
    <3>4. f[n] = [q \in BitSeqs |->
             IF ~Many(c, q) THEN <<q>> ELSE f[n - 1][Append(q, 0)] \o f[n - 1][Append(q, 1)]]
        BY <3>2, <3>3 DEF step
    <3> QED BY <2>2, <3>4
  <2> QED BY <2>1, <2>2
<1>5. f = [n \in 0 .. SubtreeHeight |->
              [q \in BitSeqs |->
                  IF n = 0 \/ ~Many(c, q) THEN <<q>>
                  ELSE f[n - 1][Append(q, 0)] \o f[n - 1][Append(q, 1)]]]
  <2>1. f = [n \in 0 .. SubtreeHeight |-> f[n]]
      BY <1>3 DEF Recurs
  <2> QED BY <1>4, <2>1
<1>6. N = [n \in 0 .. SubtreeHeight |->
              [q \in BitSeqs |->
                  IF n = 0 \/ ~Many(c, q) THEN <<q>>
                  ELSE N[n - 1][Append(q, 0)] \o N[n - 1][Append(q, 1)]]]
    BY <1>5 DEF NormalFront
<1> HIDE DEF N
<1>7. \A n \in 0 .. SubtreeHeight : N[n] =
              [q \in BitSeqs |->
                  IF n = 0 \/ ~Many(c, q) THEN <<q>>
                  ELSE N[n - 1][Append(q, 0)] \o N[n - 1][Append(q, 1)]]
    BY <1>6
<1>8. \A n \in 0 .. SubtreeHeight : \A q \in BitSeqs : N[n][q] =
                  IF n = 0 \/ ~Many(c, q) THEN <<q>>
                  ELSE N[n - 1][Append(q, 0)] \o N[n - 1][Append(q, 1)]
    BY <1>7
<1>9. \A n \in 0 .. SubtreeHeight : \A q \in BitSeqs : N[n][q] \in Fronts[n][q]
  <2> DEFINE S == {n \in Nat : n <= SubtreeHeight => \A q \in BitSeqs : N[n][q] \in Fronts[n][q]}
  <2>1. 0 \in S
    <3>1. 0 \in 0 .. SubtreeHeight
        BY <1>0
    <3>2. \A q \in BitSeqs : N[0][q] = <<q>>
        BY <1>8, <3>1
    <3> QED BY <3>1, <3>2, FrontIsSingle
  <2>2. ASSUME NEW n \in Nat, n \in S
        PROVE  n + 1 \in S
    <3> SUFFICES ASSUME n + 1 <= SubtreeHeight, NEW q \in BitSeqs
                 PROVE  N[n + 1][q] \in Fronts[n + 1][q]
        OBVIOUS
    <3>1. n < SubtreeHeight /\ n <= SubtreeHeight /\ n + 1 \in 0 .. SubtreeHeight
              /\ n + 1 # 0 /\ (n + 1) - 1 = n
        BY <1>0
    <3>2. CASE ~Many(c, q)
        BY <1>8, <3>1, <3>2, FrontIsSingle
    <3>3. CASE Many(c, q)
      <4>1. Append(q, 0) \in BitSeqs /\ Append(q, 1) \in BitSeqs
          BY AppendBit
      <4>2. N[n][Append(q, 0)] \in Fronts[n][Append(q, 0)] /\ N[n][Append(q, 1)] \in Fronts[n][Append(q, 1)]
          BY <2>2, <3>1, <4>1
      <4>3. N[n + 1][q] = N[n][Append(q, 0)] \o N[n][Append(q, 1)]
          BY <1>8, <3>1, <3>3
      <4> QED BY <3>1, <4>2, <4>3, FrontIsJoined
    <3> QED BY <3>2, <3>3
  <2>3. Nat \subseteq S
    <3> HIDE DEF S
    <3> QED BY <2>1, <2>2, SetInduction
  <2> TAKE n \in 0 .. SubtreeHeight
  <2>4. n \in S /\ n <= SubtreeHeight
      BY <1>0, <2>3
  <2> QED BY <2>4
<1> QED BY <1>8, <1>9 DEF N

\* A normal frontier ends where no keys part,
LEMMA NormalEnds ==
    ASSUME NEW c, NEW n \in 0 .. SubtreeHeight, NEW q \in BitSeqs, n = 0 \/ ~Many(c, q)
    PROVE  NormalFront(c)[n][q] = <<q>>
BY NormalFrontIs

\* goes on where they do,
LEMMA NormalParts ==
    ASSUME NEW c, NEW n \in 0 .. SubtreeHeight, NEW q \in BitSeqs, n > 0, Many(c, q)
    PROVE  NormalFront(c)[n][q] =
               NormalFront(c)[n - 1][Append(q, 0)] \o NormalFront(c)[n - 1][Append(q, 1)]
<1>1. n # 0
    BY SparseMerkleTreeAssumption
<1> QED BY <1>1, NormalFrontIs

\* and is one of the frontiers.
LEMMA NormalIsFront ==
    ASSUME NEW c, NEW n \in 0 .. SubtreeHeight, NEW q \in BitSeqs
    PROVE  NormalFront(c)[n][q] \in Fronts[n][q]
BY NormalFrontIs

\* What Taken takes, one item after the other.
LEMMA TakenExists ==
    ASSUME NEW T, NEW s \in Seq(T), NEW acc, NEW h
    PROVE  \E f : /\ f[0] = acc
                  /\ \A i \in 1 .. Len(s) : f[i] = Take(f[i - 1], s[i], h)
                  /\ Taken(acc, s, h) = f[Len(s)]
<1> DEFINE Is(f, n) == f = [i \in 0 .. n |-> IF i = 0 THEN acc ELSE Take(f[i - 1], s[i], h)]
           S == {n \in Nat : \E f : Is(f, n)}
<1>0. Len(s) \in Nat
    OBVIOUS
<1>1. 0 \in S
  <2> DEFINE f == [i \in 0 .. 0 |-> acc]
  <2>1. Is(f, 0)
      OBVIOUS
  <2> QED BY <2>1
<1>2. ASSUME NEW n \in Nat, n \in S
      PROVE  n + 1 \in S
  <2>1. PICK f : Is(f, n)
      BY <1>2
  <2> DEFINE g == [i \in 0 .. n + 1 |-> IF i = 0 THEN acc ELSE Take(f[i - 1], s[i], h)]
  <2>2. \A i \in 0 .. n : g[i] = f[i]
    <3> TAKE i \in 0 .. n
    <3>1. f[i] = IF i = 0 THEN acc ELSE Take(f[i - 1], s[i], h)
        BY <2>1
    <3> QED BY <3>1
  <2>3. \A i \in 0 .. n + 1 : g[i] = IF i = 0 THEN acc ELSE Take(g[i - 1], s[i], h)
    <3> TAKE i \in 0 .. n + 1
    <3>1. i # 0 => i - 1 \in 0 .. n
        OBVIOUS
    <3>2. i # 0 => g[i - 1] = f[i - 1]
        BY <2>2, <3>1
    <3> QED BY <3>2
  <2>4. Is(g, n + 1)
    <3>1. g = [i \in 0 .. n + 1 |-> g[i]]
        OBVIOUS
    <3> HIDE DEF g
    <3> QED BY <2>3, <3>1
  <2> HIDE DEF g, Is
  <2> QED BY <2>4
<1>3. Len(s) \in S
  <2> HIDE DEF S
  <2> QED BY <1>0, <1>1, <1>2, SetInduction
<1> DEFINE F == CHOOSE f : Is(f, Len(s))
<1>4. Taken(acc, s, h) = F[Len(s)]
    BY DEF Taken
<1>5. Is(F, Len(s))
    BY <1>3
<1> HIDE DEF F
<1>6. F[0] = acc /\ \A i \in 1 .. Len(s) : F[i] = Take(F[i - 1], s[i], h)
    BY <1>0, <1>5
<1> HIDE DEF Is
<1> QED BY <1>4, <1>6

\* Of a single item it takes that,
LEMMA TakenSingle ==
    ASSUME NEW T, NEW x \in T, NEW acc, NEW h
    PROVE  Taken(acc, <<x>>, h) = Take(acc, x, h)
<1> DEFINE s == <<x>>
<1>1. s \in Seq(T) /\ Len(s) = 1 /\ s[1] = x
    OBVIOUS
<1> HIDE DEF s
<1>2. PICK f : /\ f[0] = acc
               /\ \A i \in 1 .. Len(s) : f[i] = Take(f[i - 1], s[i], h)
               /\ Taken(acc, s, h) = f[Len(s)]
    BY <1>1, TakenExists
<1>3. 1 \in 1 .. Len(s) /\ 1 - 1 = 0
    BY <1>1
<1>4. f[1] = Take(f[0], s[1], h)
    BY <1>2, <1>3
<1> QED BY <1>1, <1>2, <1>4 DEF s

\* and of two parts the first, then the second.
LEMMA TakenConcat ==
    ASSUME NEW T, NEW u \in Seq(T), NEW v \in Seq(T), NEW acc, NEW h
    PROVE  Taken(acc, u \o v, h) = Taken(Taken(acc, u, h), v, h)
<1> DEFINE s == u \o v
           mid == Taken(acc, u, h)
<1>1. /\ s \in Seq(T) /\ Len(u) \in Nat /\ Len(v) \in Nat /\ Len(s) = Len(u) + Len(v)
      /\ \A i \in 1 .. Len(u) : s[i] = u[i]
      /\ \A i \in 1 .. Len(u) + Len(v) : i > Len(u) => s[i] = v[i - Len(u)]
    BY ConcatElements
<1>0. s \in Seq(T)
    BY <1>1
<1> HIDE DEF s, mid
<1>2. PICK f : /\ f[0] = acc
               /\ \A i \in 1 .. Len(s) : f[i] = Take(f[i - 1], s[i], h)
               /\ Taken(acc, s, h) = f[Len(s)]
    BY <1>0, TakenExists
<1> USE DEF mid
<1>3. PICK g : /\ g[0] = acc
               /\ \A i \in 1 .. Len(u) : g[i] = Take(g[i - 1], u[i], h)
               /\ mid = g[Len(u)]
    BY TakenExists
<1> HIDE DEF mid
<1>4. PICK k : /\ k[0] = mid
               /\ \A i \in 1 .. Len(v) : k[i] = Take(k[i - 1], v[i], h)
               /\ Taken(mid, v, h) = k[Len(v)]
    BY TakenExists
<1>5. f[Len(u)] = g[Len(u)]
  <2> DEFINE S == {n \in Nat : n <= Len(u) => f[n] = g[n]}
  <2>1. 0 \in S
      BY <1>2, <1>3
  <2>2. ASSUME NEW n \in Nat, n \in S
        PROVE  n + 1 \in S
    <3> SUFFICES ASSUME n + 1 <= Len(u)
                 PROVE  f[n + 1] = g[n + 1]
        OBVIOUS
    <3>1. n + 1 \in 1 .. Len(u) /\ n + 1 \in 1 .. Len(s) /\ (n + 1) - 1 = n /\ n <= Len(u)
        BY <1>1
    <3>2. f[n + 1] = Take(f[n], s[n + 1], h) /\ g[n + 1] = Take(g[n], u[n + 1], h)
        BY <1>2, <1>3, <3>1
    <3>3. f[n] = g[n] /\ s[n + 1] = u[n + 1]
        BY <1>1, <2>2, <3>1
    <3> QED BY <3>2, <3>3
  <2>3. Len(u) \in S
    <3> HIDE DEF S
    <3> QED BY <1>1, <2>1, <2>2, SetInduction
  <2> QED BY <1>1, <2>3
<1>6. f[Len(u) + Len(v)] = k[Len(v)]
  <2> DEFINE S == {n \in Nat : n <= Len(v) => f[Len(u) + n] = k[n]}
  <2>1. 0 \in S
    <3>1. Len(u) + 0 = Len(u)
        BY <1>1
    <3> QED BY <1>3, <1>4, <1>5, <3>1
  <2>2. ASSUME NEW n \in Nat, n \in S
        PROVE  n + 1 \in S
    <3> SUFFICES ASSUME n + 1 <= Len(v)
                 PROVE  f[Len(u) + (n + 1)] = k[n + 1]
        OBVIOUS
    <3> DEFINE m == Len(u) + (n + 1)
    <3>1. /\ n + 1 \in 1 .. Len(v) /\ (n + 1) - 1 = n /\ n <= Len(v)
          /\ m \in 1 .. Len(s) /\ m \in 1 .. Len(u) + Len(v) /\ m - 1 = Len(u) + n
          /\ m > Len(u) /\ m - Len(u) = n + 1
        BY <1>1
    <3> HIDE DEF m
    <3>2. f[m] = Take(f[Len(u) + n], s[m], h) /\ k[n + 1] = Take(k[n], v[n + 1], h)
        BY <1>2, <1>4, <3>1
    <3>3. f[Len(u) + n] = k[n] /\ s[m] = v[n + 1]
        BY <1>1, <2>2, <3>1
    <3>4. f[m] = k[n + 1]
        BY <3>2, <3>3
    <3> QED BY <3>4 DEF m
  <2>3. Len(v) \in S
    <3> HIDE DEF S
    <3> QED BY <1>1, <2>1, <2>2, SetInduction
  <2> QED BY <1>1, <2>3
<1> QED BY <1>1, <1>2, <1>4, <1>6 DEF s, mid

\* What Pushed pushes, one group after the other.
LEMMA PushedExists ==
    ASSUME NEW T, NEW s \in Seq(T), NEW acc
    PROVE  \E f : /\ f[0] = acc
                  /\ \A i \in 1 .. Len(s) : f[i] = Push(f[i - 1], s[i])
                  /\ Pushed(acc, s) = f[Len(s)]
<1> DEFINE Is(f, n) == f = [i \in 0 .. n |-> IF i = 0 THEN acc ELSE Push(f[i - 1], s[i])]
           S == {n \in Nat : \E f : Is(f, n)}
<1>0. Len(s) \in Nat
    OBVIOUS
<1>1. 0 \in S
  <2> DEFINE f == [i \in 0 .. 0 |-> acc]
  <2>1. Is(f, 0)
      OBVIOUS
  <2> QED BY <2>1
<1>2. ASSUME NEW n \in Nat, n \in S
      PROVE  n + 1 \in S
  <2>1. PICK f : Is(f, n)
      BY <1>2
  <2> DEFINE g == [i \in 0 .. n + 1 |-> IF i = 0 THEN acc ELSE Push(f[i - 1], s[i])]
  <2>2. \A i \in 0 .. n : g[i] = f[i]
    <3> TAKE i \in 0 .. n
    <3>1. f[i] = IF i = 0 THEN acc ELSE Push(f[i - 1], s[i])
        BY <2>1
    <3> QED BY <3>1
  <2>3. \A i \in 0 .. n + 1 : g[i] = IF i = 0 THEN acc ELSE Push(g[i - 1], s[i])
    <3> TAKE i \in 0 .. n + 1
    <3>1. i # 0 => i - 1 \in 0 .. n
        OBVIOUS
    <3>2. i # 0 => g[i - 1] = f[i - 1]
        BY <2>2, <3>1
    <3> QED BY <3>2
  <2>4. Is(g, n + 1)
    <3>1. g = [i \in 0 .. n + 1 |-> g[i]]
        OBVIOUS
    <3> HIDE DEF g
    <3> QED BY <2>3, <3>1
  <2> HIDE DEF g, Is
  <2> QED BY <2>4
<1>3. Len(s) \in S
  <2> HIDE DEF S
  <2> QED BY <1>0, <1>1, <1>2, SetInduction
<1> DEFINE F == CHOOSE f : Is(f, Len(s))
<1>4. Pushed(acc, s) = F[Len(s)]
    BY DEF Pushed
<1>5. Is(F, Len(s))
    BY <1>3
<1> HIDE DEF F
<1>6. F[0] = acc /\ \A i \in 1 .. Len(s) : F[i] = Push(F[i - 1], s[i])
    BY <1>0, <1>5
<1> HIDE DEF Is
<1> QED BY <1>4, <1>6

\* Of a single group it pushes that,
LEMMA PushedSingle ==
    ASSUME NEW T, NEW x \in T, NEW acc
    PROVE  Pushed(acc, <<x>>) = Push(acc, x)
<1> DEFINE s == <<x>>
<1>1. s \in Seq(T) /\ Len(s) = 1 /\ s[1] = x
    OBVIOUS
<1> HIDE DEF s
<1>2. PICK f : /\ f[0] = acc
               /\ \A i \in 1 .. Len(s) : f[i] = Push(f[i - 1], s[i])
               /\ Pushed(acc, s) = f[Len(s)]
    BY <1>1, PushedExists
<1>3. 1 \in 1 .. Len(s) /\ 1 - 1 = 0
    BY <1>1
<1>4. f[1] = Push(f[0], s[1])
    BY <1>2, <1>3
<1> QED BY <1>1, <1>2, <1>4 DEF s

\* and of two parts the first, then the second.
LEMMA PushedConcat ==
    ASSUME NEW T, NEW u \in Seq(T), NEW v \in Seq(T), NEW acc
    PROVE  Pushed(acc, u \o v) = Pushed(Pushed(acc, u), v)
<1> DEFINE s == u \o v
           mid == Pushed(acc, u)
<1>1. /\ s \in Seq(T) /\ Len(u) \in Nat /\ Len(v) \in Nat /\ Len(s) = Len(u) + Len(v)
      /\ \A i \in 1 .. Len(u) : s[i] = u[i]
      /\ \A i \in 1 .. Len(u) + Len(v) : i > Len(u) => s[i] = v[i - Len(u)]
    BY ConcatElements
<1>0. s \in Seq(T)
    BY <1>1
<1> HIDE DEF s, mid
<1>2. PICK f : /\ f[0] = acc
               /\ \A i \in 1 .. Len(s) : f[i] = Push(f[i - 1], s[i])
               /\ Pushed(acc, s) = f[Len(s)]
    BY <1>0, PushedExists
<1> USE DEF mid
<1>3. PICK g : /\ g[0] = acc
               /\ \A i \in 1 .. Len(u) : g[i] = Push(g[i - 1], u[i])
               /\ mid = g[Len(u)]
    BY PushedExists
<1> HIDE DEF mid
<1>4. PICK k : /\ k[0] = mid
               /\ \A i \in 1 .. Len(v) : k[i] = Push(k[i - 1], v[i])
               /\ Pushed(mid, v) = k[Len(v)]
    BY PushedExists
<1>5. f[Len(u)] = g[Len(u)]
  <2> DEFINE S == {n \in Nat : n <= Len(u) => f[n] = g[n]}
  <2>1. 0 \in S
      BY <1>2, <1>3
  <2>2. ASSUME NEW n \in Nat, n \in S
        PROVE  n + 1 \in S
    <3> SUFFICES ASSUME n + 1 <= Len(u)
                 PROVE  f[n + 1] = g[n + 1]
        OBVIOUS
    <3>1. n + 1 \in 1 .. Len(u) /\ n + 1 \in 1 .. Len(s) /\ (n + 1) - 1 = n /\ n <= Len(u)
        BY <1>1
    <3>2. f[n + 1] = Push(f[n], s[n + 1]) /\ g[n + 1] = Push(g[n], u[n + 1])
        BY <1>2, <1>3, <3>1
    <3>3. f[n] = g[n] /\ s[n + 1] = u[n + 1]
        BY <1>1, <2>2, <3>1
    <3> QED BY <3>2, <3>3
  <2>3. Len(u) \in S
    <3> HIDE DEF S
    <3> QED BY <1>1, <2>1, <2>2, SetInduction
  <2> QED BY <1>1, <2>3
<1>6. f[Len(u) + Len(v)] = k[Len(v)]
  <2> DEFINE S == {n \in Nat : n <= Len(v) => f[Len(u) + n] = k[n]}
  <2>1. 0 \in S
    <3>1. Len(u) + 0 = Len(u)
        BY <1>1
    <3> QED BY <1>3, <1>4, <1>5, <3>1
  <2>2. ASSUME NEW n \in Nat, n \in S
        PROVE  n + 1 \in S
    <3> SUFFICES ASSUME n + 1 <= Len(v)
                 PROVE  f[Len(u) + (n + 1)] = k[n + 1]
        OBVIOUS
    <3> DEFINE m == Len(u) + (n + 1)
    <3>1. /\ n + 1 \in 1 .. Len(v) /\ (n + 1) - 1 = n /\ n <= Len(v)
          /\ m \in 1 .. Len(s) /\ m \in 1 .. Len(u) + Len(v) /\ m - 1 = Len(u) + n
          /\ m > Len(u) /\ m - Len(u) = n + 1
        BY <1>1
    <3> HIDE DEF m
    <3>2. f[m] = Push(f[Len(u) + n], s[m]) /\ k[n + 1] = Push(k[n], v[n + 1])
        BY <1>2, <1>4, <3>1
    <3>3. f[Len(u) + n] = k[n] /\ s[m] = v[n + 1]
        BY <1>1, <2>2, <3>1
    <3>4. f[m] = k[n + 1]
        BY <3>2, <3>3
    <3> QED BY <3>4 DEF m
  <2>3. Len(v) \in S
    <3> HIDE DEF S
    <3> QED BY <1>1, <2>1, <2>2, SetInduction
  <2> QED BY <1>1, <2>3
<1> QED BY <1>1, <1>2, <1>4, <1>6 DEF s, mid

\* The elements of a sequence replaced by what a function makes of them.
RowOf(f, s) == [i \in DOMAIN s |-> f[s[i]]]

\* A row has an entry for each place,
LEMMA RowElements ==
    ASSUME NEW S, NEW T, NEW f, NEW s \in Seq(S), \A x \in S : f[x] \in T
    PROVE  /\ RowOf(f, s) \in Seq(T)
           /\ Len(RowOf(f, s)) = Len(s)
<1> DEFINE r == RowOf(f, s)
<1>1. Len(s) \in Nat /\ DOMAIN s = 1 .. Len(s) /\ \A i \in 1 .. Len(s) : s[i] \in S
    OBVIOUS
<1>2. r \in [1 .. Len(s) -> T]
    BY <1>1 DEF RowOf
<1> HIDE DEF r
<1>3. r \in Seq(T) /\ DOMAIN r = 1 .. Len(s)
    BY <1>1, <1>2, IsASeq
<1>4. Len(r) = Len(s)
    BY <1>1, <1>3, LenProperties
<1> QED BY <1>3, <1>4 DEF r

\* is a sequence of entries,
LEMMA RowType ==
    ASSUME NEW S, NEW T, NEW f, NEW s \in Seq(S), \A x \in S : f[x] \in T
    PROVE  RowOf(f, s) \in Seq(T)
BY RowElements

\* as long as the sequence of places,
LEMMA RowLength ==
    ASSUME NEW S, NEW s \in Seq(S), NEW f
    PROVE  Len(RowOf(f, s)) = Len(s)
<1> DEFINE T == {f[x] : x \in S}
           r == RowOf(f, s)
<1>1. Len(s) \in Nat /\ DOMAIN s = 1 .. Len(s) /\ \A i \in 1 .. Len(s) : s[i] \in S
    OBVIOUS
<1>2. r \in [1 .. Len(s) -> T]
    BY <1>1 DEF RowOf
<1> HIDE DEF r
<1>3. r \in Seq(T) /\ DOMAIN r = 1 .. Len(s)
    BY <1>1, <1>2, IsASeq
<1> QED BY <1>1, <1>3, LenProperties DEF r

\* with the entry of each place where the place is;
LEMMA RowElement ==
    ASSUME NEW S, NEW s \in Seq(S), NEW f, NEW i \in 1 .. Len(s)
    PROVE  RowOf(f, s)[i] = f[s[i]]
BY DEF RowOf

\* the row of one place is its entry,
LEMMA RowSingle ==
    ASSUME NEW f, NEW x
    PROVE  RowOf(f, <<x>>) = <<f[x]>>
<1> DEFINE s == <<x>>
           r == RowOf(f, s)
           S == {x}
           T == {f[x]}
<1>1. s \in Seq(S) /\ Len(s) = 1 /\ s[1] = x /\ \A y \in S : f[y] \in T
    OBVIOUS
<1> HIDE DEF s, S, T
<1>2. r \in Seq(T) /\ Len(r) = Len(s)
    BY <1>1, RowElements
<1>3. r[1] = f[s[1]]
  <2>1. 1 \in 1 .. Len(s)
      BY <1>1
  <2> QED BY <1>1, <2>1, RowElement
<1> HIDE DEF r
<1>4. r = <<f[x]>>
    BY <1>1, <1>2, <1>3
<1> QED BY <1>4 DEF r, s

\* and the row of two parts is made of their rows.
LEMMA RowConcat ==
    ASSUME NEW S, NEW f, NEW u \in Seq(S), NEW v \in Seq(S)
    PROVE  RowOf(f, u \o v) = RowOf(f, u) \o RowOf(f, v)
<1> DEFINE T == {f[x] : x \in S}
           s == u \o v
           r == RowOf(f, u)
           t == RowOf(f, v)
           w == RowOf(f, s)
<1>0. \A x \in S : f[x] \in T
    OBVIOUS
<1> HIDE DEF T
<1>1. /\ s \in Seq(S) /\ Len(u) \in Nat /\ Len(v) \in Nat /\ Len(s) = Len(u) + Len(v)
      /\ \A i \in 1 .. Len(u) : s[i] = u[i]
      /\ \A i \in 1 .. Len(u) + Len(v) : i > Len(u) => s[i] = v[i - Len(u)]
    BY ConcatElements
<1> HIDE DEF s
<1>2. /\ r \in Seq(T) /\ Len(r) = Len(u)
      /\ t \in Seq(T) /\ Len(t) = Len(v)
      /\ w \in Seq(T) /\ Len(w) = Len(s)
  <2>1. r \in Seq(T) /\ Len(r) = Len(u)
      BY <1>0, RowElements
  <2>2. t \in Seq(T) /\ Len(t) = Len(v)
      BY <1>0, RowElements
  <2>3. s \in Seq(S)
      BY <1>1
  <2>4. w \in Seq(T) /\ Len(w) = Len(s)
      BY <1>0, <2>3, RowElements
  <2> QED BY <2>1, <2>2, <2>4
<1>3. /\ \A i \in 1 .. Len(u) : r[i] = f[u[i]]
      /\ \A i \in 1 .. Len(v) : t[i] = f[v[i]]
      /\ \A i \in 1 .. Len(s) : w[i] = f[s[i]]
  <2>1. \A i \in 1 .. Len(u) : r[i] = f[u[i]]
      BY RowElement
  <2>2. \A i \in 1 .. Len(v) : t[i] = f[v[i]]
      BY RowElement
  <2>3. s \in Seq(S)
      BY <1>1
  <2>4. \A i \in 1 .. Len(s) : w[i] = f[s[i]]
      BY <2>3, RowElement
  <2> QED BY <2>1, <2>2, <2>4
<1>8. r \in Seq(T) /\ t \in Seq(T)
    BY <1>2
<1> HIDE DEF r, t, w
<1>5. /\ r \o t \in Seq(T) /\ Len(r \o t) = Len(r) + Len(t)
      /\ \A i \in 1 .. Len(r) : (r \o t)[i] = r[i]
      /\ \A i \in 1 .. Len(r) + Len(t) : i > Len(r) => (r \o t)[i] = t[i - Len(r)]
    BY <1>8, ConcatElements
<1>6. ASSUME NEW i \in 1 .. Len(s)
      PROVE  w[i] = (r \o t)[i]
  <2>1. CASE i <= Len(u)
    <3>1. i \in 1 .. Len(u) /\ i \in 1 .. Len(r)
        BY <1>1, <1>2, <2>1
    <3> QED BY <1>1, <1>3, <1>5, <3>1, ZenonT(40)
  <2>2. CASE i > Len(u)
    <3>1. i - Len(u) \in 1 .. Len(v) /\ i \in 1 .. Len(u) + Len(v)
        BY <1>1, <2>2
    <3>2. s[i] = v[i - Len(u)] /\ (r \o t)[i] = t[i - Len(u)]
        BY <1>1, <1>2, <1>5, <2>2, <3>1
    <3> QED BY <1>3, <3>1, <3>2
  <2>3. i <= Len(u) \/ i > Len(u)
      BY <1>1
  <2> QED BY <2>1, <2>2, <2>3, Zenon
<1>7. w = r \o t
    BY <1>1, <1>2, <1>5, <1>6, SeqEqual
<1> QED BY <1>7 DEF s, r, t, w

----------------------------------------------------------------------------
(* Grouping the items of a layer.                                          *)

\* The row is complete at depth h: its groups are gs, wherever it stands.
Grouped(T, row, h, gs) ==
    \A before \in Seq(Seq(T)) :
        Taken([groups |-> before, left |-> <<>>], row, h) = [groups |-> before \o gs, left |-> <<>>]

\* An item that is not as deep as the layer is a group,
LEMMA GroupSingle ==
    ASSUME NEW T, NEW h, NEW x \in T, x.pos # h
    PROVE  Grouped(T, <<x>>, h, <<<<x>>>>)
<1> SUFFICES ASSUME NEW before \in Seq(Seq(T))
             PROVE  Taken([groups |-> before, left |-> <<>>], <<x>>, h)
                        = [groups |-> before \o <<<<x>>>>, left |-> <<>>]
    BY DEF Grouped
<1>1. Taken([groups |-> before, left |-> <<>>], <<x>>, h)
          = Take([groups |-> before, left |-> <<>>], x, h)
    BY TakenSingle
<1>2. Take([groups |-> before, left |-> <<>>], x, h)
          = [groups |-> Append(before, <<x>>), left |-> <<>>]
    BY DEF Take
<1>3. <<x>> \in Seq(T)
    OBVIOUS
<1>4. Append(before, <<x>>) = before \o <<<<x>>>>
    BY <1>3, AppendIsConcat
<1> QED BY <1>1, <1>2, <1>4

\* two neighbours at the depth of the layer are one,
LEMMA GroupPair ==
    ASSUME NEW T, NEW h, NEW x \in T, NEW y \in T, x.pos = h
    PROVE  Grouped(T, <<x>> \o <<y>>, h, <<<<x, y>>>>)
<1> SUFFICES ASSUME NEW before \in Seq(Seq(T))
             PROVE  Taken([groups |-> before, left |-> <<>>], <<x>> \o <<y>>, h)
                        = [groups |-> before \o <<<<x, y>>>>, left |-> <<>>]
    BY DEF Grouped
<1> DEFINE start == [groups |-> before, left |-> <<>>]
           mid == [groups |-> before, left |-> <<x>>]
           u == <<x>>
           v == <<y>>
<1>1. u \in Seq(T) /\ v \in Seq(T)
    OBVIOUS
<1> HIDE DEF start, u, v
<1>2. Taken(start, u \o v, h) = Taken(Taken(start, u, h), v, h)
    BY <1>1, TakenConcat
<1> USE DEF start, u, v
<1>3. Taken(start, <<x>>, h) = mid
  <2>1. Taken(start, <<x>>, h) = Take(start, x, h)
      BY TakenSingle
  <2> QED BY <2>1 DEF Take
<1>4. Taken(mid, <<y>>, h) = [groups |-> Append(before, Append(<<x>>, y)), left |-> <<>>]
  <2>1. Taken(mid, <<y>>, h) = Take(mid, y, h)
      BY TakenSingle
  <2>2. <<x>> # <<>>
      OBVIOUS
  <2> QED BY <2>1, <2>2 DEF Take
<1>5. Append(<<x>>, y) = <<x, y>>
  <2>1. Append(u, y) = u \o <<y>>
    <3> HIDE DEF u, v
    <3> QED BY <1>1, AppendIsConcat
  <2> QED BY <2>1, PairIsConcat
<1>6. <<x, y>> \in Seq(T)
    OBVIOUS
<1>7. Append(before, <<x, y>>) = before \o <<<<x, y>>>>
    BY <1>6, AppendIsConcat
<1> QED BY <1>2, <1>3, <1>4, <1>5, <1>7

\* and the groups of two parts are the groups of the whole.
LEMMA GroupConcat ==
    ASSUME NEW T, NEW h, NEW r \in Seq(T), NEW s \in Seq(T),
           NEW gs \in Seq(Seq(T)), NEW hs \in Seq(Seq(T)),
           Grouped(T, r, h, gs), Grouped(T, s, h, hs)
    PROVE  Grouped(T, r \o s, h, gs \o hs)
<1> SUFFICES ASSUME NEW before \in Seq(Seq(T))
             PROVE  Taken([groups |-> before, left |-> <<>>], r \o s, h)
                        = [groups |-> before \o (gs \o hs), left |-> <<>>]
    BY DEF Grouped
<1> DEFINE start == [groups |-> before, left |-> <<>>]
           mid == [groups |-> before \o gs, left |-> <<>>]
<1>1. Taken(start, r \o s, h) = Taken(Taken(start, r, h), s, h)
    BY TakenConcat
<1>2. Taken(start, r, h) = mid
    BY DEF Grouped
<1>3. before \o gs \in Seq(Seq(T))
    BY ConcatProperties
<1>4. Taken(mid, s, h) = [groups |-> (before \o gs) \o hs, left |-> <<>>]
    BY <1>3 DEF Grouped
<1>5. (before \o gs) \o hs = before \o (gs \o hs)
    BY ConcatAssociative, SMTT(30)
<1> QED BY <1>1, <1>2, <1>4, <1>5

\* There is one way to group a layer, and Groups is it.
LEMMA GroupsOf ==
    ASSUME NEW T, NEW h, NEW r \in Seq(T), NEW gs \in Seq(Seq(T)), Grouped(T, r, h, gs)
    PROVE  Groups(r, h) = gs
<1>1. <<>> \in Seq(Seq(T)) /\ <<>> \o gs = gs
    BY ConcatEmptySeq, EmptySeq
<1>2. Taken([groups |-> <<>>, left |-> <<>>], r, h) = [groups |-> <<>> \o gs, left |-> <<>>]
    BY <1>1 DEF Grouped
<1> QED BY <1>1, <1>2 DEF Groups

\* The greatest depth of a row.
LEMMA DeepestIs ==
    ASSUME NEW items, NEW n \in Nat, n > 0, DOMAIN items = 1 .. n, NEW b \in Nat,
           \A i \in 1 .. n : items[i].pos \in Nat /\ items[i].pos <= b
    PROVE  /\ Deepest(items) \in 0 .. b
           /\ \A i \in 1 .. n : items[i].pos <= Deepest(items)
           /\ \E i \in 1 .. n : items[i].pos = Deepest(items)
<1> DEFINE P == {items[i].pos : i \in DOMAIN items}
<1>1. P \in SUBSET Int /\ \A x \in P : x <= b
    OBVIOUS
<1>2. items[1].pos \in P
    OBVIOUS
<1>3. PICK m \in P : \A x \in P : x <= m
  <2>1. P # {} /\ b \in Int
      BY <1>2
  <2> HIDE DEF P
  <2> QED BY <1>1, <2>1, GreatestInteger
<1>4. Deepest(items) \in P /\ \A x \in P : x <= Deepest(items)
  <2>1. m \in P /\ \A x \in P : m >= x
      BY <1>1, <1>3
  <2>2. Deepest(items) = CHOOSE x \in P : \A y \in P : x >= y
      BY DEF Deepest, Max
  <2>3. Deepest(items) \in P /\ \A y \in P : Deepest(items) >= y
      BY <2>1, <2>2
  <2> QED BY <1>1, <2>3
<1>5. PICK k \in 1 .. n : Deepest(items) = items[k].pos
    BY <1>4
<1>6. \A i \in 1 .. n : items[i].pos <= Deepest(items)
    BY <1>4
<1>7. Deepest(items) \in 0 .. b
    BY <1>5
<1> QED BY <1>5, <1>6, <1>7

----------------------------------------------------------------------------
(* Hasher::execute.                                                        *)

\* The layer item of a path.
Hashes(c, height) == [x \in BitSeqs |-> [hash |-> RootBelow(c, x), pos |-> Len(x) - height]]

\* The entries of the hasher's layers.
Hashed(c, height) == {Hashes(c, height)[x] : x \in BitSeqs}

\* What a group of items at depth h becomes.
Joins(T, h) ==
    [g \in Seq(T) |->
        IF Len(g) = 1 THEN g[1] ELSE [hash |-> BranchHash(g[1].hash, g[2].hash), pos |-> h - 1]]

\* A pass of the hasher turns every group into its hash.
LEMMA JoinHashesIs ==
    ASSUME NEW T, NEW h, NEW r \in Seq(T), NEW gs \in Seq(Seq(T)), Grouped(T, r, h, gs)
    PROVE  JoinHashes(r, h) = RowOf(Joins(T, h), gs)
<1>1. Groups(r, h) = gs
    BY GroupsOf
<1>2. \A i \in DOMAIN gs : gs[i] \in Seq(T)
    OBVIOUS
<1>3. JoinHashes(r, h) = [i \in DOMAIN gs |->
          IF Len(gs[i]) = 1 THEN gs[i][1]
          ELSE [hash |-> BranchHash(gs[i][1].hash, gs[i][2].hash), pos |-> h - 1]]
    BY <1>1 DEF JoinHashes
<1> QED BY <1>2, <1>3 DEF RowOf, Joins

\* One pass of the hasher makes the frontier of a subtree one bit shorter.
LEMMA HasherPass ==
    ASSUME NEW c, IsContents(c), NEW height \in Nat, NEW h \in Int
    PROVE  \A n \in 1 .. SubtreeHeight : \A q \in BitSeqs :
               Len(q) - height + n = h /\ Len(q) + n <= KeyBits =>
                   \E gs \in Seq(Seq(Hashed(c, height))) :
                       /\ Grouped(Hashed(c, height), RowOf(Hashes(c, height), NormalFront(c)[n][q]), h, gs)
                       /\ RowOf(Joins(Hashed(c, height), h), gs)
                              = RowOf(Hashes(c, height), NormalFront(c)[n - 1][q])
<1> DEFINE f == Hashes(c, height)
           T == Hashed(c, height)
           N == NormalFront(c)
           Passes(n, q) == \E gs \in Seq(Seq(T)) :
                               /\ Grouped(T, RowOf(f, N[n][q]), h, gs)
                               /\ RowOf(Joins(T, h), gs) = RowOf(f, N[n - 1][q])
           S == {m \in Nat : m + 1 <= SubtreeHeight =>
                    \A q \in BitSeqs : Len(q) - height + (m + 1) = h /\ Len(q) + (m + 1) <= KeyBits
                        => Passes(m + 1, q)}
<1>0. SubtreeHeight \in Nat /\ KeyBits \in Nat
    BY SparseMerkleTreeAssumption
<1>1. /\ f \in [BitSeqs -> T]
      /\ \A x \in BitSeqs : f[x] \in T /\ f[x].hash = RootBelow(c, x) /\ f[x].pos = Len(x) - height
    BY DEF Hashes, Hashed
<1>2. \A g \in Seq(T) : Joins(T, h)[g] =
          IF Len(g) = 1 THEN g[1] ELSE [hash |-> BranchHash(g[1].hash, g[2].hash), pos |-> h - 1]
    BY DEF Joins
<1> HIDE DEF f, T, N
<1>3. \A u, v \in Seq(BitSeqs) : RowOf(f, u \o v) = RowOf(f, u) \o RowOf(f, v)
    BY RowConcat
<1>4. \A u, v \in Seq(Seq(T)) :
          RowOf(Joins(T, h), u \o v) = RowOf(Joins(T, h), u) \o RowOf(Joins(T, h), v)
    BY RowConcat
\* A path that ends a branch is left alone.
<1>5. ASSUME NEW n \in 1 .. SubtreeHeight, NEW q \in BitSeqs, Len(q) - height + n = h, ~Many(c, q)
      PROVE  Passes(n, q)
  <2>1. n \in 0 .. SubtreeHeight /\ n - 1 \in 0 .. SubtreeHeight
      BY <1>0
  <2>2. N[n][q] = <<q>> /\ N[n - 1][q] = <<q>>
      BY <1>5, <2>1, NormalEnds DEF N
  <2>3. f[q].pos # h /\ f[q] \in T
      BY <1>0, <1>1, <1>5 DEF BitSeqs
  <2>4. RowOf(f, <<q>>) = <<f[q]>>
      BY RowSingle
  <2>5. Grouped(T, <<f[q]>>, h, <<<<f[q]>>>>)
      BY <2>3, GroupSingle
  <2>6. RowOf(Joins(T, h), <<<<f[q]>>>>) = <<f[q]>>
    <3>1. <<f[q]>> \in Seq(T) /\ Len(<<f[q]>>) = 1 /\ <<f[q]>>[1] = f[q]
        BY <2>3
    <3>2. Joins(T, h)[<<f[q]>>] = f[q]
        BY <1>2, <3>1
    <3>3. RowOf(Joins(T, h), <<<<f[q]>>>>) = <<Joins(T, h)[<<f[q]>>]>>
        BY RowSingle
    <3> QED BY <3>2, <3>3
  <2>7. <<<<f[q]>>>> \in Seq(Seq(T))
      BY <2>3
  <2> QED BY <2>2, <2>4, <2>5, <2>6, <2>7
\* Two paths at depth h are joined.
<1>6. 0 \in S
  <2> SUFFICES ASSUME 1 <= SubtreeHeight, NEW q \in BitSeqs,
                      Len(q) - height + 1 = h, Len(q) + 1 <= KeyBits
               PROVE  Passes(1, q)
      OBVIOUS
  <2>1. CASE ~Many(c, q)
    <3>1. 1 \in 1 .. SubtreeHeight
        BY <1>0
    <3> HIDE DEF Passes
    <3> QED BY <1>5, <2>1, <3>1
  <2>2. CASE Many(c, q)
    <3> DEFINE l == f[Append(q, 0)]
               r == f[Append(q, 1)]
               g == <<l, r>>
    <3>1. /\ Append(q, 0) \in BitSeqs /\ Append(q, 1) \in BitSeqs /\ Len(q) \in Nat
          /\ Len(Append(q, 0)) = Len(q) + 1 /\ Len(Append(q, 1)) = Len(q) + 1
        BY AppendBit DEF BitSeqs
    <3>2. 1 \in 0 .. SubtreeHeight /\ 0 \in 0 .. SubtreeHeight /\ 1 - 1 = 0 /\ 1 > 0
        BY <1>0
    <3>3. N[1][q] = <<Append(q, 0)>> \o <<Append(q, 1)>> /\ N[0][q] = <<q>>
      <4>1. N[0][Append(q, 0)] = <<Append(q, 0)>> /\ N[0][Append(q, 1)] = <<Append(q, 1)>>
                /\ N[0][q] = <<q>>
          BY <3>1, <3>2, NormalEnds DEF N
      <4>2. N[1][q] = N[1 - 1][Append(q, 0)] \o N[1 - 1][Append(q, 1)]
          BY <2>2, <3>2, NormalParts DEF N
      <4> QED BY <3>2, <4>1, <4>2
    <3>4. l \in T /\ r \in T /\ l.pos = h /\ l.hash = RootBelow(c, Append(q, 0))
              /\ r.hash = RootBelow(c, Append(q, 1))
      <4>1. l \in T /\ l.pos = Len(Append(q, 0)) - height /\ l.hash = RootBelow(c, Append(q, 0))
          BY <1>1, <3>1
      <4>2. r \in T /\ r.hash = RootBelow(c, Append(q, 1))
          BY <1>1, <3>1
      <4>3. Len(Append(q, 0)) - height = h
          BY <3>1
      <4> QED BY <4>1, <4>2, <4>3
    <3>5. RowOf(f, N[1][q]) = <<l>> \o <<r>>
      <4>1. <<Append(q, 0)>> \in Seq(BitSeqs) /\ <<Append(q, 1)>> \in Seq(BitSeqs)
          BY <3>1
      <4>2. RowOf(f, N[1][q]) = RowOf(f, <<Append(q, 0)>>) \o RowOf(f, <<Append(q, 1)>>)
          BY <1>3, <3>3, <4>1
      <4>3. RowOf(f, <<Append(q, 0)>>) = <<l>> /\ RowOf(f, <<Append(q, 1)>>) = <<r>>
          BY RowSingle
      <4> QED BY <4>2, <4>3
    <3>6. Grouped(T, <<l>> \o <<r>>, h, <<g>>)
        BY <3>4, GroupPair
    <3>7. g \in Seq(T) /\ Len(g) = 2 /\ g[1] = l /\ g[2] = r
        BY <3>4
    <3>8. Joins(T, h)[g] = f[q]
      <4>1. Joins(T, h)[g] = [hash |-> BranchHash(l.hash, r.hash), pos |-> h - 1]
        <5>1. g \in Seq(T) /\ Len(g) # 1
            BY <3>7
        <5>2. Joins(T, h)[g] = [hash |-> BranchHash(g[1].hash, g[2].hash), pos |-> h - 1]
          <6> HIDE DEF g
          <6> QED BY <1>2, <5>1
        <5> QED BY <3>7, <5>2
      <4>2. q \in Paths
          BY <1>0, <3>1 DEF Paths, BitSeqs
      <4>3. RootBelow(c, q) = BranchHash(RootBelow(c, Append(q, 0)), RootBelow(c, Append(q, 1)))
          BY <2>2, <4>2, RootForms
      <4>4. h - 1 = Len(q) - height
          BY <3>1
      <4>5. f[q] = [hash |-> RootBelow(c, q), pos |-> Len(q) - height]
          BY DEF f, Hashes
      <4> HIDE DEF g, l, r
      <4> QED BY <3>4, <4>1, <4>3, <4>4, <4>5
    <3>9. RowOf(Joins(T, h), <<g>>) = <<f[q]>>
      <4>1. RowOf(Joins(T, h), <<g>>) = <<Joins(T, h)[g]>>
          BY RowSingle
      <4> QED BY <3>8, <4>1
    <3>10. RowOf(f, N[0][q]) = <<f[q]>>
        BY <3>3, RowSingle
    <3>11. <<g>> \in Seq(Seq(T))
      <4> HIDE DEF g
      <4> QED BY <3>7
    <3> HIDE DEF g, l, r
    <3> QED BY <3>2, <3>5, <3>6, <3>9, <3>10, <3>11
  <2> HIDE DEF Passes
  <2> QED BY <2>1, <2>2
\* Higher up the two halves are passed one after the other.
<1>7. ASSUME NEW m \in Nat, m \in S
      PROVE  m + 1 \in S
  <2> DEFINE n == m + 1
  <2> SUFFICES ASSUME n + 1 <= SubtreeHeight, NEW q \in BitSeqs,
                      Len(q) - height + (n + 1) = h, Len(q) + (n + 1) <= KeyBits
               PROVE  Passes(n + 1, q)
      OBVIOUS
  <2>1. n + 1 \in 1 .. SubtreeHeight /\ n \in Nat /\ n > 0
      BY <1>0
  <2>2. CASE ~Many(c, q)
    <3> HIDE DEF Passes, n
    <3> QED BY <1>5, <2>1, <2>2
  <2>3. CASE Many(c, q)
    <3>1. /\ Append(q, 0) \in BitSeqs /\ Append(q, 1) \in BitSeqs /\ Len(q) \in Nat
          /\ Len(Append(q, 0)) = Len(q) + 1 /\ Len(Append(q, 1)) = Len(q) + 1
        BY AppendBit DEF BitSeqs
    <3>2. /\ n + 1 \in 0 .. SubtreeHeight /\ n \in 0 .. SubtreeHeight /\ (n + 1) - 1 = n
          /\ n - 1 \in 0 .. SubtreeHeight /\ n + 1 > 0 /\ n <= SubtreeHeight
        BY <1>0, <2>1
    <3>3. \A b \in {0, 1} : Passes(n, Append(q, b))
      <4> TAKE b \in {0, 1}
      <4>1. Len(Append(q, b)) - height + n = h /\ Len(Append(q, b)) + n <= KeyBits
                /\ Append(q, b) \in BitSeqs
          BY <1>0, <2>1, <3>1
      <4> HIDE DEF Passes
      <4> QED BY <1>7, <3>2, <4>1
    <3> HIDE DEF n
    <3>4. PICK gs \in Seq(Seq(T)) : /\ Grouped(T, RowOf(f, N[n][Append(q, 0)]), h, gs)
                                   /\ RowOf(Joins(T, h), gs) = RowOf(f, N[n - 1][Append(q, 0)])
        BY <3>3
    <3>5. PICK hs \in Seq(Seq(T)) : /\ Grouped(T, RowOf(f, N[n][Append(q, 1)]), h, hs)
                                   /\ RowOf(Joins(T, h), hs) = RowOf(f, N[n - 1][Append(q, 1)])
        BY <3>3
    <3>6. \A k \in 0 .. SubtreeHeight, x \in BitSeqs : N[k][x] \in Seq(BitSeqs)
      <4> TAKE k \in 0 .. SubtreeHeight, x \in BitSeqs
      <4>1. N[k][x] \in Fronts[k][x] /\ k \in Nat /\ k <= SubtreeHeight
          BY <1>0, NormalIsFront DEF N
      <4> QED BY <4>1, FrontType
    <3>7. N[n + 1][q] = N[n][Append(q, 0)] \o N[n][Append(q, 1)]
        BY <2>3, <3>2, NormalParts DEF N
    <3>8. N[n][q] = N[n - 1][Append(q, 0)] \o N[n - 1][Append(q, 1)]
        BY <2>1, <2>3, <3>2, NormalParts DEF N
    <3>9. /\ N[n][Append(q, 0)] \in Seq(BitSeqs) /\ N[n][Append(q, 1)] \in Seq(BitSeqs)
          /\ N[n - 1][Append(q, 0)] \in Seq(BitSeqs) /\ N[n - 1][Append(q, 1)] \in Seq(BitSeqs)
        BY <3>1, <3>2, <3>6
    <3>10. RowOf(f, N[n + 1][q]) = RowOf(f, N[n][Append(q, 0)]) \o RowOf(f, N[n][Append(q, 1)])
        BY <1>3, <3>7, <3>9
    <3>11. RowOf(f, N[n][Append(q, 0)]) \in Seq(T) /\ RowOf(f, N[n][Append(q, 1)]) \in Seq(T)
        BY <1>1, <3>9, RowType
    <3>12. Grouped(T, RowOf(f, N[n + 1][q]), h, gs \o hs)
        BY <3>4, <3>5, <3>10, <3>11, GroupConcat
    <3>13. RowOf(Joins(T, h), gs \o hs) = RowOf(Joins(T, h), gs) \o RowOf(Joins(T, h), hs)
        BY <1>4
    <3>14. RowOf(f, N[n][q]) = RowOf(f, N[n - 1][Append(q, 0)]) \o RowOf(f, N[n - 1][Append(q, 1)])
        BY <1>3, <3>8, <3>9
    <3>15. gs \o hs \in Seq(Seq(T))
        BY ConcatProperties
    <3>16. RowOf(Joins(T, h), gs \o hs) = RowOf(f, N[(n + 1) - 1][q])
        BY <3>2, <3>4, <3>5, <3>13, <3>14
    <3> QED BY <3>12, <3>15, <3>16
  <2> HIDE DEF Passes
  <2> QED BY <2>2, <2>3
<1>8. Nat \subseteq S
  <2> HIDE DEF S
  <2> QED BY <1>6, <1>7, SetInduction
<1>9. \A n \in 1 .. SubtreeHeight : \A q \in BitSeqs :
          Len(q) - height + n = h /\ Len(q) + n <= KeyBits => Passes(n, q)
  <2> TAKE n \in 1 .. SubtreeHeight
  <2>1. n - 1 \in Nat /\ (n - 1) + 1 = n /\ n <= SubtreeHeight
      BY <1>0
  <2>2. n - 1 \in S
      BY <1>8, <2>1
  <2> HIDE DEF Passes
  <2> QED BY <2>1, <2>2
<1> QED BY <1>9 DEF f, T, N

\* The node at a path, and its entry in the subtree that starts at height.
NodeAt(c, q) ==
    LET keys == Below(DOMAIN c, q)
    IN  IF keys = {} THEN EmptyNode
        ELSE IF Many(c, q) THEN StubNode(RootBelow(c, q))
        ELSE LeafNode(CHOOSE k \in keys : TRUE, c[CHOOSE k \in keys : TRUE])

\* The entry of a place in a subtree that begins at the height: its node,
\* and how deep it is.
Items(c, height) == [x \in BitSeqs |-> At(NodeAt(c, x), Len(x) - height)]

\* The stored subtree at a path.
Subtree(c, p) == RowOf(Items(c, Len(p)), NormalFront(c)[SubtreeHeight][p])

\* The node of a place is empty, a leaf or a stub, as there are no keys,
\* one or more below it.
LEMMA NodeForms ==
    ASSUME NEW c, IsContents(c), NEW q
    PROVE  /\ Below(DOMAIN c, q) = {} => NodeAt(c, q) = EmptyNode
           /\ \A k : Below(DOMAIN c, q) = {k} => NodeAt(c, q) = LeafNode(k, c[k])
           /\ Many(c, q) => NodeAt(c, q) = StubNode(RootBelow(c, q))
<1>1. ASSUME NEW k, Below(DOMAIN c, q) = {k}
      PROVE  NodeAt(c, q) = LeafNode(k, c[k])
  <2> DEFINE keys == Below(DOMAIN c, q)
  <2>1. (CHOOSE x \in keys : TRUE) = k
      BY <1>1
  <2>2. ~Many(c, q) /\ keys # {}
      BY <1>1 DEF Many
  <2> HIDE DEF keys
  <2>3. NodeAt(c, q) = LeafNode(CHOOSE x \in keys : TRUE, c[CHOOSE x \in keys : TRUE])
      BY <2>2 DEF NodeAt, keys
  <2> QED BY <2>1, <2>3
<1> QED BY <1>1 DEF NodeAt, Many

\* Its hash is the root of the contents below the place.
LEMMA NodeHash ==
    ASSUME NEW c, IsContents(c), NEW q \in Paths
    PROVE  NodeAt(c, q).hash = RootBelow(c, q)
<1>1. CASE Below(DOMAIN c, q) = {}
    BY <1>1, NodeForms, RootForms DEF EmptyNode
<1>2. CASE \E k : Below(DOMAIN c, q) = {k}
    BY <1>2, NodeForms, RootForms DEF LeafNode
<1>3. CASE Many(c, q)
    BY <1>3, NodeForms, RootForms DEF StubNode
<1> QED BY <1>1, <1>2, <1>3, Forms

\* A normal frontier is no deeper than its elements.
LEMMA NormalShallow ==
    ASSUME NEW c, NEW n \in 0 .. SubtreeHeight, NEW q \in BitSeqs, NEW d \in 0 .. n,
           \A i \in 1 .. Len(NormalFront(c)[n][q]) : Len(NormalFront(c)[n][q][i]) <= Len(q) + d
    PROVE  NormalFront(c)[n][q] = NormalFront(c)[d][q]
<1> DEFINE N == NormalFront(c)
           Fits(m, x, e) == \A i \in 1 .. Len(N[m][x]) : Len(N[m][x][i]) <= Len(x) + e
           S == {m \in Nat : m <= SubtreeHeight => \A x \in BitSeqs : \A e \in 0 .. m :
                                Fits(m, x, e) => N[m][x] = N[e][x]}
<1>0. SubtreeHeight \in Nat
    BY SparseMerkleTreeAssumption
<1>1. 0 \in S
    OBVIOUS
<1>2. ASSUME NEW m \in Nat, m \in S
      PROVE  m + 1 \in S
  <2> SUFFICES ASSUME m + 1 <= SubtreeHeight, NEW x \in BitSeqs, NEW e \in 0 .. m + 1, Fits(m + 1, x, e)
               PROVE  N[m + 1][x] = N[e][x]
      OBVIOUS
  <2>1. /\ m + 1 \in 0 .. SubtreeHeight /\ m \in 0 .. SubtreeHeight /\ e \in 0 .. SubtreeHeight
        /\ m < SubtreeHeight /\ m + 1 > 0 /\ (m + 1) - 1 = m /\ m <= SubtreeHeight
      BY <1>0
  <2> HIDE DEF N
  <2>2. CASE ~Many(c, x)
    <3>1. N[m + 1][x] = <<x>> /\ N[e][x] = <<x>>
        BY <2>1, <2>2, NormalEnds DEF N
    <3> QED BY <3>1
  <2>3. CASE Many(c, x)
    <3> DEFINE u == N[m][Append(x, 0)]
               v == N[m][Append(x, 1)]
    <3>1. N[m + 1][x] = u \o v
        BY <2>1, <2>3, NormalParts, ZenonT(40) DEF N
    <3>2. Append(x, 0) \in BitSeqs /\ Append(x, 1) \in BitSeqs
        BY AppendBit
    <3>3. u \in Fronts[m][Append(x, 0)] /\ v \in Fronts[m][Append(x, 1)]
        BY <2>1, <3>2, NormalIsFront DEF N
    <3> HIDE DEF u, v
    <3>4. /\ Len(x) \in Nat /\ Len(Append(x, 0)) = Len(x) + 1 /\ Len(Append(x, 1)) = Len(x) + 1
          /\ Len(u) \in Nat /\ Len(u) > 0 /\ Len(v) \in Nat
          /\ Len(u \o v) = Len(u) + Len(v)
          /\ \A i \in 1 .. Len(u) : (u \o v)[i] = u[i]
          /\ \A i \in 1 .. Len(u) + Len(v) : i > Len(u) => (u \o v)[i] = v[i - Len(u)]
        BY <2>1, <3>3, FrontHalves
    <3>5. \A i \in 1 .. Len(u) : u[i] \in BitSeqs /\ Extends(u[i], Append(x, 0))
        BY <2>1, <3>3, FrontHalves
    <3>6. \A i \in 1 .. Len(u \o v) : Len((u \o v)[i]) <= Len(x) + e
        BY <3>1
    <3>7. \A i \in 1 .. Len(u) : Len(u[i]) <= Len(x) + e
      <4> TAKE i \in 1 .. Len(u)
      <4>1. i \in 1 .. Len(u \o v) /\ (u \o v)[i] = u[i]
          BY <3>4
      <4> QED BY <3>6, <4>1
    <3>8. \A i \in 1 .. Len(v) : Len(v[i]) <= Len(x) + e
      <4> TAKE i \in 1 .. Len(v)
      <4>1. Len(u) + i \in 1 .. Len(u \o v) /\ Len(u) + i \in 1 .. Len(u) + Len(v)
                /\ Len(u) + i > Len(u) /\ (Len(u) + i) - Len(u) = i
          BY <3>4
      <4>2. (u \o v)[Len(u) + i] = v[i]
          BY <3>4, <4>1
      <4> QED BY <3>6, <4>1, <4>2
    <3>9. e > 0
      <4>1. 1 \in 1 .. Len(u) /\ Len(u[1]) >= Len(x) + 1 /\ Len(u[1]) \in Nat
          BY <3>4, <3>5 DEF Extends, BitSeqs
      <4> QED BY <3>4, <3>7, <4>1
    <3>10. e - 1 \in 0 .. m /\ Len(x) + e = (Len(x) + 1) + (e - 1)
        BY <3>4, <3>9
    <3>11. u = N[e - 1][Append(x, 0)] /\ v = N[e - 1][Append(x, 1)]
      <4>1. \A y \in BitSeqs : \A k \in 0 .. m : Fits(m, y, k) => N[m][y] = N[k][y]
          BY <1>2, <2>1
      <4>2. Fits(m, Append(x, 0), e - 1)
          BY <3>4, <3>7, <3>10 DEF u
      <4>3. Fits(m, Append(x, 1), e - 1)
          BY <3>4, <3>8, <3>10 DEF v
      <4> HIDE DEF Fits
      <4> QED BY <3>2, <3>10, <4>1, <4>2, <4>3 DEF u, v
    <3>12. N[e][x] = N[e - 1][Append(x, 0)] \o N[e - 1][Append(x, 1)]
        BY <2>1, <2>3, <3>9, NormalParts DEF N
    <3> QED BY <3>1, <3>11, <3>12
  <2> QED BY <2>2, <2>3
<1>3. n \in S /\ n <= SubtreeHeight
  <2> HIDE DEF S
  <2> QED BY <1>0, <1>1, <1>2, SetInduction
<1>4. Fits(n, q, d)
    OBVIOUS
<1> HIDE DEF Fits, N
<1>5. N[n][q] = N[d][q]
    BY <1>3, <1>4
<1> QED BY <1>5 DEF N

\* The hasher's layers.
LEMMA HasherLayers ==
    ASSUME NEW items, NEW d \in Nat, d = Deepest(items)
    PROVE  \E layer : /\ layer[0] = [i \in DOMAIN items |->
                                        [hash |-> items[i].node.hash, pos |-> items[i].pos]]
                      /\ \A n \in 1 .. d : layer[n] = JoinHashes(layer[n - 1], d + 1 - n)
                      /\ HasherExecute(items) = layer[d][1].hash
<1> DEFINE base == [i \in DOMAIN items |-> [hash |-> items[i].node.hash, pos |-> items[i].pos]]
           Is(f, m) == f = [n \in 0 .. m |-> IF n = 0 THEN base ELSE JoinHashes(f[n - 1], d + 1 - n)]
           S == {m \in Nat : \E f : Is(f, m)}
<1>1. 0 \in S
  <2> DEFINE f == [n \in 0 .. 0 |-> base]
  <2>1. Is(f, 0)
      OBVIOUS
  <2> QED BY <2>1
<1>2. ASSUME NEW m \in Nat, m \in S
      PROVE  m + 1 \in S
  <2> HIDE DEF base
  <2>1. PICK f : Is(f, m)
      BY <1>2
  <2> DEFINE g == [n \in 0 .. m + 1 |-> IF n = 0 THEN base ELSE JoinHashes(f[n - 1], d + 1 - n)]
  <2>2. \A n \in 0 .. m : g[n] = f[n]
    <3> TAKE n \in 0 .. m
    <3>1. f[n] = IF n = 0 THEN base ELSE JoinHashes(f[n - 1], d + 1 - n)
        BY <2>1
    <3> QED BY <3>1
  <2>3. \A n \in 0 .. m + 1 : g[n] = IF n = 0 THEN base ELSE JoinHashes(g[n - 1], d + 1 - n)
    <3> TAKE n \in 0 .. m + 1
    <3>1. n # 0 => n - 1 \in 0 .. m
        OBVIOUS
    <3>2. n # 0 => g[n - 1] = f[n - 1]
        BY <2>2, <3>1
    <3> QED BY <3>2
  <2>4. Is(g, m + 1)
    <3>1. g = [n \in 0 .. m + 1 |-> g[n]]
        OBVIOUS
    <3> HIDE DEF g
    <3> QED BY <2>3, <3>1
  <2> HIDE DEF g, Is
  <2> QED BY <2>4
<1>3. d \in S
  <2> HIDE DEF S
  <2> QED BY <1>1, <1>2, SetInduction
<1> DEFINE F == CHOOSE f : Is(f, d)
<1>4. HasherExecute(items) = F[d][1].hash
    BY DEF HasherExecute
<1>5. Is(F, d)
    BY <1>3
<1> HIDE DEF F, base
<1>6. F[0] = base /\ \A n \in 1 .. d : F[n] = JoinHashes(F[n - 1], d + 1 - n)
    BY <1>5
<1> HIDE DEF Is
<1> QED BY <1>4, <1>6 DEF base

\* What a stored subtree is made of.
LEMMA SubtreeRow ==
    ASSUME NEW c, IsContents(c), NEW p \in Paths, NEW n \in 0 .. SubtreeHeight,
           NEW a \in Fronts[n][p], Len(p) + n <= KeyBits
    PROVE  /\ a \in Seq(BitSeqs) /\ Len(a) \in Nat /\ Len(a) > 0
           /\ Len(RowOf(Items(c, Len(p)), a)) = Len(a)
           /\ DOMAIN RowOf(Items(c, Len(p)), a) = 1 .. Len(a)
           /\ \A i \in 1 .. Len(a) :
                  /\ RowOf(Items(c, Len(p)), a)[i] = At(NodeAt(c, a[i]), Len(a[i]) - Len(p))
                  /\ a[i] \in BitSeqs /\ a[i] \in Paths /\ Extends(a[i], p)
                  /\ Len(a[i]) - Len(p) \in 0 .. n /\ Len(a[i]) \in Nat
<1>0. SubtreeHeight \in Nat /\ KeyBits \in Nat
    BY SparseMerkleTreeAssumption
<1>1. p \in BitSeqs /\ Len(p) \in Nat /\ n \in Nat /\ n <= SubtreeHeight
    BY <1>0, PathLength
<1>2. /\ a \in Seq(BitSeqs) /\ Len(a) \in Nat /\ Len(a) > 0
      /\ \A i \in 1 .. Len(a) : a[i] \in BitSeqs /\ Extends(a[i], p) /\ Len(a[i]) <= Len(p) + n
    BY <1>1, FrontExtends
<1>3. \A i \in 1 .. Len(a) : /\ Len(a[i]) - Len(p) \in 0 .. n /\ Len(a[i]) \in Nat /\ a[i] \in Paths
  <2> TAKE i \in 1 .. Len(a)
  <2>1. a[i] \in BitSeqs /\ Len(a[i]) \in Nat /\ Len(p) <= Len(a[i]) /\ Len(a[i]) <= Len(p) + n
      BY <1>2 DEF Extends, BitSeqs
  <2> QED BY <1>0, <1>1, <2>1 DEF Paths, BitSeqs
<1>4. Len(RowOf(Items(c, Len(p)), a)) = Len(a)
    BY <1>2, RowLength
<1>5. DOMAIN RowOf(Items(c, Len(p)), a) = 1 .. Len(a)
    BY <1>2 DEF RowOf
<1>6. \A i \in 1 .. Len(a) : RowOf(Items(c, Len(p)), a)[i] = At(NodeAt(c, a[i]), Len(a[i]) - Len(p))
  <2> TAKE i \in 1 .. Len(a)
  <2>1. RowOf(Items(c, Len(p)), a)[i] = Items(c, Len(p))[a[i]]
      BY <1>2, RowElement
  <2> QED BY <1>2, <2>1 DEF Items
<1> QED BY <1>2, <1>3, <1>4, <1>5, <1>6

\* Hasher::execute: the layers of a stored subtree end in its Merkle root,
\* however the branches of the subtree are nested.
THEOREM HasherFindsRoot ==
    ASSUME NEW c, IsContents(c), NEW p \in Paths, Len(p) + SubtreeHeight <= KeyBits
    PROVE  HasherExecute(Subtree(c, p)) = RootBelow(c, p)
<1> DEFINE N == NormalFront(c)
           a == N[SubtreeHeight][p]
           items == Subtree(c, p)
           d == Deepest(items)
           f == Hashes(c, Len(p))
           T == Hashed(c, Len(p))
<1>0. /\ SubtreeHeight \in Nat /\ KeyBits \in Nat /\ SubtreeHeight \in 0 .. SubtreeHeight
      /\ p \in BitSeqs /\ Len(p) \in Nat
    BY SparseMerkleTreeAssumption, PathLength
<1>1. a \in Fronts[SubtreeHeight][p]
    BY <1>0, NormalIsFront
<1>2. items = RowOf(Items(c, Len(p)), a)
    BY DEF Subtree
<1> HIDE DEF a, items
<1>3. /\ a \in Seq(BitSeqs) /\ Len(a) \in Nat /\ Len(a) > 0
      /\ DOMAIN items = 1 .. Len(a)
      /\ \A i \in 1 .. Len(a) :
             /\ items[i] = At(NodeAt(c, a[i]), Len(a[i]) - Len(p))
             /\ a[i] \in BitSeqs /\ a[i] \in Paths
             /\ Len(a[i]) - Len(p) \in 0 .. SubtreeHeight /\ Len(a[i]) \in Nat
    BY <1>0, <1>1, <1>2, SubtreeRow
<1>4. /\ d \in 0 .. SubtreeHeight
      /\ \A i \in 1 .. Len(a) : items[i].pos <= d
  <2>1. \A i \in 1 .. Len(a) : items[i].pos \in Nat /\ items[i].pos <= SubtreeHeight
      BY <1>0, <1>3 DEF At
  <2> QED BY <1>0, <1>3, <2>1, DeepestIs
<1> HIDE DEF d
<1>5. a = N[d][p]
  <2>1. \A i \in 1 .. Len(a) : Len(a[i]) <= Len(p) + d
    <3> TAKE i \in 1 .. Len(a)
    <3>1. items[i].pos = Len(a[i]) - Len(p)
        BY <1>3 DEF At
    <3> QED BY <1>0, <1>3, <1>4, <3>1
  <2> QED BY <1>0, <1>4, <2>1, NormalShallow DEF a
<1>6. PICK layer : /\ layer[0] = [i \in DOMAIN items |->
                                     [hash |-> items[i].node.hash, pos |-> items[i].pos]]
                   /\ \A n \in 1 .. d : layer[n] = JoinHashes(layer[n - 1], d + 1 - n)
                   /\ HasherExecute(items) = layer[d][1].hash
  <2>1. d \in Nat
      BY <1>0, <1>4
  <2> QED BY <2>1, HasherLayers DEF d
<1>7. layer[0] = RowOf(f, N[d][p])
  <2>1. ASSUME NEW i \in 1 .. Len(a)
        PROVE  [hash |-> items[i].node.hash, pos |-> items[i].pos] = f[a[i]]
    <3>1. items[i].node.hash = RootBelow(c, a[i]) /\ items[i].pos = Len(a[i]) - Len(p)
        BY <1>3, NodeHash DEF At
    <3> QED BY <1>3, <3>1 DEF Hashes
  <2>2. DOMAIN a = 1 .. Len(a)
      BY <1>3
  <2>3. RowOf(f, a) = [i \in 1 .. Len(a) |-> f[a[i]]]
      BY <2>2 DEF RowOf
  <2> QED BY <1>3, <1>5, <1>6, <2>1, <2>3
<1> DEFINE S == {n \in Nat : n <= d => layer[n] = RowOf(f, N[d - n][p])}
<1>8. 0 \in S
  <2>1. d - 0 = d
      BY <1>4
  <2> HIDE DEF f, N
  <2> QED BY <1>7, <2>1
<1>9. ASSUME NEW n \in Nat, n \in S
      PROVE  n + 1 \in S
  <2> SUFFICES ASSUME n + 1 <= d
               PROVE  layer[n + 1] = RowOf(f, N[d - (n + 1)][p])
      OBVIOUS
  <2> DEFINE m == d - n
             h == d + 1 - (n + 1)
  <2>1. /\ n + 1 \in 1 .. d /\ (n + 1) - 1 = n /\ n <= d
        /\ m \in 1 .. SubtreeHeight /\ m \in 0 .. SubtreeHeight /\ h \in Int
        /\ Len(p) - Len(p) + m = h /\ Len(p) + m <= KeyBits /\ m - 1 = d - (n + 1)
        /\ m \in Nat /\ m <= SubtreeHeight
      BY <1>0, <1>4
  <2>2. layer[n + 1] = JoinHashes(layer[n], h)
      BY <1>6, <2>1
  <2>3. layer[n] = RowOf(f, N[m][p])
      BY <1>9, <2>1
  <2> HIDE DEF m, h, f, T, N
  <2>4. PICK gs \in Seq(Seq(T)) : /\ Grouped(T, RowOf(f, N[m][p]), h, gs)
                                 /\ RowOf(Joins(T, h), gs) = RowOf(f, N[m - 1][p])
      BY <1>0, <2>1, HasherPass DEF f, T, N
  <2>5. RowOf(f, N[m][p]) \in Seq(T)
    <3>1. N[m][p] \in Seq(BitSeqs)
      <4>1. N[m][p] \in Fronts[m][p]
          BY <1>0, <2>1, NormalIsFront DEF N
      <4> QED BY <1>0, <2>1, <4>1, FrontType
    <3>2. \A x \in BitSeqs : f[x] \in T
        BY DEF f, T, Hashes, Hashed
    <3> QED BY <3>1, <3>2, RowType
  <2>6. JoinHashes(RowOf(f, N[m][p]), h) = RowOf(Joins(T, h), gs)
      BY <2>4, <2>5, JoinHashesIs
  <2> QED BY <2>1, <2>2, <2>3, <2>4, <2>6
<1>10. layer[d] = RowOf(f, N[0][p])
  <2>1. d \in S
    <3> HIDE DEF S
    <3> QED BY <1>4, <1>8, <1>9, SetInduction
  <2>2. d - d = 0 /\ d <= d /\ d \in Nat
      BY <1>4
  <2> HIDE DEF f, N
  <2> QED BY <2>1, <2>2
<1>11. N[0][p] = <<p>>
  <2>1. 0 \in 0 .. SubtreeHeight
      BY <1>0
  <2> QED BY <1>0, <2>1, NormalEnds
<1>12. layer[d] = <<f[p]>>
  <2> HIDE DEF f, N
  <2> QED BY <1>10, <1>11, RowSingle
<1>13. f[p].hash = RootBelow(c, p)
    BY <1>0 DEF Hashes
<1>14. HasherExecute(items) = f[p].hash
  <2> HIDE DEF f
  <2>1. <<f[p]>>[1] = f[p]
      OBVIOUS
  <2> QED BY <1>6, <1>12, <2>1
<1> QED BY <1>13, <1>14 DEF items

\* A decoded subtree has the root it is stored under.
LEMMA FromDataIs ==
    ASSUME NEW c, IsContents(c), NEW p \in Paths, Len(p) + SubtreeHeight <= KeyBits
    PROVE  FromData(Subtree(c, p)) = [items |-> Subtree(c, p), root |-> RootBelow(c, p)]
BY HasherFindsRoot DEF FromData

\* The last row is the first to come: what the elements of s keep waiting.
Waiting(w, s) ==
    LET waiting[i \in 0 .. Len(s)] == IF i = 0 THEN <<>> ELSE w[s[i]] \o waiting[i - 1]
    IN  waiting[Len(s)]

\* Waiting is what its recursion says.
LEMMA WaitingExists ==
    ASSUME NEW T, NEW s \in Seq(T), NEW w
    PROVE  \E f : /\ f[0] = <<>>
                  /\ \A i \in 1 .. Len(s) : f[i] = w[s[i]] \o f[i - 1]
                  /\ Waiting(w, s) = f[Len(s)]
<1> DEFINE Is(f, n) == f = [i \in 0 .. n |-> IF i = 0 THEN <<>> ELSE w[s[i]] \o f[i - 1]]
           S == {n \in Nat : \E f : Is(f, n)}
<1>0. Len(s) \in Nat
    OBVIOUS
<1>1. 0 \in S
  <2> DEFINE f == [i \in 0 .. 0 |-> <<>>]
  <2>1. Is(f, 0)
      OBVIOUS
  <2> QED BY <2>1
<1>2. ASSUME NEW n \in Nat, n \in S
      PROVE  n + 1 \in S
  <2>1. PICK f : Is(f, n)
      BY <1>2
  <2> DEFINE g == [i \in 0 .. n + 1 |-> IF i = 0 THEN <<>> ELSE w[s[i]] \o f[i - 1]]
  <2>2. \A i \in 0 .. n : g[i] = f[i]
    <3> TAKE i \in 0 .. n
    <3>1. f[i] = IF i = 0 THEN <<>> ELSE w[s[i]] \o f[i - 1]
        BY <2>1
    <3> QED BY <3>1
  <2>3. \A i \in 0 .. n + 1 : g[i] = IF i = 0 THEN <<>> ELSE w[s[i]] \o g[i - 1]
    <3> TAKE i \in 0 .. n + 1
    <3>1. i # 0 => i - 1 \in 0 .. n
        OBVIOUS
    <3>2. i # 0 => g[i - 1] = f[i - 1]
        BY <2>2, <3>1
    <3> QED BY <3>2
  <2>4. Is(g, n + 1)
    <3>1. g = [i \in 0 .. n + 1 |-> g[i]]
        OBVIOUS
    <3> HIDE DEF g
    <3> QED BY <2>3, <3>1
  <2> HIDE DEF g, Is
  <2> QED BY <2>4
<1>3. Len(s) \in S
  <2> HIDE DEF S
  <2> QED BY <1>0, <1>1, <1>2, SetInduction
<1> DEFINE F == CHOOSE f : Is(f, Len(s))
<1>4. Waiting(w, s) = F[Len(s)]
    BY DEF Waiting
<1>5. Is(F, Len(s))
    BY <1>3
<1> HIDE DEF F
<1>6. F[0] = <<>> /\ \A i \in 1 .. Len(s) : F[i] = w[s[i]] \o F[i - 1]
    BY <1>0, <1>5
<1> HIDE DEF Is
<1> QED BY <1>4, <1>6

\* What waits for one place,
LEMMA WaitingSingle ==
    ASSUME NEW T, NEW x \in T, NEW R, NEW w, w[x] \in Seq(R)
    PROVE  Waiting(w, <<x>>) = w[x]
<1> DEFINE s == <<x>>
<1>1. s \in Seq(T) /\ Len(s) = 1 /\ s[1] = x
    OBVIOUS
<1> HIDE DEF s
<1>2. PICK f : /\ f[0] = <<>>
               /\ \A i \in 1 .. Len(s) : f[i] = w[s[i]] \o f[i - 1]
               /\ Waiting(w, s) = f[Len(s)]
    BY <1>1, WaitingExists
<1>3. 1 \in 1 .. Len(s) /\ 1 - 1 = 0
    BY <1>1
<1>4. f[1] = w[s[1]] \o f[0]
    BY <1>2, <1>3
<1>5. w[x] \o <<>> = w[x]
    BY ConcatEmptySeq
<1> QED BY <1>1, <1>2, <1>4, <1>5 DEF s

\* is a sequence of rows,
LEMMA WaitingType ==
    ASSUME NEW T, NEW R, NEW w, \A x \in T : w[x] \in Seq(R), NEW u \in Seq(T)
    PROVE  Waiting(w, u) \in Seq(R)
<1>1. PICK g : /\ g[0] = <<>>
               /\ \A i \in 1 .. Len(u) : g[i] = w[u[i]] \o g[i - 1]
               /\ Waiting(w, u) = g[Len(u)]
    BY WaitingExists
<1> DEFINE S == {n \in Nat : n <= Len(u) => g[n] \in Seq(R)}
<1>2. 0 \in S
  <2>1. <<>> \in Seq(R)
      OBVIOUS
  <2> QED BY <1>1, <2>1
<1>3. ASSUME NEW n \in Nat, n \in S
      PROVE  n + 1 \in S
  <2> SUFFICES ASSUME n + 1 <= Len(u)
               PROVE  g[n + 1] \in Seq(R)
      OBVIOUS
  <2>1. n + 1 \in 1 .. Len(u) /\ (n + 1) - 1 = n /\ n <= Len(u)
      OBVIOUS
  <2>2. g[n + 1] = w[u[n + 1]] \o g[n]
      BY <1>1, <2>1
  <2>3. u[n + 1] \in T
      BY <2>1, ElementOfSeq
  <2>4. w[u[n + 1]] \in Seq(R) /\ g[n] \in Seq(R)
      BY <1>3, <2>1, <2>3
  <2>5. w[u[n + 1]] \o g[n] \in Seq(R)
      BY <2>4, ConcatProperties
  <2> QED BY <2>2, <2>5
<1>4. Len(u) \in S
  <2> HIDE DEF S
  <2> QED BY <1>2, <1>3, SetInduction
<1> QED BY <1>1, <1>4

\* and what waits for two parts is in the queue in reverse order.
LEMMA WaitingConcat ==
    ASSUME NEW T, NEW R, NEW w, \A x \in T : w[x] \in Seq(R), NEW u \in Seq(T), NEW v \in Seq(T)
    PROVE  Waiting(w, u \o v) = Waiting(w, v) \o Waiting(w, u)
<1> DEFINE s == u \o v
<1>1. /\ s \in Seq(T) /\ Len(u) \in Nat /\ Len(v) \in Nat /\ Len(s) = Len(u) + Len(v)
      /\ \A i \in 1 .. Len(u) : s[i] = u[i]
      /\ \A i \in 1 .. Len(u) + Len(v) : i > Len(u) => s[i] = v[i - Len(u)]
    BY ConcatElements
<1>0. s \in Seq(T)
    BY <1>1
<1> HIDE DEF s
<1>2. PICK f : /\ f[0] = <<>>
               /\ \A i \in 1 .. Len(s) : f[i] = w[s[i]] \o f[i - 1]
               /\ Waiting(w, s) = f[Len(s)]
    BY <1>0, WaitingExists
<1>3. PICK g : /\ g[0] = <<>>
               /\ \A i \in 1 .. Len(u) : g[i] = w[u[i]] \o g[i - 1]
               /\ Waiting(w, u) = g[Len(u)]
    BY WaitingExists
<1>4. PICK k : /\ k[0] = <<>>
               /\ \A i \in 1 .. Len(v) : k[i] = w[v[i]] \o k[i - 1]
               /\ Waiting(w, v) = k[Len(v)]
    BY WaitingExists
<1>5. f[Len(u)] = g[Len(u)] /\ g[Len(u)] \in Seq(R)
  <2> DEFINE S == {n \in Nat : n <= Len(u) => f[n] = g[n] /\ g[n] \in Seq(R)}
  <2>1. 0 \in S
    <3>1. <<>> \in Seq(R)
        OBVIOUS
    <3> QED BY <1>2, <1>3, <3>1
  <2>2. ASSUME NEW n \in Nat, n \in S
        PROVE  n + 1 \in S
    <3> SUFFICES ASSUME n + 1 <= Len(u)
                 PROVE  f[n + 1] = g[n + 1] /\ g[n + 1] \in Seq(R)
        OBVIOUS
    <3>1. n + 1 \in 1 .. Len(u) /\ n + 1 \in 1 .. Len(s) /\ (n + 1) - 1 = n /\ n <= Len(u)
        BY <1>1
    <3>2. f[n + 1] = w[s[n + 1]] \o f[n] /\ g[n + 1] = w[u[n + 1]] \o g[n]
        BY <1>2, <1>3, <3>1
    <3>3. f[n] = g[n] /\ s[n + 1] = u[n + 1] /\ g[n] \in Seq(R)
        BY <1>1, <2>2, <3>1
    <3>4. w[u[n + 1]] \in Seq(R)
      <4>1. u[n + 1] \in T
          BY <3>1, ElementOfSeq
      <4> QED BY <4>1
    <3>5. w[u[n + 1]] \o g[n] \in Seq(R)
        BY <3>3, <3>4, ConcatProperties
    <3> QED BY <3>2, <3>3, <3>5
  <2>3. Len(u) \in S
    <3> HIDE DEF S
    <3> QED BY <1>1, <2>1, <2>2, SetInduction
  <2> QED BY <1>1, <2>3
<1>6. f[Len(u) + Len(v)] = k[Len(v)] \o g[Len(u)] /\ k[Len(v)] \in Seq(R)
  <2> DEFINE S == {n \in Nat : n <= Len(v) =>
                      f[Len(u) + n] = k[n] \o g[Len(u)] /\ k[n] \in Seq(R)}
  <2>1. 0 \in S
    <3>1. Len(u) + 0 = Len(u)
        BY <1>1
    <3>2. <<>> \o g[Len(u)] = g[Len(u)] /\ <<>> \in Seq(R)
        BY <1>5, ConcatEmptySeq
    <3> QED BY <1>4, <1>5, <3>1, <3>2
  <2>2. ASSUME NEW n \in Nat, n \in S
        PROVE  n + 1 \in S
    <3>0. n + 1 \in Nat
        OBVIOUS
    <3> SUFFICES ASSUME n + 1 <= Len(v)
                 PROVE  f[Len(u) + (n + 1)] = k[n + 1] \o g[Len(u)] /\ k[n + 1] \in Seq(R)
        BY <3>0, Zenon
    <3> DEFINE m == Len(u) + (n + 1)
    <3>1. /\ n + 1 \in 1 .. Len(v) /\ (n + 1) - 1 = n /\ n <= Len(v)
          /\ m \in 1 .. Len(s) /\ m \in 1 .. Len(u) + Len(v) /\ m - 1 = Len(u) + n
          /\ m > Len(u) /\ m - Len(u) = n + 1
        BY <1>1
    <3> HIDE DEF m
    <3>2. f[m] = w[s[m]] \o f[Len(u) + n] /\ k[n + 1] = w[v[n + 1]] \o k[n]
        BY <1>2, <1>4, <3>1
    <3>3. f[Len(u) + n] = k[n] \o g[Len(u)] /\ s[m] = v[n + 1] /\ k[n] \in Seq(R)
        BY <1>1, <2>2, <3>1
    <3>4. w[v[n + 1]] \in Seq(R)
      <4>1. v[n + 1] \in T
          BY <3>1, ElementOfSeq
      <4> QED BY <4>1
    <3>5. w[v[n + 1]] \o k[n] \in Seq(R)
        BY <3>3, <3>4, ConcatProperties
    <3>6. (w[v[n + 1]] \o k[n]) \o g[Len(u)] = w[v[n + 1]] \o (k[n] \o g[Len(u)])
      <4> DEFINE a == w[v[n + 1]]
                 b == k[n]
                 d == g[Len(u)]
      <4>1. a \in Seq(R) /\ b \in Seq(R) /\ d \in Seq(R)
          BY <1>5, <3>3, <3>4
      <4> HIDE DEF a, b, d
      <4>2. (a \o b) \o d = a \o (b \o d)
          BY <4>1, ConcatAssociative
      <4> QED BY <4>2 DEF a, b, d
    <3>7. f[m] = k[n + 1] \o g[Len(u)] /\ k[n + 1] \in Seq(R)
        BY <3>2, <3>3, <3>5, <3>6
    <3> QED BY <3>7 DEF m
  <2>3. Len(v) \in S
    <3> HIDE DEF S
    <3> QED BY <1>1, <2>1, <2>2, SetInduction
  <2>4. Len(v) <= Len(v)
      BY <1>1
  <2> QED BY <2>3, <2>4, Zenon
<1> QED BY <1>1, <1>2, <1>3, <1>4, <1>5, <1>6 DEF s

\* The ends of a queue.
LEMMA QueueEnd ==
    ASSUME NEW R, NEW s \in Seq(R), NEW x \in R
    PROVE  Last(s \o <<x>>) = x /\ Front(s \o <<x>>) = s
<1>1. /\ s \o <<x>> \in Seq(R) /\ Len(s \o <<x>>) = Len(s) + 1 /\ Len(s) \in Nat
      /\ (s \o <<x>>)[Len(s) + 1] = x
      /\ \A i \in 1 .. Len(s) : (s \o <<x>>)[i] = s[i]
    OBVIOUS
<1>2. Last(s \o <<x>>) = x
    BY <1>1 DEF Last
<1>3. Front(s \o <<x>>) = [i \in 1 .. Len(s) |-> s[i]]
    BY <1>1 DEF Front
<1>4. s = [i \in 1 .. Len(s) |-> s[i]]
    OBVIOUS
<1> QED BY <1>2, <1>3, <1>4

\* The head of a single sequence.
LEMMA HeadOfPair ==
    ASSUME NEW x
    PROVE  Head(<<x>>) = x
OBVIOUS

\* The nodes that calculate_subtree puts a temporary node for.
Waits(c, height, x) == Many(c, x) /\ Len(x) \in height .. height + SubtreeHeight - 1

\* The entries of its layers, and the rows of the queue.
Risen(c, height) ==
    [x \in BitSeqs |-> At(IF Waits(c, height, x) THEN TempNode ELSE NodeAt(c, x), Len(x) - height)]

\* The rows of a place at the depth of a layer: its own entry, or those of
\* the subtree that goes on.
Row(c, height, x) == RowOf(Items(c, height), NormalFront(c)[height + SubtreeHeight - Len(x)][x])

\* What the queue holds for a place: its rows when its node is a temporary
\* one.
Queued(c, height) == [x \in BitSeqs |-> IF Waits(c, height, x) THEN <<Row(c, height, x)>> ELSE <<>>]

\* The entries of a subtree.
ItemSet(c, height) == {Items(c, height)[x] : x \in BitSeqs}

\* A row is the entry of the place, or the rows of its halves.
LEMMA RowIs ==
    ASSUME NEW c, NEW height \in Nat, NEW x \in BitSeqs, Len(x) \in height .. height + SubtreeHeight
    PROVE  /\ Row(c, height, x) \in Seq(ItemSet(c, height))
           /\ ~Waits(c, height, x) => Row(c, height, x) = <<Risen(c, height)[x]>>
           /\ Waits(c, height, x) =>
                  Row(c, height, x) = Row(c, height, Append(x, 0)) \o Row(c, height, Append(x, 1))
<1> DEFINE n == height + SubtreeHeight - Len(x)
           I == Items(c, height)
           N == NormalFront(c)
           T == ItemSet(c, height)
<1>0. SubtreeHeight \in Nat /\ Len(x) \in Nat /\ n \in 0 .. SubtreeHeight /\ n \in Nat /\ n <= SubtreeHeight
    BY SparseMerkleTreeAssumption DEF BitSeqs
<1>1. \A y \in BitSeqs : I[y] \in T
    BY DEF ItemSet
<1>2. N[n][x] \in Seq(BitSeqs)
  <2>1. N[n][x] \in Fronts[n][x]
      BY <1>0, NormalIsFront
  <2> HIDE DEF n
  <2> QED BY <1>0, <2>1, FrontType
<1>3. Row(c, height, x) = RowOf(I, N[n][x])
    BY DEF Row
<1>4. RowOf(I, N[n][x]) \in Seq(T)
  <2> HIDE DEF I, T, N, n
  <2> QED BY <1>1, <1>2, RowType
<1>5. ASSUME ~Waits(c, height, x)
      PROVE  Row(c, height, x) = <<Risen(c, height)[x]>>
  <2>1. n = 0 \/ ~Many(c, x)
      BY <1>0, <1>5 DEF Waits
  <2> HIDE DEF n, N, I
  <2>2. N[n][x] = <<x>>
      BY <1>0, <2>1, NormalEnds DEF N
  <2>3. RowOf(I, <<x>>) = <<I[x]>>
      BY RowSingle
  <2>4. I[x] = Risen(c, height)[x]
      BY <1>5 DEF I, Items, Risen
  <2> QED BY <1>3, <2>2, <2>3, <2>4
<1>6. ASSUME Waits(c, height, x)
      PROVE  Row(c, height, x) = Row(c, height, Append(x, 0)) \o Row(c, height, Append(x, 1))
  <2> DEFINE u == N[n - 1][Append(x, 0)]
             v == N[n - 1][Append(x, 1)]
  <2>1. n > 0 /\ Many(c, x) /\ n - 1 \in 0 .. SubtreeHeight /\ n - 1 \in Nat /\ n - 1 <= SubtreeHeight
      BY <1>0, <1>6 DEF Waits
  <2>2. Append(x, 0) \in BitSeqs /\ Append(x, 1) \in BitSeqs
            /\ Len(Append(x, 0)) = Len(x) + 1 /\ Len(Append(x, 1)) = Len(x) + 1
      BY AppendBit
  <2>3. height + SubtreeHeight - Len(Append(x, 0)) = n - 1
            /\ height + SubtreeHeight - Len(Append(x, 1)) = n - 1
      BY <1>0, <2>2
  <2> HIDE DEF n
  <2>4. N[n][x] = u \o v
      BY <1>0, <2>1, NormalParts
  <2>5. u \in Seq(BitSeqs) /\ v \in Seq(BitSeqs)
    <3>1. u \in Fronts[n - 1][Append(x, 0)] /\ v \in Fronts[n - 1][Append(x, 1)]
        BY <2>1, <2>2, NormalIsFront
    <3> HIDE DEF u, v
    <3> QED BY <2>1, <2>2, <3>1, FrontType
  <2>6. Row(c, height, Append(x, 0)) = RowOf(I, u) /\ Row(c, height, Append(x, 1)) = RowOf(I, v)
      BY <2>3 DEF Row
  <2> HIDE DEF u, v, I
  <2>7. RowOf(I, u \o v) = RowOf(I, u) \o RowOf(I, v)
      BY <2>5, RowConcat
  <2> QED BY <1>3, <2>4, <2>6, <2>7 DEF I
<1> QED BY <1>3, <1>4, <1>5, <1>6

\* The queue holds rows.
LEMMA QueuedType ==
    ASSUME NEW c, NEW height \in Nat, NEW x \in BitSeqs
    PROVE  Queued(c, height)[x] \in Seq(Seq(ItemSet(c, height)))
<1> DEFINE R == Seq(ItemSet(c, height))
<1>1. CASE Waits(c, height, x)
  <2>1. Len(x) \in height .. height + SubtreeHeight
      BY <1>1, SparseMerkleTreeAssumption DEF Waits
  <2>2. Row(c, height, x) \in R
      BY <2>1, RowIs
  <2>3. Queued(c, height)[x] = <<Row(c, height, x)>>
      BY <1>1 DEF Queued
  <2> HIDE DEF R
  <2>4. <<Row(c, height, x)>> \in Seq(R)
      BY <2>2
  <2> QED BY <2>3, <2>4 DEF R
<1>2. CASE ~Waits(c, height, x)
    BY <1>2 DEF Queued
<1> QED BY <1>1, <1>2

\* The kind of a node says how many keys are below it.
LEMMA NodeKinds ==
    ASSUME NEW c, IsContents(c), NEW x
    PROVE  /\ Below(DOMAIN c, x) = {} => NodeAt(c, x).kind = "empty"
           /\ (\E k : Below(DOMAIN c, x) = {k}) => NodeAt(c, x).kind = "leaf"
           /\ Many(c, x) => NodeAt(c, x).kind = "stub"
<1>1. \A k : Below(DOMAIN c, x) = {k} => NodeAt(c, x) = LeafNode(k, c[k])
    BY NodeForms
<1>2. \A k, v : LeafNode(k, v).kind = "leaf"
    BY DEF LeafNode
<1>3. (\E k : Below(DOMAIN c, x) = {k}) => NodeAt(c, x).kind = "leaf"
    BY <1>1, <1>2
<1>4. Below(DOMAIN c, x) = {} => NodeAt(c, x).kind = "empty"
    BY NodeForms DEF EmptyNode
<1>5. Many(c, x) => NodeAt(c, x).kind = "stub"
    BY NodeForms DEF StubNode
<1> QED BY <1>3, <1>4, <1>5

\* The kind of an entry of a layer: a temporary node where the rows wait in
\* the queue.
LEMMA RisenKinds ==
    ASSUME NEW c, IsContents(c), NEW height, NEW x \in BitSeqs
    PROVE  /\ Below(DOMAIN c, x) = {} => Risen(c, height)[x].node.kind = "empty"
           /\ \A k : Below(DOMAIN c, x) = {k} => Risen(c, height)[x].node.kind = "leaf"
           /\ Many(c, x) => Risen(c, height)[x].node.kind \in {"stub", "temp"}
           /\ Risen(c, height)[x].node.kind = "temp" <=> Waits(c, height, x)
           /\ ~Many(c, x) => Risen(c, height)[x].node = NodeAt(c, x)
           /\ Risen(c, height)[x].pos = Len(x) - height
<1>1. Risen(c, height)[x] = At(IF Waits(c, height, x) THEN TempNode ELSE NodeAt(c, x), Len(x) - height)
    BY DEF Risen
<1>2. CASE Below(DOMAIN c, x) = {}
  <2>1. ~Many(c, x)
      BY <1>2, FormsDiffer
  <2> QED BY <1>1, <1>2, <2>1, NodeKinds DEF At, Waits
<1>3. CASE \E k : Below(DOMAIN c, x) = {k}
  <2>1. ~Many(c, x)
      BY <1>3, FormsDiffer
  <2>2. NodeAt(c, x).kind = "leaf" /\ Below(DOMAIN c, x) # {}
      BY <1>3, NodeKinds
  <2>3. ~Waits(c, height, x)
      BY <2>1 DEF Waits
  <2>4. Risen(c, height)[x].node = NodeAt(c, x) /\ Risen(c, height)[x].pos = Len(x) - height
      BY <1>1, <2>3 DEF At
  <2> QED BY <1>3, <2>1, <2>2, <2>3, <2>4
<1>4. CASE Many(c, x)
  <2>1. Below(DOMAIN c, x) # {} /\ \A k : Below(DOMAIN c, x) # {k}
      BY <1>4, FormsDiffer
  <2>2. NodeAt(c, x).kind = "stub" /\ TempNode.kind = "temp"
      BY <1>4, NodeKinds DEF TempNode
  <2>3. /\ Waits(c, height, x) => Risen(c, height)[x].node.kind = "temp"
        /\ ~Waits(c, height, x) => Risen(c, height)[x].node.kind = "stub"
        /\ Risen(c, height)[x].pos = Len(x) - height
      BY <1>1, <2>2 DEF At
  <2> QED BY <1>4, <2>1, <2>3
<1> QED BY <1>2, <1>3, <1>4, Forms

\* Without keys it is the empty node,
LEMMA RisenEmpty ==
    ASSUME NEW c, IsContents(c), NEW height, NEW x \in BitSeqs, Below(DOMAIN c, x) = {}
    PROVE  Risen(c, height)[x].node.kind = "empty" /\ Risen(c, height)[x].node = NodeAt(c, x)
BY RisenKinds, FormsDiffer

\* with one its leaf,
LEMMA RisenLeaf ==
    ASSUME NEW c, IsContents(c), NEW height, NEW x \in BitSeqs, NEW k, Below(DOMAIN c, x) = {k}
    PROVE  Risen(c, height)[x].node.kind = "leaf" /\ Risen(c, height)[x].node = NodeAt(c, x)
<1>1. ~Many(c, x)
    BY FormsDiffer
<1>2. \A j : Below(DOMAIN c, x) = {j} => Risen(c, height)[x].node.kind = "leaf"
    BY RisenKinds, ZenonT(40)
<1>3. Risen(c, height)[x].node = NodeAt(c, x)
    BY <1>1, RisenKinds
<1> QED BY <1>2, <1>3

\* and with more a stub or a temporary node,
LEMMA RisenMany ==
    ASSUME NEW c, IsContents(c), NEW height, NEW x \in BitSeqs, Many(c, x)
    PROVE  Risen(c, height)[x].node.kind \in {"stub", "temp"}
BY RisenKinds

\* the latter just where rows wait.
LEMMA RisenTemp ==
    ASSUME NEW c, IsContents(c), NEW height, NEW x \in BitSeqs
    PROVE  Risen(c, height)[x].node.kind = "temp" <=> Waits(c, height, x)
BY RisenKinds

\* The kinds of the two halves of a path with at most one key.
LEMMA HalvesOfFew ==
    ASSUME NEW c, IsContents(c), NEW q \in Paths, Len(q) < KeyBits, ~Many(c, q)
    PROVE  LET l == Append(q, 0)
               r == Append(q, 1)
               E(x) == Below(DOMAIN c, x) = {}
               L(x) == \E k : Below(DOMAIN c, x) = {k}
           IN  \/ E(l) /\ E(r) /\ NodeAt(c, q) = NodeAt(c, l)
               \/ L(l) /\ E(r) /\ NodeAt(c, q) = NodeAt(c, l)
               \/ E(l) /\ L(r) /\ NodeAt(c, q) = NodeAt(c, r)
<1> DEFINE l == Append(q, 0)
           r == Append(q, 1)
           K == DOMAIN c
<1>0. K \in SUBSET Keys
    BY DEF IsContents
<1> HIDE DEF K
<1>1. /\ Below(K, l) = {k \in Below(K, q) : k[Len(q) + 1] = 0}
      /\ Below(K, r) = {k \in Below(K, q) : k[Len(q) + 1] = 1}
    BY <1>0, BelowParts
<1>2. CASE Below(K, q) = {}
  <2>1. Below(K, l) = {} /\ Below(K, r) = {}
      BY <1>1, <1>2
  <2>2. NodeAt(c, q) = EmptyNode /\ NodeAt(c, l) = EmptyNode
      BY <1>2, <2>1, NodeForms DEF K
  <2> QED BY <2>1, <2>2 DEF K
<1>3. ASSUME NEW k, Below(K, q) = {k}
      PROVE  \/ Below(K, l) = {k} /\ Below(K, r) = {}
             \/ Below(K, l) = {} /\ Below(K, r) = {k}
  <2>1. k \in Keys
      BY <1>0, <1>3 DEF Below
  <2>2. k[Len(q) + 1] \in {0, 1}
    <3>1. Len(q) + 1 \in 1 .. Len(k) /\ k \in BitSeqs
        BY <2>1, KeyIsPath, PathLength
    <3> QED BY <3>1, ElementOfSeq DEF BitSeqs
  <2> QED BY <1>1, <1>3, <2>2
<1>4. ASSUME NEW k, Below(K, q) = {k}
      PROVE  \/ (\E j : Below(K, l) = {j}) /\ Below(K, r) = {} /\ NodeAt(c, q) = NodeAt(c, l)
             \/ Below(K, l) = {} /\ (\E j : Below(K, r) = {j}) /\ NodeAt(c, q) = NodeAt(c, r)
  <2>1. \A x : Below(K, x) = {k} => NodeAt(c, x) = LeafNode(k, c[k])
      BY NodeForms DEF K
  <2>2. NodeAt(c, q) = LeafNode(k, c[k])
      BY <1>4, <2>1
  <2> HIDE DEF l, r
  <2> QED BY <1>3, <1>4, <2>1, <2>2
<1>5. Below(K, q) = {} \/ \E k : Below(K, q) = {k}
    BY Forms DEF K
<1> QED BY <1>2, <1>4, <1>5 DEF K

\* Two neighbours that do not become one node.
Parts(l, r) ==
    <<l.node.kind, r.node.kind>> \notin
        {<<"empty", "empty">>, <<"leaf", "empty">>, <<"empty", "leaf">>}

\* The row a of an entry, and what it keeps in the queue.
Holds(l, a, w) == IF l.node.kind = "temp" THEN w = <<a>> ELSE w = <<>> /\ a = <<l>>

\* A temporary node with the rows of both halves at the head of the queue.
Merged(a, b, X) == [node |-> TempNode, map |-> <<a \o b>> \o X]

\* The four ways a temporary node takes its rows from the queue.
LEMMA ParentTakes ==
    ASSUME NEW R, NEW X \in Seq(R), NEW l, NEW r, NEW a \in R, NEW b \in R,
           NEW wl \in Seq(R), NEW wr \in Seq(R),
           Parts(l, r), Holds(l, a, wl), Holds(r, b, wr)
    PROVE  GetParentNode(X \o (wr \o wl), l, r) = Merged(a, b, X)
<1>0. /\ Parts(l, r)
      /\ IF l.node.kind = "temp" THEN wl = <<a>> ELSE wl = <<>> /\ a = <<l>>
      /\ IF r.node.kind = "temp" THEN wr = <<b>> ELSE wr = <<>> /\ b = <<r>>
    BY DEF Holds
<1> DEFINE map == X \o (wr \o wl)
           lt == l.node.kind = "temp"
           rt == r.node.kind = "temp"
           rest == IF lt THEN Front(map) ELSE map
<1>1. /\ (IF lt THEN Last(map) ELSE <<l>>) = a
      /\ rest = X \o wr
  <2>1. X \o wr \in Seq(R) /\ (X \o wr) \o wl = map
      BY ConcatProperties, ConcatAssociative
  <2>2. CASE lt
    <3>1. map = (X \o wr) \o <<a>>
        BY <1>0, <2>1, <2>2
    <3> DEFINE s == X \o wr
    <3>2. s \in Seq(R)
        BY <2>1
    <3> HIDE DEF map, s
    <3>3. map = s \o <<a>>
        BY <3>1 DEF s
    <3>4. Last(map) = a /\ Front(map) = s
        BY <3>2, <3>3, QueueEnd
    <3>5. Last(map) = a /\ Front(map) = X \o wr
        BY <3>4 DEF s
    <3> QED BY <2>2, <3>5
  <2>3. CASE ~lt
    <3>1. wl = <<>> /\ a = <<l>>
        BY <1>0, <2>3
    <3>2. map = X \o wr
        BY <2>1, <3>1, ConcatEmptySeq
    <3> HIDE DEF map
    <3> QED BY <2>3, <3>1, <3>2
  <2> QED BY <2>2, <2>3
<1>2. /\ (IF rt THEN Last(rest) ELSE <<r>>) = b
      /\ (IF rt THEN Front(rest) ELSE rest) = X
  <2> HIDE DEF rest
  <2>2. CASE rt
    <3>1. rest = X \o <<b>>
        BY <1>0, <1>1, <2>2
    <3>2. Last(rest) = b /\ Front(rest) = X
        BY <3>1, QueueEnd
    <3> QED BY <2>2, <3>2
  <2>3. CASE ~rt
    <3>1. wr = <<>> /\ b = <<r>>
        BY <1>0, <2>3
    <3>2. rest = X
        BY <1>1, <3>1, ConcatEmptySeq
    <3> QED BY <2>3, <3>1, <3>2
  <2> QED BY <2>2, <2>3
<1>3. GetParentNode(map, l, r) =
          [node |-> TempNode,
           map |-> <<(IF lt THEN Last(map) ELSE <<l>>) \o (IF rt THEN Last(rest) ELSE <<r>>)>>
                       \o (IF rt THEN Front(rest) ELSE rest)]
  <2>1. /\ <<l.node.kind, r.node.kind>> \notin {<<"empty", "empty">>, <<"leaf", "empty">>}
        /\ <<l.node.kind, r.node.kind>> # <<"empty", "leaf">>
      BY <1>0 DEF Parts
  <2> HIDE DEF map
  <2> QED BY <2>1, Zenon DEF GetParentNode
<1> HIDE DEF rest, map
<1>4. GetParentNode(map, l, r) = [node |-> TempNode, map |-> <<a \o b>> \o X]
  <2> DEFINE p1 == IF lt THEN Last(map) ELSE <<l>>
             p2 == IF rt THEN Last(rest) ELSE <<r>>
             p3 == IF rt THEN Front(rest) ELSE rest
  <2>1. p1 = a /\ p2 = b /\ p3 = X
      BY <1>1, <1>2
  <2>2. GetParentNode(map, l, r) = [node |-> TempNode, map |-> <<p1 \o p2>> \o p3]
      BY <1>3
  <2> HIDE DEF p1, p2, p3
  <2> QED BY <2>1, <2>2
<1> QED BY <1>4 DEF map, Merged

\* Two neighbours become the entry of the path above.
LEMMA ParentIs ==
    ASSUME NEW c, IsContents(c), NEW height \in Nat, NEW q \in Paths, Len(q) < KeyBits,
           Len(q) \in height .. height + SubtreeHeight - 1,
           NEW X \in Seq(Seq(ItemSet(c, height)))
    PROVE  GetParentNode(X \o (Queued(c, height)[Append(q, 1)] \o Queued(c, height)[Append(q, 0)]),
                         Risen(c, height)[Append(q, 0)], Risen(c, height)[Append(q, 1)])
               = [node |-> Risen(c, height)[q].node, map |-> Queued(c, height)[q] \o X]
<1> DEFINE y == Append(q, 0)
           z == Append(q, 1)
           l == Risen(c, height)[y]
           r == Risen(c, height)[z]
           Q == Queued(c, height)
           R == Seq(ItemSet(c, height))
           map == X \o (Q[z] \o Q[y])
<1>0. /\ q \in BitSeqs /\ Len(q) \in Nat /\ SubtreeHeight \in Nat
      /\ y \in BitSeqs /\ z \in BitSeqs /\ Len(y) = Len(q) + 1 /\ Len(z) = Len(q) + 1
    BY PathLength, AppendBit, SparseMerkleTreeAssumption
<1>1. Q[y] \in Seq(R) /\ Q[z] \in Seq(R)
    BY <1>0, QueuedType
<1>2. CASE ~Many(c, q)
  <2>1. \/ l.node.kind = "empty" /\ r.node.kind = "empty" /\ NodeAt(c, q) = l.node
        \/ l.node.kind = "leaf" /\ r.node.kind = "empty" /\ NodeAt(c, q) = l.node
        \/ l.node.kind = "empty" /\ r.node.kind = "leaf" /\ NodeAt(c, q) = r.node
    <3>1. /\ Below(DOMAIN c, y) = {} => l.node.kind = "empty" /\ l.node = NodeAt(c, y)
          /\ Below(DOMAIN c, z) = {} => r.node.kind = "empty" /\ r.node = NodeAt(c, z)
        BY <1>0, RisenEmpty
    <3>3. ASSUME NEW k, Below(DOMAIN c, y) = {k}
          PROVE  l.node.kind = "leaf" /\ l.node = NodeAt(c, y)
        BY <1>0, <3>3, RisenLeaf
    <3>4. ASSUME NEW k, Below(DOMAIN c, z) = {k}
          PROVE  r.node.kind = "leaf" /\ r.node = NodeAt(c, z)
        BY <1>0, <3>4, RisenLeaf
    <3> HIDE DEF l, r
    <3>2. \/ Below(DOMAIN c, y) = {} /\ Below(DOMAIN c, z) = {} /\ NodeAt(c, q) = NodeAt(c, y)
          \/ (\E k : Below(DOMAIN c, y) = {k}) /\ Below(DOMAIN c, z) = {} /\ NodeAt(c, q) = NodeAt(c, y)
          \/ Below(DOMAIN c, y) = {} /\ (\E k : Below(DOMAIN c, z) = {k}) /\ NodeAt(c, q) = NodeAt(c, z)
        BY <1>2, HalvesOfFew
    <3> HIDE DEF y, z
    <3> QED BY <3>1, <3>2, <3>3, <3>4
  <2>2. l.node.kind # "temp" /\ r.node.kind # "temp"
      BY <2>1
  <2>3. Q[y] = <<>> /\ Q[z] = <<>> /\ Q[q] = <<>>
    <3>1. ~Waits(c, height, y) /\ ~Waits(c, height, z)
        BY <1>0, <2>2, RisenKinds
    <3>2. ~Waits(c, height, q)
        BY <1>2 DEF Waits
    <3> HIDE DEF y, z
    <3> QED BY <1>0, <3>1, <3>2 DEF Queued
  <2>4. Risen(c, height)[q].node = NodeAt(c, q)
      BY <1>0, <1>2, RisenKinds
  <2>5. map = X /\ Q[q] \o X = X
    <3>1. <<>> \o <<>> = <<>> /\ X \o <<>> = X /\ <<>> \o X = X
        BY ConcatEmptySeq
    <3> QED BY <2>3, <3>1
  <2> HIDE DEF l, r, map, Q
  <2>6. GetParentNode(map, l, r) = [node |-> NodeAt(c, q), map |-> map]
    <3>1. CASE l.node.kind \in {"empty", "leaf"} /\ r.node.kind = "empty" /\ NodeAt(c, q) = l.node
      <4>1. <<l.node.kind, r.node.kind>> \in {<<"empty", "empty">>, <<"leaf", "empty">>}
          BY <3>1
      <4>2. GetParentNode(map, l, r) = [node |-> l.node, map |-> map]
          BY <4>1, Zenon DEF GetParentNode
      <4> QED BY <3>1, <4>2
    <3>2. CASE l.node.kind = "empty" /\ r.node.kind = "leaf" /\ NodeAt(c, q) = r.node
      <4>1. /\ <<l.node.kind, r.node.kind>> \notin {<<"empty", "empty">>, <<"leaf", "empty">>}
            /\ <<l.node.kind, r.node.kind>> = <<"empty", "leaf">>
          BY <3>2
      <4>2. GetParentNode(map, l, r) = [node |-> r.node, map |-> map]
          BY <4>1, Zenon DEF GetParentNode
      <4> QED BY <3>2, <4>2
    <3> QED BY <2>1, <3>1, <3>2
  <2> QED BY <2>4, <2>5, <2>6 DEF l, r, map, Q
<1>3. CASE Many(c, q)
  <2> DEFINE a == Row(c, height, y)
             b == Row(c, height, z)
  <2>1. Parts(l, r)
    <3>1. /\ Many(c, y) => l.node.kind \in {"stub", "temp"}
          /\ Many(c, z) => r.node.kind \in {"stub", "temp"}
        BY <1>0, RisenMany
    <3>3. ASSUME NEW k, Below(DOMAIN c, y) = {k}
          PROVE  l.node.kind = "leaf"
        BY <1>0, <3>3, RisenLeaf
    <3>4. ASSUME NEW k, Below(DOMAIN c, z) = {k}
          PROVE  r.node.kind = "leaf"
        BY <1>0, <3>4, RisenLeaf
    <3> HIDE DEF l, r
    <3>2. Many(c, y) \/ Many(c, z) \/ ((\E k : Below(DOMAIN c, y) = {k}) /\ \E k : Below(DOMAIN c, z) = {k})
      <4>1. ASSUME ~Many(c, y), ~Many(c, z)
            PROVE  (\E k : Below(DOMAIN c, y) = {k}) /\ \E k : Below(DOMAIN c, z) = {k}
        <5>1. \E k, j \in Keys : Below(DOMAIN c, y) = {k} /\ Below(DOMAIN c, z) = {j}
            BY <1>3, <4>1, PartAt DEF y, z
        <5> QED BY <5>1
      <4> QED BY <4>1
    <3> HIDE DEF y, z
    <3> QED BY <3>1, <3>2, <3>3, <3>4 DEF Parts
  <2>2. Waits(c, height, q) /\ Q[q] = <<Row(c, height, q)>> /\ Risen(c, height)[q].node = TempNode
    <3>1. Waits(c, height, q)
        BY <1>3 DEF Waits
    <3> QED BY <1>0, <3>1 DEF Queued, Risen, At
  <2>3. Row(c, height, q) = a \o b
      BY <1>0, <2>2, RowIs
  <2>4. /\ a \in R /\ (l.node.kind # "temp" => a = <<l>>)
        /\ b \in R /\ (r.node.kind # "temp" => b = <<r>>)
    <3>1. Len(y) \in height .. height + SubtreeHeight /\ Len(z) \in height .. height + SubtreeHeight
        BY <1>0
    <3>3. l.node.kind = "temp" <=> Waits(c, height, y)
        BY <1>0, RisenTemp
    <3>4. r.node.kind = "temp" <=> Waits(c, height, z)
        BY <1>0, RisenTemp
    <3>5. a \in R /\ (~Waits(c, height, y) => a = <<l>>)
        BY <1>0, <3>1, RowIs
    <3>6. b \in R /\ (~Waits(c, height, z) => b = <<r>>)
        BY <1>0, <3>1, RowIs
    <3> HIDE DEF a, b, l, r, y, z, R
    <3> QED BY <3>3, <3>4, <3>5, <3>6
  <2>5. Holds(l, a, Q[y]) /\ Holds(r, b, Q[z])
    <3>2. \A x \in BitSeqs : Q[x] = IF Waits(c, height, x) THEN <<Row(c, height, x)>> ELSE <<>>
        BY DEF Queued
    <3>3. l.node.kind = "temp" <=> Waits(c, height, y)
        BY <1>0, RisenTemp
    <3>4. r.node.kind = "temp" <=> Waits(c, height, z)
        BY <1>0, RisenTemp
    <3>5. Q[y] = IF Waits(c, height, y) THEN <<a>> ELSE <<>>
        BY <1>0, <3>2
    <3>6. Q[z] = IF Waits(c, height, z) THEN <<b>> ELSE <<>>
        BY <1>0, <3>2
    <3> HIDE DEF a, b, l, r, y, z, Q
    <3> QED BY <2>4, <3>3, <3>4, <3>5, <3>6 DEF Holds
  <2> HIDE DEF a, b, l, r, Q, R, y, z
  <2>6. X \in Seq(R)
      BY DEF R
  <2>7. GetParentNode(X \o (Q[z] \o Q[y]), l, r) = [node |-> TempNode, map |-> <<a \o b>> \o X]
    <3> DEFINE wl == Q[y]
               wr == Q[z]
    <3>1. wl \in Seq(R) /\ wr \in Seq(R)
        BY <1>1
    <3>2. Holds(l, a, wl)
        BY <2>5
    <3>3. Holds(r, b, wr)
        BY <2>5
    <3>4. a \in R /\ b \in R
        BY <2>4
    <3> HIDE DEF wl, wr
    <3>5. GetParentNode(X \o (wr \o wl), l, r) = Merged(a, b, X)
        BY <2>1, <2>6, <3>1, <3>2, <3>3, <3>4, ParentTakes
    <3> QED BY <3>5 DEF wl, wr, Merged
  <2> QED BY <2>2, <2>3, <2>7 DEF Q, l, r, y, z
<1> QED BY <1>2, <1>3

\* What Push works on.
Acc(layer, map) == [layer |-> layer, map |-> map]

\* The entries of a layer.
RisenSet(c, height) == {Risen(c, height)[x] : x \in BitSeqs}

\* A group of one is passed on.
LEMMA PushAlone ==
    ASSUME NEW T, NEW L \in Seq(T), NEW M, NEW x \in T
    PROVE  Push(Acc(L, M), <<x>>) = Acc(L \o <<x>>, M)
<1>1. Len(<<x>>) = 1 /\ <<x>>[1] = x
    OBVIOUS
<1>2. Push(Acc(L, M), <<x>>) = [layer |-> Append(L, x), map |-> M]
    BY <1>1 DEF Push, Acc
<1>3. Append(L, x) = L \o <<x>>
    OBVIOUS
<1> QED BY <1>2, <1>3 DEF Acc

\* A group of two becomes the entry of the place above, and the queue is
\* rearranged for it.
LEMMA PushPair ==
    ASSUME NEW c, IsContents(c), NEW height \in Nat, NEW q \in Paths, Len(q) < KeyBits,
           Len(q) \in height .. height + SubtreeHeight - 1,
           NEW L \in Seq(RisenSet(c, height)), NEW X \in Seq(Seq(ItemSet(c, height)))
    PROVE  Push(Acc(L, X \o (Queued(c, height)[Append(q, 1)] \o Queued(c, height)[Append(q, 0)])),
                <<Risen(c, height)[Append(q, 0)], Risen(c, height)[Append(q, 1)]>>)
               = Acc(L \o <<Risen(c, height)[q]>>, Queued(c, height)[q] \o X)
<1> DEFINE y == Append(q, 0)
           z == Append(q, 1)
           l == Risen(c, height)[y]
           r == Risen(c, height)[z]
           M == X \o (Queued(c, height)[z] \o Queued(c, height)[y])
           W == Queued(c, height)[q] \o X
           e == Risen(c, height)[q]
           g == <<l, r>>
<1>0. /\ q \in BitSeqs /\ Len(q) \in Nat /\ y \in BitSeqs /\ Len(y) = Len(q) + 1
    BY PathLength, AppendBit
<1>1. GetParentNode(M, l, r) = [node |-> e.node, map |-> W]
    BY ParentIs
<1>2. l.pos = Len(y) - height /\ e = At(e.node, Len(q) - height)
    BY <1>0 DEF Risen, At
<1>3. l.pos - 1 = Len(q) - height
    BY <1>0, <1>2
<1>4. e \in RisenSet(c, height)
    BY <1>0 DEF RisenSet
<1> HIDE DEF l, r, M, W, e
<1>5. Len(g) # 1 /\ g[1] = l /\ g[2] = r
    OBVIOUS
<1> HIDE DEF g
<1>6. Push(Acc(L, M), g) = [layer |-> Append(L, At(GetParentNode(M, l, r).node, l.pos - 1)),
                            map |-> GetParentNode(M, l, r).map]
    BY <1>5 DEF Push, Acc
<1>7. Push(Acc(L, M), g) = [layer |-> Append(L, e), map |-> W]
  <2>1. GetParentNode(M, l, r).node = e.node /\ GetParentNode(M, l, r).map = W
      BY <1>1
  <2>2. At(GetParentNode(M, l, r).node, l.pos - 1) = e
      BY <1>2, <1>3, <2>1
  <2> QED BY <1>6, <2>1, <2>2
<1>8. Append(L, e) = L \o <<e>>
    BY <1>4
<1>9. Push(Acc(L, M), g) = Acc(L \o <<e>>, W)
    BY <1>7, <1>8 DEF Acc
<1> QED BY <1>9 DEF g, l, r, M, W, e

\* The branches of a layer are all at its depth.
Ready(c, a, len) == \A i \in 1 .. Len(a) : Many(c, a[i]) => Len(a[i]) = len

\* Pushing gs moves W from the end of the queue to V at its front and adds F.
Pushes(T, R, gs, W, F, V) ==
    \A L \in Seq(T), X \in Seq(R) : Pushed(Acc(L, X \o W), gs) = Acc(L \o F, V \o X)

\* A pass makes b of a: f gives the entries, w what waits in the queue.
Passed(T, R, f, w, h, a, b) ==
    \E gs \in Seq(Seq(T)) :
        /\ Grouped(T, RowOf(f, a), h, gs)
        /\ Pushes(T, R, gs, Waiting(w, a), RowOf(f, b), Waiting(w, b))

\* One pass over the part of a layer that is below q.
Passing(c, height, h, n, q, a) ==
    \E b \in Fronts[n - 1][q] :
        /\ Ready(c, b, height + h - 1)
        /\ Passed(RisenSet(c, height), Seq(ItemSet(c, height)), Risen(c, height), Queued(c, height), h, a, b)

\* A path that ends a branch is left alone.
LEMMA PassAlone ==
    ASSUME NEW c, NEW height \in Nat, NEW h \in Int, NEW n \in 1 .. SubtreeHeight, NEW q \in BitSeqs,
           Len(q) - height + n = h, ~Many(c, q)
    PROVE  Passing(c, height, h, n, q, <<q>>)
<1> DEFINE f == Risen(c, height)
           w == Queued(c, height)
           T == RisenSet(c, height)
           R == Seq(ItemSet(c, height))
           e == f[q]
<1>0. SubtreeHeight \in Nat /\ n - 1 \in 0 .. SubtreeHeight /\ Len(q) \in Nat
    BY SparseMerkleTreeAssumption DEF BitSeqs
<1>1. <<q>> \in Fronts[n - 1][q]
    BY <1>0, FrontIsSingle
<1>2. e \in T /\ e.pos # h
    BY <1>0 DEF RisenSet, Risen, At
<1>3. RowOf(f, <<q>>) = <<e>>
    BY RowSingle
<1>4. w[q] = <<>>
    BY DEF Queued, Waits
<1>5. Waiting(w, <<q>>) = <<>>
  <2>1. w[q] \in Seq(R)
      BY QueuedType
  <2> HIDE DEF w, R
  <2>2. Waiting(w, <<q>>) = w[q]
      BY <2>1, WaitingSingle
  <2> QED BY <1>4, <2>2
<1>6. Ready(c, <<q>>, height + h - 1)
  <2>1. \A i \in 1 .. Len(<<q>>) : <<q>>[i] = q
      OBVIOUS
  <2> QED BY <2>1 DEF Ready
<1> HIDE DEF e, f, w, T, R
<1>7. Grouped(T, <<e>>, h, <<<<e>>>>)
    BY <1>2, GroupSingle
<1>8. <<e>> \in Seq(T) /\ <<<<e>>>> \in Seq(Seq(T))
    BY <1>2
<1>9. ASSUME NEW L \in Seq(T), NEW X \in Seq(R)
      PROVE  Pushed(Acc(L, X \o Waiting(w, <<q>>)), <<<<e>>>>)
                 = Acc(L \o RowOf(f, <<q>>), Waiting(w, <<q>>) \o X)
  <2> DEFINE g == <<e>>
  <2>1. g \in Seq(T)
      BY <1>8
  <2>2. X \o <<>> = X /\ <<>> \o X = X
      BY ConcatEmptySeq
  <2>3. Push(Acc(L, X), <<e>>) = Acc(L \o <<e>>, X)
      BY <1>2, PushAlone
  <2> HIDE DEF g
  <2>4. Pushed(Acc(L, X), <<g>>) = Push(Acc(L, X), g)
      BY <2>1, PushedSingle
  <2> QED BY <1>3, <1>5, <2>2, <2>3, <2>4 DEF g
<1>10. Passed(T, R, f, w, h, <<q>>, <<q>>)
    BY <1>3, <1>7, <1>8, <1>9 DEF Passed, Pushes
<1> QED BY <1>1, <1>6, <1>10 DEF Passing, f, w, T, R

\* Two neighbours at the layer's depth.
LEMMA PassPair ==
    ASSUME NEW c, IsContents(c), NEW height \in Nat, NEW h \in Int, NEW q \in Paths, Len(q) < KeyBits,
           1 <= SubtreeHeight, Len(q) - height + 1 = h, Len(q) \in height .. height + SubtreeHeight - 1
    PROVE  Passing(c, height, h, 1, q, <<Append(q, 0)>> \o <<Append(q, 1)>>)
<1> DEFINE f == Risen(c, height)
           w == Queued(c, height)
           T == RisenSet(c, height)
           R == Seq(ItemSet(c, height))
           y == Append(q, 0)
           z == Append(q, 1)
           l == f[y]
           r == f[z]
           e == f[q]
           a == <<y>> \o <<z>>
           g == <<l, r>>
<1>0. /\ SubtreeHeight \in Nat /\ q \in BitSeqs /\ Len(q) \in Nat
      /\ y \in BitSeqs /\ z \in BitSeqs /\ Len(y) = Len(q) + 1 /\ Len(z) = Len(q) + 1
    BY SparseMerkleTreeAssumption, PathLength, AppendBit
<1>1. <<q>> \in Fronts[1 - 1][q]
  <2>1. 0 \in 0 .. SubtreeHeight /\ 1 - 1 = 0
      BY <1>0
  <2> QED BY <1>0, <2>1, FrontIsSingle
<1>2. l \in T /\ r \in T /\ e \in T /\ l.pos = h
  <2>1. \A x \in BitSeqs : f[x] \in T /\ f[x].pos = Len(x) - height
      BY DEF RisenSet, Risen, At
  <2> HIDE DEF f, T, y, z
  <2> QED BY <1>0, <2>1
<1>3. \A x \in BitSeqs : w[x] \in Seq(R)
    BY QueuedType
<1>4. \A x \in BitSeqs : f[x] \in T
    BY DEF RisenSet
<1>5. Ready(c, <<q>>, height + h - 1)
  <2>1. \A i \in 1 .. Len(<<q>>) : <<q>>[i] = q
      OBVIOUS
  <2> QED BY <1>0, <2>1 DEF Ready
<1>6. ASSUME NEW L \in Seq(T), NEW X \in Seq(R)
      PROVE  Push(Acc(L, X \o (w[z] \o w[y])), g) = Acc(L \o <<e>>, w[q] \o X)
    BY PushPair
<1> HIDE DEF f, w, T, R, y, z
<1>7. <<y>> \in Seq(BitSeqs) /\ <<z>> \in Seq(BitSeqs) /\ <<q>> \in Seq(BitSeqs)
    BY <1>0
<1>8. RowOf(f, a) = <<l>> \o <<r>> /\ RowOf(f, <<q>>) = <<e>>
  <2> DEFINE u == <<y>>
             v == <<z>>
  <2>1. u \in Seq(BitSeqs) /\ v \in Seq(BitSeqs)
      BY <1>7
  <2>2. RowOf(f, u) = <<l>> /\ RowOf(f, v) = <<r>> /\ RowOf(f, <<q>>) = <<e>>
      BY RowSingle
  <2> HIDE DEF u, v, l, r, e
  <2>3. RowOf(f, u \o v) = RowOf(f, u) \o RowOf(f, v)
      BY <2>1, RowConcat
  <2> QED BY <2>2, <2>3 DEF u, v
<1>9. Waiting(w, a) = w[z] \o w[y] /\ Waiting(w, <<q>>) = w[q]
  <2>1. Waiting(w, <<y>> \o <<z>>) = Waiting(w, <<z>>) \o Waiting(w, <<y>>)
    <3> DEFINE u == <<y>>
               v == <<z>>
    <3>1. u \in Seq(BitSeqs) /\ v \in Seq(BitSeqs)
        BY <1>7
    <3> HIDE DEF u, v
    <3>2. Waiting(w, u \o v) = Waiting(w, v) \o Waiting(w, u)
        BY <1>3, <3>1, WaitingConcat
    <3> QED BY <3>2 DEF u, v
  <2>2. w[y] \in Seq(R) /\ w[z] \in Seq(R) /\ w[q] \in Seq(R)
      BY <1>0, <1>3
  <2>3. Waiting(w, <<y>>) = w[y] /\ Waiting(w, <<z>>) = w[z] /\ Waiting(w, <<q>>) = w[q]
      BY <1>0, <2>2, WaitingSingle
  <2> QED BY <2>1, <2>3
<1> HIDE DEF l, r, e, a
<1>10. Grouped(T, <<l>> \o <<r>>, h, <<<<l, r>>>>)
    BY <1>2, GroupPair
<1>11. g \in Seq(T)
    BY <1>2
<1>12. Grouped(T, RowOf(f, a), h, <<g>>)
    BY <1>8, <1>10
<1> HIDE DEF g
<1>13. <<g>> \in Seq(Seq(T))
    BY <1>11
<1>14. ASSUME NEW L \in Seq(T), NEW X \in Seq(R)
       PROVE  Pushed(Acc(L, X \o Waiting(w, a)), <<g>>)
                  = Acc(L \o RowOf(f, <<q>>), Waiting(w, <<q>>) \o X)
  <2>1. Push(Acc(L, X \o Waiting(w, a)), g) = Acc(L \o <<e>>, w[q] \o X)
      BY <1>6, <1>9
  <2> DEFINE acc == Acc(L, X \o Waiting(w, a))
  <2> HIDE DEF acc
  <2>2. Pushed(acc, <<g>>) = Push(acc, g)
      BY <1>11, PushedSingle
  <2> QED BY <1>8, <1>9, <2>1, <2>2 DEF acc
<1>15. Passing(c, height, h, 1, q, a)
  <2>1. Passed(T, R, f, w, h, a, <<q>>)
      BY <1>12, <1>13, <1>14 DEF Passed, Pushes
  <2> QED BY <1>1, <1>5, <2>1 DEF Passing, f, w, T, R
<1> QED BY <1>15 DEF a, y, z

\* A frontier is ready for a layer when its parts are.
LEMMA ReadyParts ==
    ASSUME NEW c, NEW u \in Seq(BitSeqs), NEW v \in Seq(BitSeqs), NEW len
    PROVE  Ready(c, u \o v, len) <=> Ready(c, u, len) /\ Ready(c, v, len)
<1> DEFINE a == u \o v
<1>1. /\ Len(a) = Len(u) + Len(v) /\ Len(u) \in Nat /\ Len(v) \in Nat
      /\ \A i \in 1 .. Len(u) : a[i] = u[i]
      /\ \A i \in 1 .. Len(u) + Len(v) : i > Len(u) => a[i] = v[i - Len(u)]
    BY ConcatElements
<1> HIDE DEF a
<1>2. ASSUME Ready(c, a, len)
      PROVE  Ready(c, u, len) /\ Ready(c, v, len)
  <2>1. Ready(c, u, len)
    <3> SUFFICES ASSUME NEW i \in 1 .. Len(u), Many(c, u[i]) PROVE Len(u[i]) = len
        BY DEF Ready
    <3>1. i \in 1 .. Len(a) /\ a[i] = u[i]
        BY <1>1
    <3> QED BY <1>2, <3>1 DEF Ready
  <2>2. Ready(c, v, len)
    <3> SUFFICES ASSUME NEW i \in 1 .. Len(v), Many(c, v[i]) PROVE Len(v[i]) = len
        BY DEF Ready
    <3>1. Len(u) + i \in 1 .. Len(a) /\ (Len(u) + i) - Len(u) = i /\ Len(u) + i > Len(u)
        BY <1>1
    <3>2. a[Len(u) + i] = v[i]
        BY <1>1, <3>1
    <3> QED BY <1>2, <3>1, <3>2 DEF Ready
  <2> QED BY <2>1, <2>2
<1>3. ASSUME Ready(c, u, len), Ready(c, v, len)
      PROVE  Ready(c, a, len)
  <2> SUFFICES ASSUME NEW i \in 1 .. Len(a), Many(c, a[i]) PROVE Len(a[i]) = len
      BY DEF Ready
  <2>1. CASE i <= Len(u)
    <3>1. i \in 1 .. Len(u) /\ a[i] = u[i]
        BY <1>1, <2>1
    <3> QED BY <1>3, <3>1 DEF Ready
  <2>2. CASE i > Len(u)
    <3>1. i - Len(u) \in 1 .. Len(v) /\ a[i] = v[i - Len(u)]
        BY <1>1, <2>2
    <3> QED BY <1>3, <3>1 DEF Ready
  <2> QED BY <1>1, <2>1, <2>2
<1> QED BY <1>2, <1>3 DEF a

\* What waits for two parts, as a fact without types.
LEMMA WaitingJoins ==
    ASSUME NEW R, NEW w, \A x \in BitSeqs : w[x] \in Seq(R)
    PROVE  \A u, v \in Seq(BitSeqs) : Waiting(w, u \o v) = Waiting(w, v) \o Waiting(w, u)
<1> TAKE u, v \in Seq(BitSeqs)
<1> QED BY WaitingConcat

\* Sequences of one kind, and what a pass does to them.
Joinable(S) ==
    /\ \A r, s \in S : r \o s \in S
    /\ \A r, s, t \in S : (r \o s) \o t = r \o (s \o t)

\* Sequences can be joined in any order of brackets.
LEMMA SequencesJoin ==
    ASSUME NEW S
    PROVE  Joinable(Seq(S))
<1>1. \A r, s \in Seq(S) : r \o s \in Seq(S)
    BY ConcatProperties
<1>2. \A r, s, t \in Seq(S) : (r \o s) \o t = r \o (s \o t)
    BY ConcatAssociative
<1> QED BY <1>1, <1>2 DEF Joinable

\* The groups gs turn the rows W that wait in the queue to V and add F to
\* the layer.
Moves(ST, SR, gs, W, F, V) ==
    \A L \in ST, X \in SR : Pushed(Acc(L, X \o W), gs) = Acc(L \o F, V \o X)

\* What two lists of groups do, one after the other,
LEMMA MoveTwice ==
    ASSUME NEW ST, NEW SR, Joinable(ST), Joinable(SR), NEW gs, NEW hs,
           NEW Wu \in SR, NEW Wv \in SR, NEW Wb \in SR, NEW Wd \in SR, NEW Fb \in ST, NEW Fd \in ST,
           \A acc : Pushed(acc, gs \o hs) = Pushed(Pushed(acc, gs), hs),
           Moves(ST, SR, gs, Wu, Fb, Wb), Moves(ST, SR, hs, Wv, Fd, Wd)
    PROVE  Moves(ST, SR, gs \o hs, Wv \o Wu, Fb \o Fd, Wd \o Wb)
<1> SUFFICES ASSUME NEW L \in ST, NEW X \in SR
             PROVE  Pushed(Acc(L, X \o (Wv \o Wu)), gs \o hs) = Acc(L \o (Fb \o Fd), (Wd \o Wb) \o X)
    BY DEF Moves
<1>1. /\ \A M \in ST, Y \in SR : Pushed(Acc(M, Y \o Wu), gs) = Acc(M \o Fb, Wb \o Y)
      /\ \A M \in ST, Y \in SR : Pushed(Acc(M, Y \o Wv), hs) = Acc(M \o Fd, Wd \o Y)
    BY DEF Moves
<1> DEFINE Cat(r, s) == r \o s
<1>20. /\ \A r, s \in SR : Cat(r, s) \in SR
       /\ \A r, s, t \in SR : Cat(Cat(r, s), t) = Cat(r, Cat(s, t))
       /\ \A r, s \in ST : Cat(r, s) \in ST
       /\ \A r, s, t \in ST : Cat(Cat(r, s), t) = Cat(r, Cat(s, t))
    BY DEF Joinable
<1>2. /\ (X \o Wv) \o Wu = X \o (Wv \o Wu) /\ X \o Wv \in SR
      /\ (Wb \o X) \o Wv = Wb \o (X \o Wv) /\ Wb \o X \in SR /\ L \o Fb \in ST
      /\ (L \o Fb) \o Fd = L \o (Fb \o Fd) /\ (Wd \o Wb) \o X = Wd \o (Wb \o X)
  <2> HIDE DEF Cat
  <2>1. /\ Cat(Cat(X, Wv), Wu) = Cat(X, Cat(Wv, Wu)) /\ Cat(X, Wv) \in SR
        /\ Cat(Cat(Wb, X), Wv) = Cat(Wb, Cat(X, Wv)) /\ Cat(Wb, X) \in SR /\ Cat(L, Fb) \in ST
        /\ Cat(Cat(L, Fb), Fd) = Cat(L, Cat(Fb, Fd)) /\ Cat(Cat(Wd, Wb), X) = Cat(Wd, Cat(Wb, X))
      BY <1>20
  <2> QED BY <2>1, Zenon DEF Cat
<1>3. Pushed(Acc(L, (X \o Wv) \o Wu), gs) = Acc(L \o Fb, Wb \o (X \o Wv))
    BY <1>1, <1>2
<1>4. Pushed(Acc(L \o Fb, (Wb \o X) \o Wv), hs) = Acc((L \o Fb) \o Fd, Wd \o (Wb \o X))
    BY <1>1, <1>2
<1> QED BY <1>2, <1>3, <1>4

\* and the same of sequences.
LEMMA PushTwice ==
    ASSUME NEW T, NEW R, NEW gs \in Seq(Seq(T)), NEW hs \in Seq(Seq(T)),
           NEW Wu \in Seq(R), NEW Wv \in Seq(R), NEW Wb \in Seq(R), NEW Wd \in Seq(R),
           NEW Fb \in Seq(T), NEW Fd \in Seq(T),
           Pushes(T, R, gs, Wu, Fb, Wb), Pushes(T, R, hs, Wv, Fd, Wd)
    PROVE  Pushes(T, R, gs \o hs, Wv \o Wu, Fb \o Fd, Wd \o Wb)
<1> DEFINE ST == Seq(T)
           SR == Seq(R)
<1>1. \A acc : Pushed(acc, gs \o hs) = Pushed(Pushed(acc, gs), hs)
    BY PushedConcat
<1>2. Joinable(ST) /\ Joinable(SR)
    BY SequencesJoin
<1>3. Moves(ST, SR, gs, Wu, Fb, Wb) /\ Moves(ST, SR, hs, Wv, Fd, Wd)
    BY DEF Pushes, Moves
<1>4. Wu \in SR /\ Wv \in SR /\ Wb \in SR /\ Wd \in SR /\ Fb \in ST /\ Fd \in ST
    OBVIOUS
<1> HIDE DEF ST, SR
<1>5. Moves(ST, SR, gs \o hs, Wv \o Wu, Fb \o Fd, Wd \o Wb)
    BY <1>1, <1>2, <1>3, <1>4, MoveTwice
<1> QED BY <1>5 DEF Pushes, Moves, ST, SR

\* Two passes, one after the other.
LEMMA PassConcat ==
    ASSUME NEW T, NEW R, NEW f, NEW w, NEW h,
           \A x \in BitSeqs : f[x] \in T, \A x \in BitSeqs : w[x] \in Seq(R),
           NEW u \in Seq(BitSeqs), NEW v \in Seq(BitSeqs),
           NEW b \in Seq(BitSeqs), NEW d \in Seq(BitSeqs),
           Passed(T, R, f, w, h, u, b), Passed(T, R, f, w, h, v, d)
    PROVE  Passed(T, R, f, w, h, u \o v, b \o d)
<1>1. /\ Waiting(w, u \o v) = Waiting(w, v) \o Waiting(w, u)
      /\ Waiting(w, b \o d) = Waiting(w, d) \o Waiting(w, b)
    BY WaitingJoins
<1>2. RowOf(f, b \o d) = RowOf(f, b) \o RowOf(f, d)
    BY RowConcat, SMTT(30)
<1>11. RowOf(f, u \o v) = RowOf(f, u) \o RowOf(f, v)
    BY RowConcat, SMTT(30)
<1>3. /\ Waiting(w, u) \in Seq(R) /\ Waiting(w, v) \in Seq(R)
      /\ Waiting(w, b) \in Seq(R) /\ Waiting(w, d) \in Seq(R)
    BY WaitingType
<1>4. /\ RowOf(f, u) \in Seq(T) /\ RowOf(f, v) \in Seq(T)
      /\ RowOf(f, b) \in Seq(T) /\ RowOf(f, d) \in Seq(T)
    BY RowType
<1>5. PICK gs \in Seq(Seq(T)) : /\ Grouped(T, RowOf(f, u), h, gs)
                                /\ Pushes(T, R, gs, Waiting(w, u), RowOf(f, b), Waiting(w, b))
    BY DEF Passed
<1>6. PICK hs \in Seq(Seq(T)) : /\ Grouped(T, RowOf(f, v), h, hs)
                                /\ Pushes(T, R, hs, Waiting(w, v), RowOf(f, d), Waiting(w, d))
    BY DEF Passed
<1>7. Grouped(T, RowOf(f, u \o v), h, gs \o hs)
    BY <1>4, <1>5, <1>6, <1>11, GroupConcat
<1>8. gs \o hs \in Seq(Seq(T))
    BY ConcatProperties
<1>9. Pushes(T, R, gs \o hs, Waiting(w, v) \o Waiting(w, u), RowOf(f, b) \o RowOf(f, d),
             Waiting(w, d) \o Waiting(w, b))
    BY <1>3, <1>4, <1>5, <1>6, PushTwice
<1>10. Pushes(T, R, gs \o hs, Waiting(w, u \o v), RowOf(f, b \o d), Waiting(w, b \o d))
    BY <1>1, <1>2, <1>9
<1> QED BY <1>7, <1>8, <1>10 DEF Passed

\* The passes over the two halves make one pass.
LEMMA PassHalves ==
    ASSUME NEW c, NEW height \in Nat, NEW h \in Int, NEW n \in Nat, n > 0, n < SubtreeHeight,
           NEW q \in BitSeqs, NEW u \in Seq(BitSeqs), NEW v \in Seq(BitSeqs),
           Passing(c, height, h, n, Append(q, 0), u), Passing(c, height, h, n, Append(q, 1), v)
    PROVE  Passing(c, height, h, n + 1, q, u \o v)
<1> DEFINE f == Risen(c, height)
           w == Queued(c, height)
           T == RisenSet(c, height)
           R == Seq(ItemSet(c, height))
           y == Append(q, 0)
           z == Append(q, 1)
<1>0. /\ SubtreeHeight \in Nat /\ n - 1 \in Nat /\ n - 1 <= SubtreeHeight /\ (n - 1) + 1 = n
      /\ y \in BitSeqs /\ z \in BitSeqs /\ n - 1 < SubtreeHeight /\ (n + 1) - 1 = n
    BY SparseMerkleTreeAssumption, AppendBit
<1>1. PICK b \in Fronts[n - 1][y] :
          Ready(c, b, height + h - 1) /\ Passed(T, R, f, w, h, u, b)
    BY DEF Passing
<1>2. PICK d \in Fronts[n - 1][z] :
          Ready(c, d, height + h - 1) /\ Passed(T, R, f, w, h, v, d)
    BY DEF Passing
<1>3. b \in Seq(BitSeqs) /\ d \in Seq(BitSeqs)
    BY <1>0, FrontType
<1>4. b \o d \in Fronts[n][q]
    BY <1>0, FrontIsJoined
<1>5. \A x \in BitSeqs : f[x] \in T
    BY DEF RisenSet
<1>6. \A x \in BitSeqs : w[x] \in Seq(R)
    BY QueuedType
<1>7. Ready(c, b \o d, height + h - 1)
    BY <1>1, <1>2, <1>3, ReadyParts
<1> HIDE DEF f, w, T, R
<1>8. Passed(T, R, f, w, h, u \o v, b \o d)
    BY <1>1, <1>2, <1>3, <1>5, <1>6, PassConcat
<1> QED BY <1>0, <1>4, <1>7, <1>8 DEF Passing, f, w, T, R

\* A pass over a whole layer.
LEMMA RisingPass ==
    ASSUME NEW c, IsContents(c), NEW height \in Nat, NEW h \in 1 .. SubtreeHeight
    PROVE  \A n \in 1 .. SubtreeHeight : \A q \in BitSeqs : \A a \in Fronts[n][q] :
               Len(q) - height + n = h /\ Len(q) + n <= KeyBits /\ Len(q) >= height
                   /\ Ready(c, a, height + h)
                       => Passing(c, height, h, n, q, a)
<1> DEFINE P(n, q, a) == Len(q) - height + n = h /\ Len(q) + n <= KeyBits /\ Len(q) >= height
                             /\ Ready(c, a, height + h) => Passing(c, height, h, n, q, a)
           S == {m \in Nat : m + 1 <= SubtreeHeight =>
                    \A q \in BitSeqs : \A a \in Fronts[m + 1][q] : P(m + 1, q, a)}
<1>0. SubtreeHeight \in Nat /\ KeyBits \in Nat /\ h \in Int /\ h \in Nat
    BY SparseMerkleTreeAssumption
\* The path alone.
<1>1. ASSUME NEW n \in 1 .. SubtreeHeight, NEW q \in BitSeqs
      PROVE  P(n, q, <<q>>)
  <2> SUFFICES ASSUME Len(q) - height + n = h, Len(q) >= height, Ready(c, <<q>>, height + h)
               PROVE  Passing(c, height, h, n, q, <<q>>)
      OBVIOUS
  <2>1. Len(q) # height + h /\ Len(q) \in Nat
      BY <1>0 DEF BitSeqs
  <2>2. Len(<<q>>) = 1 /\ <<q>>[1] = q
      OBVIOUS
  <2>3. ~Many(c, q)
      BY <2>1, <2>2 DEF Ready
  <2> QED BY <1>0, <2>3, PassAlone
<1>2. 0 \in S
  <2> SUFFICES ASSUME 1 <= SubtreeHeight, NEW q \in BitSeqs, NEW a \in Fronts[1][q]
               PROVE  P(1, q, a)
      OBVIOUS
  <2>1. 1 \in 1 .. SubtreeHeight /\ 0 \in Nat /\ 0 < SubtreeHeight /\ 0 + 1 = 1
            /\ 0 \in 0 .. SubtreeHeight
      BY <1>0
  <2>2. CASE a = <<q>>
    <3> HIDE DEF P
    <3> QED BY <1>1, <2>1, <2>2
  <2>3. CASE a # <<q>>
    <3>1. PICK u \in Fronts[0][Append(q, 0)], v \in Fronts[0][Append(q, 1)] : a = u \o v
        BY <2>1, <2>3, FrontParts
    <3>2. Append(q, 0) \in BitSeqs /\ Append(q, 1) \in BitSeqs
        BY AppendBit
    <3>3. u = <<Append(q, 0)>> /\ v = <<Append(q, 1)>>
        BY <2>1, <3>2, FrontIsSingle
    <3> SUFFICES ASSUME Len(q) - height + 1 = h, Len(q) + 1 <= KeyBits, Len(q) >= height
                 PROVE  Passing(c, height, h, 1, q, a)
        OBVIOUS
    <3>4. /\ Len(q) \in Nat /\ q \in Paths /\ Len(q) < KeyBits
          /\ Len(q) \in height .. height + SubtreeHeight - 1
        BY <1>0 DEF Paths, BitSeqs
    <3> QED BY <1>0, <2>1, <3>1, <3>3, <3>4, PassPair
  <2> QED BY <2>2, <2>3
<1>3. ASSUME NEW m \in Nat, m \in S
      PROVE  m + 1 \in S
  <2> DEFINE n == m + 1
  <2> SUFFICES ASSUME n + 1 <= SubtreeHeight, NEW q \in BitSeqs, NEW a \in Fronts[n + 1][q]
               PROVE  P(n + 1, q, a)
      OBVIOUS
  <2>1. n + 1 \in 1 .. SubtreeHeight /\ n \in Nat /\ n > 0 /\ n < SubtreeHeight /\ n <= SubtreeHeight
      BY <1>0
  <2>2. \A x \in BitSeqs : \A e \in Fronts[n][x] : P(n, x, e)
      BY <1>3, <2>1
  <2> HIDE DEF n
  <2>3. CASE a = <<q>>
    <3> HIDE DEF P
    <3> QED BY <1>1, <2>1, <2>3
  <2>4. CASE a # <<q>>
    <3>1. PICK u \in Fronts[n][Append(q, 0)], v \in Fronts[n][Append(q, 1)] : a = u \o v
        BY <2>1, <2>4, FrontParts
    <3>2. /\ Append(q, 0) \in BitSeqs /\ Append(q, 1) \in BitSeqs /\ Len(q) \in Nat
          /\ Len(Append(q, 0)) = Len(q) + 1 /\ Len(Append(q, 1)) = Len(q) + 1
        BY AppendBit DEF BitSeqs
    <3>3. u \in Seq(BitSeqs) /\ v \in Seq(BitSeqs)
        BY <2>1, <3>2, FrontType
    <3>4. P(n, Append(q, 0), u) /\ P(n, Append(q, 1), v)
      <4> HIDE DEF P
      <4> QED BY <2>2, <3>2
    <3> SUFFICES ASSUME Len(q) - height + (n + 1) = h, Len(q) + (n + 1) <= KeyBits, Len(q) >= height,
                        Ready(c, a, height + h)
                 PROVE  Passing(c, height, h, n + 1, q, a)
        OBVIOUS
    <3>5. Ready(c, u, height + h) /\ Ready(c, v, height + h)
        BY <3>1, <3>3, ReadyParts
    <3>6. /\ Len(Append(q, 0)) - height + n = h /\ Len(Append(q, 0)) + n <= KeyBits
          /\ Len(Append(q, 0)) >= height
          /\ Len(Append(q, 1)) - height + n = h /\ Len(Append(q, 1)) + n <= KeyBits
          /\ Len(Append(q, 1)) >= height
        BY <1>0, <2>1, <3>2
    <3>7. Passing(c, height, h, n, Append(q, 0), u) /\ Passing(c, height, h, n, Append(q, 1), v)
        BY <3>4, <3>5, <3>6
    <3> QED BY <1>0, <2>1, <3>1, <3>3, <3>7, PassHalves
  <2> HIDE DEF P
  <2> QED BY <2>3, <2>4
<1>4. Nat \subseteq S
  <2> HIDE DEF S
  <2> QED BY <1>2, <1>3, SetInduction
<1>5. \A n \in 1 .. SubtreeHeight : \A q \in BitSeqs : \A a \in Fronts[n][q] : P(n, q, a)
  <2> TAKE n \in 1 .. SubtreeHeight
  <2>1. n - 1 \in Nat /\ (n - 1) + 1 = n /\ n <= SubtreeHeight
      BY <1>0
  <2>2. n - 1 \in S
      BY <1>4, <2>1
  <2> HIDE DEF P
  <2> QED BY <2>1, <2>2
<1> QED BY <1>5

\* What calculate_subtree makes of its last layer.
Calculated(top) ==
    IF top.layer[1].node.kind = "temp"
    THEN FromData(Head(top.map))
    ELSE FromData(<<At(top.layer[1].node, 0)>>)

\* CalculateSubtree goes through the layers one by one.
LEMMA RisenLayers ==
    ASSUME NEW items, NEW d \in Nat, d = Deepest(items)
    PROVE  \E risen : /\ risen[0] = Acc(items, <<>>)
                      /\ \A n \in 1 .. d : risen[n] = Pushed(Acc(<<>>, risen[n - 1].map),
                                                             Groups(risen[n - 1].layer, d + 1 - n))
                      /\ CalculateSubtree(items) = Calculated(risen[d])
<1> DEFINE base == [layer |-> items, map |-> <<>>]
           Up(acc, n) == Pushed([layer |-> <<>>, map |-> acc.map], Groups(acc.layer, d + 1 - n))
           Is(f, m) == f = [n \in 0 .. m |-> IF n = 0 THEN base ELSE Up(f[n - 1], n)]
           S == {m \in Nat : \E f : Is(f, m)}
<1>1. 0 \in S
  <2> DEFINE f == [n \in 0 .. 0 |-> base]
  <2>1. Is(f, 0)
      OBVIOUS
  <2> QED BY <2>1
<1>2. ASSUME NEW m \in Nat, m \in S
      PROVE  m + 1 \in S
  <2> HIDE DEF base, Up
  <2>1. PICK f : Is(f, m)
      BY <1>2
  <2> DEFINE g == [n \in 0 .. m + 1 |-> IF n = 0 THEN base ELSE Up(f[n - 1], n)]
  <2>2. \A n \in 0 .. m : g[n] = f[n]
    <3> TAKE n \in 0 .. m
    <3>1. f[n] = IF n = 0 THEN base ELSE Up(f[n - 1], n)
        BY <2>1
    <3> QED BY <3>1
  <2>3. \A n \in 0 .. m + 1 : g[n] = IF n = 0 THEN base ELSE Up(g[n - 1], n)
    <3> TAKE n \in 0 .. m + 1
    <3>1. n # 0 => n - 1 \in 0 .. m
        OBVIOUS
    <3>2. n # 0 => g[n - 1] = f[n - 1]
        BY <2>2, <3>1
    <3> QED BY <3>2
  <2>4. Is(g, m + 1)
    <3>1. g = [n \in 0 .. m + 1 |-> g[n]]
        OBVIOUS
    <3> HIDE DEF g
    <3> QED BY <2>3, <3>1
  <2> HIDE DEF g, Is
  <2> QED BY <2>4
<1>3. d \in S
  <2> HIDE DEF S
  <2> QED BY <1>1, <1>2, SetInduction
<1> DEFINE F == CHOOSE f : Is(f, d)
<1>4. CalculateSubtree(items) = Calculated(F[d])
    BY DEF CalculateSubtree, Calculated
<1>5. Is(F, d)
    BY <1>3
<1> HIDE DEF F, base, Up
<1>6. F[0] = base /\ \A n \in 1 .. d : F[n] = Up(F[n - 1], n)
    BY <1>5
<1> HIDE DEF Is
<1> QED BY <1>4, <1>6 DEF base, Up, Acc

\* Where nothing waits for any place, nothing waits.
LEMMA NobodyWaits ==
    ASSUME NEW T, NEW s \in Seq(T), NEW w, \A i \in 1 .. Len(s) : w[s[i]] = <<>>
    PROVE  Waiting(w, s) = <<>>
<1>1. PICK f : /\ f[0] = <<>>
               /\ \A i \in 1 .. Len(s) : f[i] = w[s[i]] \o f[i - 1]
               /\ Waiting(w, s) = f[Len(s)]
    BY WaitingExists
<1> DEFINE S == {n \in Nat : n <= Len(s) => f[n] = <<>>}
<1>2. 0 \in S
    BY <1>1
<1>3. ASSUME NEW n \in Nat, n \in S
      PROVE  n + 1 \in S
  <2> SUFFICES ASSUME n + 1 <= Len(s) PROVE f[n + 1] = <<>>
      OBVIOUS
  <2>1. n + 1 \in 1 .. Len(s) /\ (n + 1) - 1 = n /\ n <= Len(s)
      OBVIOUS
  <2>2. f[n + 1] = <<>> \o <<>>
      BY <1>1, <1>3, <2>1
  <2>3. <<>> \o <<>> = <<>>
      OBVIOUS
  <2> QED BY <2>2, <2>3
<1>4. Len(s) \in S
  <2> HIDE DEF S
  <2>1. Len(s) \in Nat
      OBVIOUS
  <2> QED BY <1>2, <1>3, <2>1, SetInduction
<1> QED BY <1>1, <1>4

\* Nothing has risen yet.
LEMMA RisenFirst ==
    ASSUME NEW c, NEW height \in Nat, NEW a \in Seq(BitSeqs), Ready(c, a, height + SubtreeHeight)
    PROVE  /\ RowOf(Items(c, height), a) = RowOf(Risen(c, height), a)
           /\ Waiting(Queued(c, height), a) = <<>>
<1> DEFINE w == Queued(c, height)
<1>1. ASSUME NEW i \in 1 .. Len(a)
      PROVE  a[i] \in BitSeqs /\ ~Waits(c, height, a[i])
  <2>1. a[i] \in BitSeqs /\ SubtreeHeight \in Nat
      BY SparseMerkleTreeAssumption
  <2>2. Many(c, a[i]) => Len(a[i]) = height + SubtreeHeight
      BY DEF Ready
  <2> QED BY <2>1, <2>2 DEF Waits
<1>2. \A i \in 1 .. Len(a) : Items(c, height)[a[i]] = Risen(c, height)[a[i]]
    BY <1>1 DEF Items, Risen
<1>3. \A i \in 1 .. Len(a) : w[a[i]] = <<>>
    BY <1>1 DEF Queued
<1>4. RowOf(Items(c, height), a) = RowOf(Risen(c, height), a)
  <2>1. DOMAIN a = 1 .. Len(a)
      OBVIOUS
  <2> QED BY <1>2, <2>1 DEF RowOf
<1> HIDE DEF w
<1>5. Waiting(w, a) = <<>>
    BY <1>3, NobodyWaits
<1> QED BY <1>4, <1>5 DEF w

\* The last layer.
LEMMA RisenLast ==
    ASSUME NEW c, IsContents(c), NEW p \in Paths, Len(p) + SubtreeHeight <= KeyBits
    PROVE  Calculated(Acc(<<Risen(c, Len(p))[p]>>, Queued(c, Len(p))[p])) = FromData(Subtree(c, p))
<1> DEFINE e == Risen(c, Len(p))[p]
           w == Queued(c, Len(p))[p]
           H == Len(p)
<1>0. /\ SubtreeHeight \in Nat /\ SubtreeHeight > 0 /\ p \in BitSeqs /\ H \in Nat
      /\ H \in H .. H + SubtreeHeight /\ H \in H .. H + SubtreeHeight - 1
      /\ H + SubtreeHeight - H = SubtreeHeight
    BY SparseMerkleTreeAssumption, PathLength
<1>1. Row(c, H, p) = Subtree(c, p)
    BY <1>0 DEF Row, Subtree
<1>2. Acc(<<e>>, w).layer[1] = e /\ Acc(<<e>>, w).map = w
    BY DEF Acc
<1>3. e.node.kind = "temp" <=> Waits(c, H, p)
    BY <1>0, RisenTemp
<1>4. ASSUME Waits(c, H, p)
      PROVE  Calculated(Acc(<<e>>, w)) = FromData(Subtree(c, p))
  <2>1. w = <<Row(c, H, p)>>
      BY <1>0, <1>4 DEF Queued
  <2>2. Head(w) = Row(c, H, p)
      BY <2>1, HeadOfPair
  <2> HIDE DEF e, w
  <2> QED BY <1>1, <1>2, <1>3, <1>4, <2>2 DEF Calculated
<1>5. ASSUME ~Waits(c, H, p)
      PROVE  Calculated(Acc(<<e>>, w)) = FromData(Subtree(c, p))
  <2>1. Row(c, H, p) = <<e>>
      BY <1>0, <1>5, RowIs
  <2>2. e = At(NodeAt(c, p), 0)
    <3>1. H - H = 0
        BY <1>0
    <3>2. e = At(NodeAt(c, p), H - H)
        BY <1>0, <1>5 DEF Risen
    <3> QED BY <3>1, <3>2
  <2>3. e = At(e.node, 0)
      BY <2>2 DEF At
  <2> HIDE DEF e, w
  <2> QED BY <1>1, <1>2, <1>3, <1>5, <2>1, <2>3 DEF Calculated
<1> QED BY <1>4, <1>5 DEF e, w

\* One layer of calculate_subtree.
LEMMA RisenStep ==
    ASSUME NEW c, IsContents(c), NEW p \in Paths, NEW m \in 1 .. SubtreeHeight, Len(p) + m <= KeyBits,
           NEW a \in Fronts[m][p], Ready(c, a, Len(p) + m)
    PROVE  \E b \in Fronts[m - 1][p] :
               /\ Ready(c, b, Len(p) + m - 1)
               /\ Pushed(Acc(<<>>, Waiting(Queued(c, Len(p)), a)), Groups(RowOf(Risen(c, Len(p)), a), m))
                      = Acc(RowOf(Risen(c, Len(p)), b), Waiting(Queued(c, Len(p)), b))
<1> DEFINE H == Len(p)
           f == Risen(c, H)
           w == Queued(c, H)
           T == RisenSet(c, H)
           R == Seq(ItemSet(c, H))
<1>0. /\ SubtreeHeight \in Nat /\ m \in Nat /\ m <= SubtreeHeight /\ p \in BitSeqs /\ H \in Nat
      /\ H - H + m = m /\ H >= H /\ m - 1 \in Nat /\ m - 1 <= SubtreeHeight
    BY SparseMerkleTreeAssumption, PathLength
<1>1. Passing(c, H, m, m, p, a)
    BY <1>0, RisingPass
<1>2. PICK b \in Fronts[m - 1][p] : Ready(c, b, H + m - 1) /\ Passed(T, R, f, w, m, a, b)
    BY <1>1 DEF Passing
<1>3. PICK gs \in Seq(Seq(T)) : /\ Grouped(T, RowOf(f, a), m, gs)
                                /\ Pushes(T, R, gs, Waiting(w, a), RowOf(f, b), Waiting(w, b))
    BY <1>2 DEF Passed
<1>4. a \in Seq(BitSeqs) /\ b \in Seq(BitSeqs)
    BY <1>0, FrontType
<1>5. \A x \in BitSeqs : f[x] \in T
    BY DEF RisenSet
<1>6. \A x \in BitSeqs : w[x] \in Seq(R)
    BY <1>0, QueuedType
<1> HIDE DEF f, w, T, R
<1>7. RowOf(f, a) \in Seq(T) /\ RowOf(f, b) \in Seq(T)
    BY <1>4, <1>5, RowType
<1>8. Waiting(w, a) \in Seq(R) /\ Waiting(w, b) \in Seq(R)
    BY <1>4, <1>6, WaitingType
<1>9. Groups(RowOf(f, a), m) = gs
    BY <1>3, <1>7, GroupsOf
<1>10. Pushed(Acc(<<>>, <<>> \o Waiting(w, a)), gs) = Acc(<<>> \o RowOf(f, b), Waiting(w, b) \o <<>>)
  <2>1. <<>> \in Seq(T) /\ <<>> \in Seq(R)
      OBVIOUS
  <2>2. \A L \in Seq(T), X \in Seq(R) :
            Pushed(Acc(L, X \o Waiting(w, a)), gs) = Acc(L \o RowOf(f, b), Waiting(w, b) \o X)
      BY <1>3 DEF Pushes
  <2> QED BY <2>1, <2>2
<1>11. <<>> \o Waiting(w, a) = Waiting(w, a) /\ Waiting(w, b) \o <<>> = Waiting(w, b)
    BY <1>8, ConcatEmptySeq
<1>12. <<>> \o RowOf(f, b) = RowOf(f, b)
    BY <1>7, ConcatEmptySeq
<1>13. Pushed(Acc(<<>>, Waiting(w, a)), Groups(RowOf(f, a), m)) = Acc(RowOf(f, b), Waiting(w, b))
    BY <1>9, <1>10, <1>11, <1>12
<1> QED BY <1>2, <1>13 DEF f, w

\* calculate_subtree makes the stored form, with its root, of the nodes along
\* any frontier whose branches all end at the bottom of the subtree: empty
\* halves vanish, a leaf alone rises, and two others go on side by side.
THEOREM CalculateIs ==
    ASSUME NEW c, IsContents(c), NEW p \in Paths, Len(p) + SubtreeHeight <= KeyBits,
           NEW F \in Fronts[SubtreeHeight][p], Ready(c, F, Len(p) + SubtreeHeight)
    PROVE  CalculateSubtree(RowOf(Items(c, Len(p)), F)) = [items |-> Subtree(c, p), root |-> RootBelow(c, p)]
<1> DEFINE H == Len(p)
           items == RowOf(Items(c, H), F)
           d == Deepest(items)
           f == Risen(c, H)
           w == Queued(c, H)
           LayerOf(a) == Acc(RowOf(f, a), Waiting(w, a))
<1>0. /\ SubtreeHeight \in Nat /\ KeyBits \in Nat /\ SubtreeHeight \in 0 .. SubtreeHeight
      /\ p \in BitSeqs /\ H \in Nat
    BY SparseMerkleTreeAssumption, PathLength
<1>1. /\ F \in Seq(BitSeqs) /\ Len(F) \in Nat /\ Len(F) > 0
      /\ DOMAIN items = 1 .. Len(F)
      /\ \A i \in 1 .. Len(F) :
             /\ items[i] = At(NodeAt(c, F[i]), Len(F[i]) - H)
             /\ F[i] \in BitSeqs /\ F[i] \in Paths
             /\ Len(F[i]) - H \in 0 .. SubtreeHeight /\ Len(F[i]) \in Nat
    BY <1>0, SubtreeRow
<1> HIDE DEF items
<1>2. /\ d \in 0 .. SubtreeHeight
      /\ \A i \in 1 .. Len(F) : items[i].pos <= d
  <2>1. \A i \in 1 .. Len(F) : items[i].pos \in Nat /\ items[i].pos <= SubtreeHeight
      BY <1>0, <1>1 DEF At
  <2> QED BY <1>0, <1>1, <2>1, DeepestIs
<1>3. PICK risen : /\ risen[0] = Acc(items, <<>>)
                   /\ \A n \in 1 .. d : risen[n] = Pushed(Acc(<<>>, risen[n - 1].map),
                                                          Groups(risen[n - 1].layer, d + 1 - n))
                   /\ CalculateSubtree(items) = Calculated(risen[d])
  <2>1. d \in Nat
      BY <1>0, <1>2
  <2> QED BY <2>1, RisenLayers
<1> HIDE DEF d
<1>4. \A i \in 1 .. Len(F) : Len(F[i]) - H <= d
  <2> TAKE i \in 1 .. Len(F)
  <2>1. items[i].pos = Len(F[i]) - H
      BY <1>1 DEF At
  <2> QED BY <1>2, <2>1
<1>5. F \in Fronts[d][p]
  <2>1. \A i \in 1 .. Len(F) : Len(F[i]) <= Len(p) + d
      BY <1>0, <1>1, <1>2, <1>4
  <2> QED BY <1>0, <1>2, <2>1, FrontShallow
<1>6. Ready(c, F, H + d)
  <2> SUFFICES ASSUME NEW i \in 1 .. Len(F), Many(c, F[i]) PROVE Len(F[i]) = H + d
      BY DEF Ready
  <2>1. Len(F[i]) = H + SubtreeHeight
      BY DEF Ready
  <2>2. Len(F[i]) - H <= d
      BY <1>4
  <2> QED BY <1>0, <1>2, <2>1, <2>2
<1>7. risen[0] = LayerOf(F)
  <2>1. RowOf(Items(c, H), F) = RowOf(f, F) /\ Waiting(w, F) = <<>>
      BY <1>0, <1>1, RisenFirst
  <2> QED BY <1>3, <2>1 DEF items
<1> DEFINE S == {n \in Nat : n <= d => \E a \in Fronts[d - n][p] : Ready(c, a, H + (d - n)) /\ risen[n] = LayerOf(a)}
<1> HIDE DEF LayerOf
<1>8. 0 \in S
  <2>1. d - 0 = d
      BY <1>2
  <2> QED BY <1>5, <1>6, <1>7, <2>1
<1>9. ASSUME NEW n \in Nat, n \in S
      PROVE  n + 1 \in S
  <2> SUFFICES ASSUME n + 1 <= d
               PROVE  \E a \in Fronts[d - (n + 1)][p] :
                          Ready(c, a, H + (d - (n + 1))) /\ risen[n + 1] = LayerOf(a)
      OBVIOUS
  <2> DEFINE m == d - n
  <2>1. /\ n + 1 \in 1 .. d /\ (n + 1) - 1 = n /\ n <= d
        /\ m \in 1 .. SubtreeHeight /\ d + 1 - (n + 1) = m
        /\ H + m <= KeyBits /\ m - 1 = d - (n + 1) /\ H + m - 1 = H + (d - (n + 1))
      BY <1>0, <1>2
  <2>2. PICK a \in Fronts[m][p] : Ready(c, a, H + m) /\ risen[n] = LayerOf(a)
      BY <1>9, <2>1
  <2> HIDE DEF m
  <2>3. risen[n + 1] = Pushed(Acc(<<>>, risen[n].map), Groups(risen[n].layer, m))
      BY <1>3, <2>1
  <2>4. risen[n].map = Waiting(w, a) /\ risen[n].layer = RowOf(f, a)
      BY <2>2 DEF LayerOf, Acc
  <2>5. PICK b \in Fronts[m - 1][p] :
            /\ Ready(c, b, H + m - 1)
            /\ Pushed(Acc(<<>>, Waiting(w, a)), Groups(RowOf(f, a), m)) = Acc(RowOf(f, b), Waiting(w, b))
      BY <2>1, <2>2, RisenStep
  <2>6. risen[n + 1] = LayerOf(b)
      BY <2>3, <2>4, <2>5 DEF LayerOf
  <2> QED BY <2>1, <2>5, <2>6
<1>10. risen[d] = Acc(<<f[p]>>, w[p])
  <2>1. d \in S
    <3> HIDE DEF S
    <3>1. d \in Nat
        BY <1>2
    <3> QED BY <1>8, <1>9, <3>1, SetInduction
  <2>2. d - d = 0 /\ d <= d /\ d \in Nat /\ 0 \in 0 .. SubtreeHeight
      BY <1>0, <1>2
  <2>3. PICK a \in Fronts[0][p] : risen[d] = LayerOf(a)
      BY <2>1, <2>2
  <2>4. a = <<p>>
    <3>1. Fronts[0][p] = {<<p>>}
        BY <1>0, <2>2, FrontIsSingle
    <3> QED BY <2>3, <3>1
  <2>5. RowOf(f, <<p>>) = <<f[p]>>
    <3> HIDE DEF f
    <3> QED BY RowSingle
  <2>6. w[p] \in Seq(Seq(ItemSet(c, H)))
      BY <1>0, QueuedType
  <2> HIDE DEF f, w
  <2>7. Waiting(w, <<p>>) = w[p]
      BY <1>0, <2>6, WaitingSingle
  <2> QED BY <2>3, <2>4, <2>5, <2>7 DEF LayerOf
<1>11. CalculateSubtree(items) = FromData(Subtree(c, p))
    BY <1>3, <1>10, RisenLast
<1> QED BY <1>11, FromDataIs DEF items

\* Depths at which subtrees begin.
LEMMA BoundaryApart ==
    ASSUME NEW h \in Nat \ {0}, NEW a \in Nat, NEW b \in Nat, a % h = 0, b % h = 0, a < b
    PROVE  a + h <= b
<1> DEFINE m == a \div h
           n == b \div h
<1>1. m \in Nat /\ n \in Nat /\ a = m * h /\ b = n * h
    OBVIOUS
<1> HIDE DEF m, n
<1>2. m < n
  <2> SUFFICES ASSUME n <= m PROVE FALSE
      BY <1>1
  <2>1. n * h <= m * h
      BY <1>1
  <2> QED BY <1>1, <2>1
<1>3. m * h + h <= n * h
    BY <1>1, <1>2
<1> QED BY <1>1, <1>3

\* A subtree below a boundary begins at one.
LEMMA BoundaryNext ==
    ASSUME NEW h \in Nat \ {0}, NEW a \in Nat, a % h = 0
    PROVE  (a + h) % h = 0
<1> DEFINE m == a \div h
<1>1. m \in Nat /\ a = m * h
    OBVIOUS
<1> HIDE DEF m
<1>2. a + h = (m + 1) * h
    BY <1>1
<1>3. \A n \in Nat : (n * h) % h = 0
    OBVIOUS
<1> QED BY <1>1, <1>2, <1>3

\* The number of bins below a level.
LEMMA BinsAre ==
    /\ \A n \in 0 .. SubtreeHeight : Bins[n] \in Nat /\ Bins[n] > 0
    /\ Bins[0] = 1
    /\ \A n \in 1 .. SubtreeHeight : Bins[n] = 2 * Bins[n - 1]
<1> DEFINE H == SubtreeHeight
           Is(f, m) == f = [n \in 0 .. m |-> IF n = 0 THEN 1 ELSE 2 * f[n - 1]]
           S == {m \in Nat : \E f : Is(f, m)}
<1>0. H \in Nat
    BY SparseMerkleTreeAssumption
<1>1. 0 \in S
  <2> DEFINE f == [n \in 0 .. 0 |-> 1]
  <2>1. Is(f, 0)
      OBVIOUS
  <2> QED BY <2>1
<1>2. ASSUME NEW m \in Nat, m \in S
      PROVE  m + 1 \in S
  <2>1. PICK f : Is(f, m)
      BY <1>2
  <2> DEFINE g == [n \in 0 .. m + 1 |-> IF n = 0 THEN 1 ELSE 2 * f[n - 1]]
  <2>2. \A n \in 0 .. m : g[n] = f[n]
    <3> TAKE n \in 0 .. m
    <3>1. f[n] = IF n = 0 THEN 1 ELSE 2 * f[n - 1]
        BY <2>1
    <3> QED BY <3>1
  <2>3. \A n \in 0 .. m + 1 : g[n] = IF n = 0 THEN 1 ELSE 2 * g[n - 1]
    <3> TAKE n \in 0 .. m + 1
    <3>1. n # 0 => n - 1 \in 0 .. m
        OBVIOUS
    <3>2. n # 0 => g[n - 1] = f[n - 1]
        BY <2>2, <3>1
    <3> QED BY <3>2
  <2>4. Is(g, m + 1)
    <3>1. g = [n \in 0 .. m + 1 |-> g[n]]
        OBVIOUS
    <3> HIDE DEF g
    <3> QED BY <2>3, <3>1
  <2> HIDE DEF g, Is
  <2> QED BY <2>4
<1>3. H \in S
  <2> HIDE DEF S
  <2> QED BY <1>0, <1>1, <1>2, SetInduction
<1>4. Is(Bins, H)
  <2>1. Bins = CHOOSE f : Is(f, H)
      BY DEF Bins
  <2> HIDE DEF Is
  <2> QED BY <1>3, <2>1
<1>5. Bins[0] = 1 /\ \A n \in 1 .. H : Bins[n] = 2 * Bins[n - 1]
    BY <1>0, <1>4
<1> DEFINE T == {n \in Nat : n <= H => Bins[n] \in Nat /\ Bins[n] > 0}
<1>6. 0 \in T
    BY <1>5
<1>7. ASSUME NEW n \in Nat, n \in T
      PROVE  n + 1 \in T
  <2>1. n + 1 <= H => n + 1 \in 1 .. H /\ (n + 1) - 1 = n
      BY <1>0
  <2> QED BY <1>0, <1>5, <1>7, <2>1
<1>8. Nat \subseteq T
  <2> HIDE DEF T
  <2> QED BY <1>6, <1>7, SetInduction
<1> QED BY <1>0, <1>5, <1>8

\* The lowest bin below a node, bit by bit of its path.
Weight(x, height, i) == IF x[height + i] = 1 THEN Bins[SubtreeHeight - i] ELSE 0

\* The bins left of a key, counted bit by bit.
Lows(x, height) ==
    LET low[i \in 0 .. SubtreeHeight] == IF i = 0 THEN 0 ELSE low[i - 1] + Weight(x, height, i)
    IN  low

\* The first bin of a place.
Low(x, height) == Lows(x, height)[Len(x) - height]

\* Lows is what its recursion says.
LEMMA LowsAre ==
    ASSUME NEW x, NEW height
    PROVE  /\ Lows(x, height)[0] = 0
           /\ \A i \in 1 .. SubtreeHeight : Lows(x, height)[i] = Lows(x, height)[i - 1] + Weight(x, height, i)
           /\ \A i \in 0 .. SubtreeHeight : Lows(x, height)[i] \in Nat
<1> DEFINE H == SubtreeHeight
           Is(f, m) == f = [n \in 0 .. m |-> IF n = 0 THEN 0 ELSE f[n - 1] + Weight(x, height, n)]
           S == {m \in Nat : \E f : Is(f, m)}
           low == Lows(x, height)
<1>0. H \in Nat
    BY SparseMerkleTreeAssumption
<1>1. 0 \in S
  <2> DEFINE f == [n \in 0 .. 0 |-> 0]
  <2>1. Is(f, 0)
      OBVIOUS
  <2> QED BY <2>1
<1>2. ASSUME NEW m \in Nat, m \in S
      PROVE  m + 1 \in S
  <2>1. PICK f : Is(f, m)
      BY <1>2
  <2> DEFINE g == [n \in 0 .. m + 1 |-> IF n = 0 THEN 0 ELSE f[n - 1] + Weight(x, height, n)]
  <2>2. \A n \in 0 .. m : g[n] = f[n]
    <3> TAKE n \in 0 .. m
    <3>1. f[n] = IF n = 0 THEN 0 ELSE f[n - 1] + Weight(x, height, n)
        BY <2>1
    <3> QED BY <3>1
  <2>3. \A n \in 0 .. m + 1 : g[n] = IF n = 0 THEN 0 ELSE g[n - 1] + Weight(x, height, n)
    <3> TAKE n \in 0 .. m + 1
    <3>1. n # 0 => n - 1 \in 0 .. m
        OBVIOUS
    <3>2. n # 0 => g[n - 1] = f[n - 1]
        BY <2>2, <3>1
    <3> QED BY <3>2
  <2>4. Is(g, m + 1)
    <3>1. g = [n \in 0 .. m + 1 |-> g[n]]
        OBVIOUS
    <3> HIDE DEF g
    <3> QED BY <2>3, <3>1
  <2> HIDE DEF g, Is
  <2> QED BY <2>4
<1>3. H \in S
  <2> HIDE DEF S
  <2> QED BY <1>0, <1>1, <1>2, SetInduction
<1>4. Is(low, H)
  <2>1. low = CHOOSE f : Is(f, H)
      BY DEF Lows
  <2> HIDE DEF Is, low
  <2> QED BY <1>3, <2>1
<1> HIDE DEF low
<1>5. low[0] = 0 /\ \A n \in 1 .. H : low[n] = low[n - 1] + Weight(x, height, n)
    BY <1>0, <1>4
<1>6. \A n \in 1 .. H : Weight(x, height, n) \in Nat
  <2> TAKE n \in 1 .. H
  <2>1. H - n \in 0 .. H
      BY <1>0
  <2> QED BY <2>1, BinsAre DEF Weight
<1> DEFINE T == {n \in Nat : n <= H => low[n] \in Nat}
<1>7. 0 \in T
    BY <1>5
<1>8. ASSUME NEW n \in Nat, n \in T
      PROVE  n + 1 \in T
  <2>1. n + 1 <= H => n + 1 \in 1 .. H /\ (n + 1) - 1 = n
      BY <1>0
  <2> QED BY <1>0, <1>5, <1>6, <1>8, <2>1
<1>9. Nat \subseteq T
  <2> HIDE DEF T
  <2> QED BY <1>7, <1>8, SetInduction
<1> QED BY <1>0, <1>5, <1>9 DEF low

\* The bin of a key is the lowest one of its last bit.
LEMMA BinIsLow ==
    ASSUME NEW k, NEW height \in Nat, \A i \in 1 .. SubtreeHeight : k[height + i] \in {0, 1}
    PROVE  BinIdx(k, height) = Lows(k, height)[SubtreeHeight]
<1> DEFINE H == SubtreeHeight
           Is(f, m) == f = [n \in 0 .. m |-> IF n = 0 THEN 0 ELSE 2 * f[n - 1] + k[height + n]]
           S == {m \in Nat : \E f : Is(f, m)}
           idx == CHOOSE f : Is(f, H)
           low == Lows(k, height)
<1>0. H \in Nat
    BY SparseMerkleTreeAssumption
<1>1. 0 \in S
  <2> DEFINE f == [n \in 0 .. 0 |-> 0]
  <2>1. Is(f, 0)
      OBVIOUS
  <2> QED BY <2>1
<1>2. ASSUME NEW m \in Nat, m \in S
      PROVE  m + 1 \in S
  <2>1. PICK f : Is(f, m)
      BY <1>2
  <2> DEFINE g == [n \in 0 .. m + 1 |-> IF n = 0 THEN 0 ELSE 2 * f[n - 1] + k[height + n]]
  <2>2. \A n \in 0 .. m : g[n] = f[n]
    <3> TAKE n \in 0 .. m
    <3>1. f[n] = IF n = 0 THEN 0 ELSE 2 * f[n - 1] + k[height + n]
        BY <2>1
    <3> QED BY <3>1
  <2>3. \A n \in 0 .. m + 1 : g[n] = IF n = 0 THEN 0 ELSE 2 * g[n - 1] + k[height + n]
    <3> TAKE n \in 0 .. m + 1
    <3>1. n # 0 => n - 1 \in 0 .. m
        OBVIOUS
    <3>2. n # 0 => g[n - 1] = f[n - 1]
        BY <2>2, <3>1
    <3> QED BY <3>2
  <2>4. Is(g, m + 1)
    <3>1. g = [n \in 0 .. m + 1 |-> g[n]]
        OBVIOUS
    <3> HIDE DEF g
    <3> QED BY <2>3, <3>1
  <2> HIDE DEF g, Is
  <2> QED BY <2>4
<1>3. H \in S
  <2> HIDE DEF S
  <2> QED BY <1>0, <1>1, <1>2, SetInduction
<1>4. BinIdx(k, height) = idx[H]
    BY DEF BinIdx
<1>5. Is(idx, H)
    BY <1>3
<1> HIDE DEF idx, low
<1>6. idx[0] = 0 /\ \A n \in 1 .. H : idx[n] = 2 * idx[n - 1] + k[height + n]
    BY <1>0, <1>5
<1>7. /\ low[0] = 0
      /\ \A i \in 1 .. H : low[i] = low[i - 1] + Weight(k, height, i)
    BY LowsAre DEF low
<1> HIDE DEF Is
<1> DEFINE Q(n) == idx[n] \in Nat /\ low[n] = idx[n] * Bins[H - n]
           T == {n \in Nat : n <= H => Q(n)}
<1>8. 0 \in T
  <2>1. Bins[H - 0] \in Nat
      BY <1>0, BinsAre
  <2> QED BY <1>6, <1>7, <2>1
<1>9. ASSUME NEW n \in Nat, n \in T
      PROVE  n + 1 \in T
  <2> SUFFICES ASSUME n + 1 <= H
               PROVE  idx[n + 1] \in Nat /\ low[n + 1] = idx[n + 1] * Bins[H - (n + 1)]
      OBVIOUS
  <2> DEFINE m == idx[n]
             B == Bins[H - (n + 1)]
             b == k[height + (n + 1)]
  <2>1. /\ n + 1 \in 1 .. H /\ (n + 1) - 1 = n /\ H - (n + 1) \in 0 .. H
        /\ H - n \in 1 .. H /\ (H - n) - 1 = H - (n + 1)
      BY <1>0
  <2>2. m \in Nat /\ low[n] = m * Bins[H - n]
    <3>1. Q(n)
      <4> HIDE DEF Q
      <4> QED BY <1>0, <1>9, <2>1
    <3> QED BY <3>1
  <2>3. Bins[H - n] = 2 * B /\ B \in Nat
      BY <2>1, BinsAre
  <2>4. b \in {0, 1}
      BY <2>1
  <2>5. idx[n + 1] = 2 * m + b
      BY <1>6, <2>1
  <2>6. low[n + 1] = low[n] + (IF b = 1 THEN B ELSE 0)
      BY <1>7, <2>1 DEF Weight
  <2> HIDE DEF m, B, b
  <2>7. (2 * m + b) * B = m * (2 * B) + (IF b = 1 THEN B ELSE 0)
      BY <2>2, <2>3, <2>4
  <2>8. 2 * m + b \in Nat
      BY <2>2, <2>4
  <2> QED BY <2>2, <2>3, <2>5, <2>6, <2>7, <2>8 DEF B
<1>10. H \in T
  <2> HIDE DEF T
  <2> QED BY <1>0, <1>8, <1>9, SetInduction
<1>11. low[H] = idx[H] * Bins[0] /\ idx[H] \in Nat
  <2>1. H - H = 0 /\ H <= H
      BY <1>0
  <2>2. Q(H)
    <3> HIDE DEF Q
    <3> QED BY <1>10, <2>1
  <2> QED BY <2>1, <2>2
<1>12. idx[H] * 1 = idx[H]
    BY <1>11
<1> QED BY <1>4, <1>11, <1>12, BinsAre DEF low

\* The bins below a node are below every node above it.
LEMMA BinInRange ==
    ASSUME NEW x, NEW height
    PROVE  \A i \in 0 .. SubtreeHeight :
               /\ Lows(x, height)[i] <= Lows(x, height)[SubtreeHeight]
               /\ Lows(x, height)[SubtreeHeight] < Lows(x, height)[i] + Bins[SubtreeHeight - i]
<1> DEFINE H == SubtreeHeight
           low == Lows(x, height)
           In(i) == low[i] <= low[H] /\ low[H] < low[i] + Bins[H - i]
           S == {n \in Nat : n <= H => In(H - n)}
<1>0. H \in Nat
    BY SparseMerkleTreeAssumption
<1>1. /\ \A i \in 1 .. H : low[i] = low[i - 1] + Weight(x, height, i)
      /\ \A i \in 0 .. H : low[i] \in Nat
    BY LowsAre
<1> HIDE DEF low
<1>2. 0 \in S
  <2>1. H - 0 = H /\ H - H = 0 /\ H \in 0 .. H
      BY <1>0
  <2>2. low[H] \in Nat /\ Bins[0] = 1
      BY <1>1, <2>1, BinsAre
  <2> QED BY <2>1, <2>2
<1>3. ASSUME NEW n \in Nat, n \in S
      PROVE  n + 1 \in S
  <2> SUFFICES ASSUME n + 1 <= H
               PROVE  In(H - (n + 1))
      OBVIOUS
  <2> DEFINE i == H - n
             B == Bins[n]
  <2>1. /\ i \in 1 .. H /\ i - 1 = H - (n + 1) /\ n <= H /\ H - i = n /\ H - (i - 1) = n + 1
        /\ n \in 0 .. H /\ n + 1 \in 1 .. H /\ (n + 1) - 1 = n /\ i - 1 \in 0 .. H /\ i \in 0 .. H
      BY <1>0
  <2>2. In(i)
      BY <1>3, <2>1
  <2>3. B \in Nat /\ Bins[n + 1] = 2 * B
      BY <2>1, BinsAre
  <2>4. low[i] = low[i - 1] + (IF x[height + i] = 1 THEN B ELSE 0)
      BY <1>1, <2>1 DEF Weight
  <2>5. low[i - 1] \in Nat /\ low[i] \in Nat /\ low[H] \in Nat
    <3>1. H \in 0 .. H
        BY <1>0
    <3> QED BY <1>1, <2>1, <3>1
  <2>6. low[i] <= low[H] /\ low[H] < low[i] + B
      BY <2>1, <2>2
  <2> HIDE DEF i, B
  <2>7. low[i - 1] <= low[H] /\ low[H] < low[i - 1] + Bins[n + 1]
      BY <2>3, <2>4, <2>5, <2>6
  <2> QED BY <2>1, <2>7
<1>4. Nat \subseteq S
  <2> HIDE DEF S
  <2> QED BY <1>2, <1>3, SetInduction
<1>5. \A i \in 0 .. H : In(i)
  <2> TAKE i \in 0 .. H
  <2>1. H - i \in Nat /\ H - i <= H /\ H - (H - i) = i
      BY <1>0
  <2>2. H - i \in S
      BY <1>4, <2>1
  <2> HIDE DEF In
  <2> QED BY <2>1, <2>2
<1> QED BY <1>5 DEF low

\* Two paths with the same bits at the levels of a subtree.
Agree(x, y, height, j) == \A i \in 1 .. j : x[height + i] = y[height + i]

\* Keys that agree have the same bins on their left.
LEMMA LowsAgree ==
    ASSUME NEW x, NEW y, NEW height, NEW j \in 0 .. SubtreeHeight, Agree(x, y, height, j)
    PROVE  Lows(x, height)[j] = Lows(y, height)[j]
<1> DEFINE H == SubtreeHeight
           f == Lows(x, height)
           g == Lows(y, height)
           S == {n \in Nat : n <= j => f[n] = g[n]}
<1>0. H \in Nat /\ j \in Nat /\ j <= H
    BY SparseMerkleTreeAssumption
<1>1. /\ f[0] = 0 /\ g[0] = 0
      /\ \A i \in 1 .. H : f[i] = f[i - 1] + Weight(x, height, i)
      /\ \A i \in 1 .. H : g[i] = g[i - 1] + Weight(y, height, i)
    BY LowsAre
<1> HIDE DEF f, g
<1>2. 0 \in S
    BY <1>1
<1>3. ASSUME NEW n \in Nat, n \in S
      PROVE  n + 1 \in S
  <2>1. n + 1 <= j => n + 1 \in 1 .. H /\ n + 1 \in 1 .. j /\ (n + 1) - 1 = n /\ n <= j
      BY <1>0
  <2>2. n + 1 <= j => Weight(x, height, n + 1) = Weight(y, height, n + 1)
      BY <2>1 DEF Weight, Agree
  <2> QED BY <1>1, <1>3, <2>1, <2>2
<1>4. j \in S
  <2> HIDE DEF S
  <2> QED BY <1>0, <1>2, <1>3, SetInduction
<1> QED BY <1>0, <1>4 DEF f, g

\* A bin is below one node of a level only.
LEMMA BinsApart ==
    ASSUME NEW x, NEW y, NEW height, NEW b \in Nat
    PROVE  \A j \in 0 .. SubtreeHeight :
               /\ \A i \in 1 .. j : x[height + i] \in {0, 1} /\ y[height + i] \in {0, 1}
               /\ Lows(x, height)[j] <= b /\ b < Lows(x, height)[j] + Bins[SubtreeHeight - j]
               /\ Lows(y, height)[j] <= b /\ b < Lows(y, height)[j] + Bins[SubtreeHeight - j]
               => Agree(x, y, height, j)
<1> DEFINE H == SubtreeHeight
           f == Lows(x, height)
           g == Lows(y, height)
           In(low, j) == low[j] <= b /\ b < low[j] + Bins[H - j]
           Bits(j) == \A i \in 1 .. j : x[height + i] \in {0, 1} /\ y[height + i] \in {0, 1}
           Same(j) == Agree(x, y, height, j)
           P(j) == Bits(j) /\ In(f, j) /\ In(g, j) => Same(j)
           S == {n \in Nat : n <= H => P(n)}
<1>0. H \in Nat
    BY SparseMerkleTreeAssumption
<1>1. /\ \A i \in 1 .. H : f[i] = f[i - 1] + Weight(x, height, i)
      /\ \A i \in 1 .. H : g[i] = g[i - 1] + Weight(y, height, i)
      /\ \A i \in 0 .. H : f[i] \in Nat /\ g[i] \in Nat
    BY LowsAre
<1>2. 0 \in S
    BY DEF Agree
<1>3. ASSUME NEW n \in Nat, n \in S
      PROVE  n + 1 \in S
  <2> SUFFICES ASSUME n + 1 <= H, Bits(n + 1), In(f, n + 1), In(g, n + 1)
               PROVE  Same(n + 1)
      OBVIOUS
  <2> DEFINE B == Bins[H - (n + 1)]
             s == x[height + (n + 1)]
             t == y[height + (n + 1)]
  <2>1. /\ n + 1 \in 1 .. H /\ n \in 0 .. H /\ n + 1 \in 0 .. H /\ (n + 1) - 1 = n /\ n <= H
        /\ H - (n + 1) \in 0 .. H /\ H - n \in 1 .. H /\ (H - n) - 1 = H - (n + 1)
      BY <1>0
  <2>2. B \in Nat /\ Bins[H - n] = 2 * B
      BY <2>1, BinsAre
  <2>3. /\ f[n + 1] = f[n] + (IF s = 1 THEN B ELSE 0)
        /\ g[n + 1] = g[n] + (IF t = 1 THEN B ELSE 0)
    <3> HIDE DEF f, g
    <3> QED BY <1>1, <2>1 DEF Weight
  <2>4. f[n] \in Nat /\ g[n] \in Nat
    <3> HIDE DEF f, g
    <3> QED BY <1>1, <2>1
  <2>5. s \in {0, 1} /\ t \in {0, 1}
    <3>1. n + 1 \in 1 .. n + 1
        OBVIOUS
    <3> QED BY <3>1
  <2>6. /\ f[n + 1] <= b /\ b < f[n + 1] + B
        /\ g[n + 1] <= b /\ b < g[n + 1] + B
      OBVIOUS
  <2> HIDE DEF f, g, B, s, t
  <2>7. In(f, n) /\ In(g, n)
      BY <2>2, <2>3, <2>4, <2>6
  <2>8. Bits(n)
      OBVIOUS
  <2>9. Same(n)
    <3> HIDE DEF In, Bits, Same
    <3> QED BY <1>3, <2>1, <2>7, <2>8
  <2>10. f[n] = g[n]
      BY <2>1, <2>9, LowsAgree DEF f, g
  <2>11. s = t
      BY <2>2, <2>3, <2>4, <2>5, <2>6, <2>10
  <2>12. \A i \in 1 .. n + 1 : i \in 1 .. n \/ i = n + 1
      OBVIOUS
  <2> QED BY <2>9, <2>11, <2>12 DEF s, t, Agree
<1>4. Nat \subseteq S
  <2> HIDE DEF S
  <2> QED BY <1>2, <1>3, SetInduction
<1>5. \A j \in 0 .. H : P(j)
  <2> TAKE j \in 0 .. H
  <2>1. j \in S /\ j <= H
      BY <1>0, <1>4
  <2> HIDE DEF P
  <2> QED BY <2>1
<1> QED BY <1>5

\* The keys of a node's bins are those below it.
LEMMA KeyInBins ==
    ASSUME NEW k \in Keys, NEW p \in Paths, Len(p) + SubtreeHeight <= KeyBits, Extends(k, p),
           NEW x \in Paths, Extends(x, p), Len(x) <= Len(p) + SubtreeHeight
    PROVE  BinIdx(k, Len(p)) \in
               Low(x, Len(p)) .. Low(x, Len(p)) + Size(Len(x) - Len(p)) - 1 <=> Extends(k, x)
<1> DEFINE H == SubtreeHeight
           height == Len(p)
           j == Len(x) - height
           b == BinIdx(k, height)
           f == Lows(x, height)
           g == Lows(k, height)
<1>0. /\ H \in Nat /\ KeyBits \in Nat /\ height \in Nat /\ Len(x) \in Nat /\ j \in 0 .. H
      /\ Len(x) = height + j /\ H \in 0 .. H /\ j \in Nat /\ j <= H
    BY SparseMerkleTreeAssumption, PathLength DEF Extends
<1>1. /\ Len(k) = KeyBits /\ \A i \in 1 .. KeyBits : k[i] \in {0, 1}
      /\ \A i \in 1 .. Len(x) : x[i] \in {0, 1}
    BY KeyIsPath, PathLength
<1>2. \A i \in 1 .. H : k[height + i] \in {0, 1}
    BY <1>0, <1>1
<1>3. \A i \in 1 .. j : x[height + i] \in {0, 1} /\ k[height + i] \in {0, 1}
    BY <1>0, <1>1, <1>2
<1>4. b = g[H]
    BY <1>0, <1>2, BinIsLow
<1>5. Low(x, height) = f[j] /\ Size(j) = Bins[H - j]
    BY DEF Low, Size
<1>6. f[j] \in Nat /\ g[j] \in Nat /\ g[H] \in Nat /\ Bins[H - j] \in Nat
  <2>1. H - j \in 0 .. H
      BY <1>0
  <2> QED BY <1>0, <2>1, LowsAre, BinsAre
<1>7. g[j] <= g[H] /\ g[H] < g[j] + Bins[H - j]
    BY <1>0, BinInRange
<1> HIDE DEF b, f, g, j, height
<1>8. b \in f[j] .. f[j] + Bins[H - j] - 1 <=> f[j] <= b /\ b < f[j] + Bins[H - j]
    BY <1>4, <1>6
<1>9. ASSUME Extends(k, x)
      PROVE  f[j] <= b /\ b < f[j] + Bins[H - j]
  <2>1. Agree(x, k, height, j)
      BY <1>0, <1>9 DEF Extends, Agree
  <2>2. f[j] = g[j]
    <3>1. j \in 0 .. SubtreeHeight
        BY <1>0
    <3> QED BY <2>1, <3>1, LowsAgree DEF f, g
  <2> QED BY <1>4, <1>7, <2>2
<1>10. ASSUME f[j] <= b, b < f[j] + Bins[H - j]
       PROVE  Extends(k, x)
  <2>1. Agree(x, k, height, j)
    <3>1. b \in Nat
        BY <1>4, <1>6
    <3>2. g[j] <= b /\ b < g[j] + Bins[H - j]
        BY <1>4, <1>7
    <3>3. /\ Lows(x, height)[j] <= b /\ b < Lows(x, height)[j] + Bins[SubtreeHeight - j]
          /\ Lows(k, height)[j] <= b /\ b < Lows(k, height)[j] + Bins[SubtreeHeight - j]
        BY <1>10, <3>2 DEF f, g
    <3>4. j \in 0 .. SubtreeHeight
        BY <1>0
    <3> HIDE DEF H
    <3> QED BY <1>3, <3>1, <3>3, <3>4, BinsApart
  <2>2. \A i \in 1 .. height : x[i] = p[i] /\ k[i] = p[i]
      BY DEF Extends, height
  <2>3. \A i \in 1 .. Len(x) : k[i] = x[i]
    <3> TAKE i \in 1 .. Len(x)
    <3>1. CASE i <= height
      <4>1. i \in 1 .. height
          BY <1>0, <3>1
      <4> QED BY <2>2, <4>1
    <3>2. CASE i > height
      <4>1. i - height \in 1 .. j /\ height + (i - height) = i
          BY <1>0, <3>2
      <4> QED BY <2>1, <4>1 DEF Agree
    <3> QED BY <1>0, <3>1, <3>2
  <2> QED BY <1>0, <1>1, <2>3, PathLength DEF Extends
<1>11. b \in Low(x, height) .. Low(x, height) + Size(j) - 1 <=> Extends(k, x)
    BY <1>5, <1>8, <1>9, <1>10
<1> QED BY <1>11 DEF b, j, height

\* The update data of a node.
LEMMA SliceIs ==
    ASSUME NEW D, DOMAIN D \in SUBSET Keys, NEW p \in Paths, Len(p) + SubtreeHeight <= KeyBits,
           NEW x \in Paths, Extends(x, p), Len(x) <= Len(p) + SubtreeHeight
    PROVE  Slice(Under(D, p), Len(p), Low(x, Len(p)), Size(Len(x) - Len(p))) = Under(D, x)
<1> DEFINE E == Under(D, p)
           lo == Low(x, Len(p))
           size == Size(Len(x) - Len(p))
           K == {k \in DOMAIN E : BinIdx(k, Len(p)) \in lo .. lo + size - 1}
<1>1. DOMAIN E = Below(DOMAIN D, p) /\ \A k \in DOMAIN E : E[k] = D[k]
    BY DEF Under
<1>2. Below(DOMAIN D, p) = {k \in DOMAIN D : Extends(k, p)}
    BY BelowExtends
<1>3. Below(DOMAIN D, x) = {k \in DOMAIN D : Extends(k, x)}
    BY BelowExtends
<1>4. ASSUME NEW k \in DOMAIN D
      PROVE  Extends(k, x) => Extends(k, p)
  <2>1. Len(p) \in Nat /\ Len(x) \in Nat /\ k \in Keys /\ Len(k) \in Nat
      BY PathLength DEF Keys, BitSeqs
  <2> QED BY <2>1 DEF Extends
<1>5. ASSUME NEW k \in DOMAIN D, Extends(k, p)
      PROVE  BinIdx(k, Len(p)) \in lo .. lo + size - 1 <=> Extends(k, x)
  <2>1. k \in Keys
      OBVIOUS
  <2> QED BY <1>5, <2>1, KeyInBins
<1>6. K = Below(DOMAIN D, x)
  <2> HIDE DEF E, lo, size
  <2> QED BY <1>1, <1>2, <1>3, <1>4, <1>5
<1>7. Slice(E, Len(p), lo, size) = [k \in K |-> E[k]]
    BY DEF Slice
<1>8. \A k \in K : E[k] = D[k]
    BY <1>1
<1> HIDE DEF E, lo, size, K
<1>9. Slice(E, Len(p), lo, size) = Under(D, x)
    BY <1>6, <1>7, <1>8 DEF Under
<1> QED BY <1>9 DEF E, lo, size

\* The bin after the last one below a node.
End(x, height) == Low(x, height) + Size(Len(x) - height)

\* Bins are numbers.
LEMMA LowType ==
    ASSUME NEW height \in Nat, NEW x \in BitSeqs, Len(x) \in height .. height + SubtreeHeight
    PROVE  Low(x, height) \in Nat /\ Size(Len(x) - height) \in Nat /\ End(x, height) \in Nat
<1> DEFINE j == Len(x) - height
<1>1. j \in 0 .. SubtreeHeight /\ SubtreeHeight - j \in 0 .. SubtreeHeight
    BY SparseMerkleTreeAssumption DEF BitSeqs
<1> HIDE DEF j
<1>2. Lows(x, height)[j] \in Nat /\ Bins[SubtreeHeight - j] \in Nat
    BY <1>1, LowsAre, BinsAre
<1> QED BY <1>2 DEF Low, Size, End, j

\* The bins of a place are those of its halves, one after the other.
LEMMA LowHalves ==
    ASSUME NEW height \in Nat, NEW x \in BitSeqs, Len(x) \in height .. height + SubtreeHeight - 1
    PROVE  /\ Low(Append(x, 0), height) = Low(x, height)
           /\ End(Append(x, 0), height) = Low(Append(x, 1), height)
           /\ End(Append(x, 1), height) = End(x, height)
<1> DEFINE H == SubtreeHeight
           j == Len(x) - height
           y == Append(x, 0)
           z == Append(x, 1)
           B == Bins[H - (j + 1)]
<1>1. /\ H \in Nat /\ Len(x) \in Nat /\ j \in Nat /\ j + 1 \in 1 .. H /\ (j + 1) - 1 = j
      /\ Len(x) = height + j /\ j \in 0 .. H
      /\ H - (j + 1) \in 0 .. H /\ H - j \in 1 .. H /\ (H - j) - 1 = H - (j + 1)
    BY SparseMerkleTreeAssumption DEF BitSeqs
<1>2. /\ y \in BitSeqs /\ Len(y) = Len(x) + 1 /\ y[Len(x) + 1] = 0 /\ \A i \in 1 .. Len(x) : y[i] = x[i]
      /\ z \in BitSeqs /\ Len(z) = Len(x) + 1 /\ z[Len(x) + 1] = 1 /\ \A i \in 1 .. Len(x) : z[i] = x[i]
    BY AppendBit
<1>3. B \in Nat /\ Bins[H - j] = 2 * B
    BY <1>1, BinsAre
<1> HIDE DEF j, y, z, B
<1>4. Agree(y, x, height, j) /\ Agree(z, x, height, j)
    BY <1>1, <1>2 DEF Agree
<1>5. Lows(y, height)[j] = Lows(x, height)[j] /\ Lows(z, height)[j] = Lows(x, height)[j]
    BY <1>1, <1>4, LowsAgree
<1>6. Len(y) - height = j + 1 /\ Len(z) - height = j + 1 /\ height + (j + 1) = Len(x) + 1
    BY <1>1, <1>2
<1>7. Weight(y, height, j + 1) = 0 /\ Weight(z, height, j + 1) = B
    BY <1>2, <1>6 DEF Weight, B
<1>8. /\ Lows(y, height)[j + 1] = Lows(y, height)[j] + Weight(y, height, j + 1)
      /\ Lows(z, height)[j + 1] = Lows(z, height)[j] + Weight(z, height, j + 1)
    BY <1>1, LowsAre
<1>9. Lows(x, height)[j] \in Nat
    BY <1>1, LowsAre
<1>10. /\ Low(y, height) = Lows(x, height)[j]
       /\ Low(z, height) = Lows(x, height)[j] + B
    BY <1>3, <1>5, <1>6, <1>7, <1>8, <1>9 DEF Low
<1>11. Low(x, height) = Lows(x, height)[j] /\ Size(Len(x) - height) = 2 * B
    BY <1>3 DEF Low, Size, j
<1>12. Size(Len(y) - height) = B /\ Size(Len(z) - height) = B
    BY <1>6 DEF Size, B
<1>13. /\ Low(y, height) = Low(x, height)
       /\ End(y, height) = Low(z, height)
       /\ End(z, height) = End(x, height)
    BY <1>3, <1>9, <1>10, <1>11, <1>12 DEF End
<1> QED BY <1>13 DEF y, z

\* The nodes of a frontier share the bins without a gap.
Tiles(a, height, lo, hi) ==
    /\ Low(a[1], height) = lo
    /\ End(a[Len(a)], height) = hi
    /\ \A i \in 1 .. Len(a) : i < Len(a) => Low(a[i + 1], height) = End(a[i], height)

\* The bins of two parts are those of the whole.
LEMMA TilesJoin ==
    ASSUME NEW u \in Seq(BitSeqs), NEW v \in Seq(BitSeqs), Len(u) > 0, Len(v) > 0,
           NEW height, NEW lo, NEW mid, NEW hi, Tiles(u, height, lo, mid), Tiles(v, height, mid, hi)
    PROVE  Tiles(u \o v, height, lo, hi)
<1> DEFINE a == u \o v
<1>1. /\ Len(a) = Len(u) + Len(v) /\ Len(u) \in Nat /\ Len(v) \in Nat
      /\ \A i \in 1 .. Len(u) : a[i] = u[i]
      /\ \A i \in 1 .. Len(u) + Len(v) : i > Len(u) => a[i] = v[i - Len(u)]
    BY ConcatElements
<1> HIDE DEF a
<1>2. /\ Low(u[1], height) = lo /\ End(u[Len(u)], height) = mid
      /\ Low(v[1], height) = mid /\ End(v[Len(v)], height) = hi
      /\ \A i \in 1 .. Len(u) : i < Len(u) => Low(u[i + 1], height) = End(u[i], height)
      /\ \A i \in 1 .. Len(v) : i < Len(v) => Low(v[i + 1], height) = End(v[i], height)
    BY DEF Tiles
<1>3. a[1] = u[1]
    BY <1>1
<1>4. a[Len(a)] = v[Len(v)]
  <2>1. Len(a) \in 1 .. Len(u) + Len(v) /\ Len(a) > Len(u) /\ Len(a) - Len(u) = Len(v)
      BY <1>1
  <2> QED BY <1>1, <2>1
<1>5. ASSUME NEW i \in 1 .. Len(a), i < Len(a)
      PROVE  Low(a[i + 1], height) = End(a[i], height)
  <2>1. CASE i < Len(u)
    <3>1. i \in 1 .. Len(u) /\ i + 1 \in 1 .. Len(u)
        BY <1>1, <2>1
    <3>2. a[i] = u[i] /\ a[i + 1] = u[i + 1]
        BY <1>1, <3>1
    <3> QED BY <1>2, <2>1, <3>1, <3>2
  <2>2. CASE i = Len(u)
    <3>1. i \in 1 .. Len(u) /\ i + 1 \in 1 .. Len(u) + Len(v) /\ i + 1 > Len(u) /\ (i + 1) - Len(u) = 1
        BY <1>1, <2>2
    <3>2. a[i] = u[Len(u)] /\ a[i + 1] = v[1]
        BY <1>1, <2>2, <3>1
    <3> QED BY <1>2, <3>2
  <2>3. CASE i > Len(u)
    <3> DEFINE m == i - Len(u)
    <3>1. /\ i \in 1 .. Len(u) + Len(v) /\ i + 1 \in 1 .. Len(u) + Len(v) /\ i + 1 > Len(u)
          /\ (i + 1) - Len(u) = m + 1 /\ m \in 1 .. Len(v) /\ m < Len(v)
        BY <1>1, <1>5, <2>3
    <3>2. a[i] = v[m] /\ a[i + 1] = v[m + 1]
        BY <1>1, <2>3, <3>1
    <3> HIDE DEF m
    <3> QED BY <1>2, <3>1, <3>2
  <2> QED BY <1>1, <2>1, <2>2, <2>3
<1>6. Tiles(a, height, lo, hi)
    BY <1>2, <1>3, <1>4, <1>5 DEF Tiles
<1> QED BY <1>6 DEF a

\* The places of a frontier divide the bins of its path among them, in
\* order.
LEMMA FrontTiles ==
    ASSUME NEW height \in Nat, NEW n \in 0 .. SubtreeHeight, NEW q \in BitSeqs, NEW a \in Fronts[n][q],
           Len(q) + n = height + SubtreeHeight
    PROVE  Tiles(a, height, Low(q, height), End(q, height))
<1> DEFINE P(m, p, b) == Len(p) + m = height + SubtreeHeight =>
                             Tiles(b, height, Low(p, height), End(p, height))
           S == [m \in 0 .. SubtreeHeight |-> [p \in BitSeqs |-> {b \in Seq(BitSeqs) : P(m, p, b)}]]
<1>0. SubtreeHeight \in Nat
    BY SparseMerkleTreeAssumption
<1>1. ASSUME NEW m \in 0 .. SubtreeHeight, NEW p \in BitSeqs
      PROVE  <<p>> \in S[m][p]
  <2>1. <<p>> \in Seq(BitSeqs) /\ Len(<<p>>) = 1 /\ <<p>>[1] = p
      OBVIOUS
  <2>2. P(m, p, <<p>>)
      BY <2>1 DEF Tiles
  <2> HIDE DEF P
  <2> QED BY <2>1, <2>2
<1>2. ASSUME NEW m \in Nat, NEW p \in BitSeqs, m < SubtreeHeight,
             NEW u \in Fronts[m][Append(p, 0)], NEW v \in Fronts[m][Append(p, 1)],
             u \in S[m][Append(p, 0)], v \in S[m][Append(p, 1)]
      PROVE  u \o v \in S[m + 1][p]
  <2>0. /\ P(m, Append(p, 0), u) /\ P(m, Append(p, 1), v)
        /\ S[m + 1][p] = {b \in Seq(BitSeqs) : P(m + 1, p, b)}
    <3>1. m \in 0 .. SubtreeHeight /\ m + 1 \in 0 .. SubtreeHeight
        BY <1>0, <1>2
    <3>2. Append(p, 0) \in BitSeqs /\ Append(p, 1) \in BitSeqs
        BY AppendBit
    <3> HIDE DEF P
    <3> QED BY <1>2, <3>1, <3>2
  <2>1. /\ u \in Seq(BitSeqs) /\ v \in Seq(BitSeqs) /\ Len(u) > 0 /\ Len(v) > 0
        /\ u \o v \in Seq(BitSeqs) /\ Len(p) \in Nat
        /\ Len(Append(p, 0)) = Len(p) + 1 /\ Len(Append(p, 1)) = Len(p) + 1
      BY <1>2, FrontHalves
  <2> SUFFICES ASSUME Len(p) + (m + 1) = height + SubtreeHeight
               PROVE  Tiles(u \o v, height, Low(p, height), End(p, height))
      BY <2>0, <2>1
  <2>2. /\ Len(Append(p, 0)) + m = height + SubtreeHeight
        /\ Len(Append(p, 1)) + m = height + SubtreeHeight
        /\ Len(p) \in height .. height + SubtreeHeight - 1
      BY <1>0, <1>2, <2>1
  <2>3. /\ Tiles(u, height, Low(Append(p, 0), height), End(Append(p, 0), height))
        /\ Tiles(v, height, Low(Append(p, 1), height), End(Append(p, 1), height))
      BY <2>0, <2>2
  <2>4. /\ Low(Append(p, 0), height) = Low(p, height)
        /\ End(Append(p, 0), height) = Low(Append(p, 1), height)
        /\ End(Append(p, 1), height) = End(p, height)
      BY <2>2, LowHalves
  <2>5. /\ Tiles(u, height, Low(p, height), Low(Append(p, 1), height))
        /\ Tiles(v, height, Low(Append(p, 1), height), End(p, height))
      BY <2>3, <2>4
  <2> QED BY <2>1, <2>5, TilesJoin
<1>3. a \in S[n][q]
  <2> HIDE DEF S
  <2> QED BY <1>1, <1>2, FrontInduction
<1> QED BY <1>3

\* The node of a place is made of the keys below it.
LEMMA NodeIsLocal ==
    ASSUME NEW c, IsContents(c), NEW d, IsContents(d), NEW p \in Paths, Under(c, p) = Under(d, p)
    PROVE  NodeAt(c, p) = NodeAt(d, p)
<1>1. /\ Below(DOMAIN c, p) = Below(DOMAIN d, p)
      /\ \A k \in Below(DOMAIN c, p) : c[k] = d[k]
      /\ Many(c, p) <=> Many(d, p)
    BY UnderDomain
<1>2. CASE Below(DOMAIN c, p) = {}
    BY <1>1, <1>2, NodeForms
<1>3. ASSUME NEW k, Below(DOMAIN c, p) = {k}
      PROVE  NodeAt(c, p) = NodeAt(d, p)
  <2>1. c[k] = d[k] /\ Below(DOMAIN d, p) = {k}
      BY <1>1, <1>3
  <2>2. NodeAt(c, p) = LeafNode(k, c[k]) /\ NodeAt(d, p) = LeafNode(k, d[k])
      BY <1>3, <2>1, NodeForms
  <2> QED BY <2>1, <2>2
<1>4. CASE Many(c, p)
  <2>1. NodeAt(c, p) = StubNode(RootBelow(c, p)) /\ NodeAt(d, p) = StubNode(RootBelow(d, p))
      BY <1>1, <1>4, NodeForms
  <2>2. RootBelow(c, p) = RootBelow(d, p)
      BY RootIsLocal
  <2> QED BY <2>1, <2>2
<1> QED BY <1>2, <1>3, <1>4, Forms

\* An empty node and a leaf are the same wherever they are.
LEMMA FewAnywhere ==
    ASSUME NEW c, IsContents(c), NEW d, IsContents(d), NEW p, NEW q, Under(c, p) = Under(d, q), ~Many(c, p)
    PROVE  ~Many(d, q) /\ NodeAt(c, p) = NodeAt(d, q)
<1>1. Below(DOMAIN c, p) = Below(DOMAIN d, q) /\ \A k \in Below(DOMAIN c, p) : c[k] = d[k]
  <2>1. DOMAIN Under(c, p) = Below(DOMAIN c, p) /\ DOMAIN Under(d, q) = Below(DOMAIN d, q)
      BY DEF Under
  <2>2. \A k \in Below(DOMAIN c, p) : Under(c, p)[k] = c[k]
      BY DEF Under
  <2>3. \A k \in Below(DOMAIN d, q) : Under(d, q)[k] = d[k]
      BY DEF Under
  <2> QED BY <2>1, <2>2, <2>3
<1>2. ~Many(d, q)
    BY <1>1 DEF Many
<1>3. CASE Below(DOMAIN c, p) = {}
    BY <1>1, <1>2, <1>3, NodeForms
<1>4. ASSUME NEW k, Below(DOMAIN c, p) = {k}
      PROVE  NodeAt(c, p) = NodeAt(d, q)
  <2>1. c[k] = d[k] /\ Below(DOMAIN d, q) = {k}
      BY <1>1, <1>4
  <2>2. NodeAt(c, p) = LeafNode(k, c[k]) /\ NodeAt(d, q) = LeafNode(k, d[k])
      BY <1>4, <2>1, NodeForms
  <2> QED BY <2>1, <2>2
<1> QED BY <1>2, <1>3, <1>4, Forms

\* A subtree without a branch is its only node.
LEMMA SingleSubtree ==
    ASSUME NEW c, NEW p \in BitSeqs, ~Many(c, p)
    PROVE  Subtree(c, p) = <<At(NodeAt(c, p), 0)>>
<1>0. SubtreeHeight \in 0 .. SubtreeHeight /\ Len(p) \in Nat /\ Len(p) - Len(p) = 0
    BY SparseMerkleTreeAssumption DEF BitSeqs
<1>1. NormalFront(c)[SubtreeHeight][p] = <<p>>
    BY <1>0, NormalEnds
<1> DEFINE f == Items(c, Len(p))
<1>2. f[p] = At(NodeAt(c, p), 0)
    BY <1>0 DEF Items
<1>3. Subtree(c, p) = RowOf(f, <<p>>)
    BY <1>1 DEF Subtree
<1> HIDE DEF f
<1>4. RowOf(f, <<p>>) = <<f[p]>>
    BY RowSingle
<1> QED BY <1>2, <1>3, <1>4

\* A subtree with a branch has more than one node.
LEMMA ManySubtree ==
    ASSUME NEW c, NEW p \in BitSeqs
    PROVE  /\ Subtree(c, p) # <<>>
           /\ Many(c, p) => Len(Subtree(c, p)) # 1
<1> DEFINE N == NormalFront(c)
           H == SubtreeHeight
           u == N[H - 1][Append(p, 0)]
           v == N[H - 1][Append(p, 1)]
<1>0. /\ H \in 0 .. H /\ H \in Nat /\ H > 0 /\ H - 1 \in 0 .. H /\ H - 1 \in Nat /\ H - 1 <= H /\ H <= H
      /\ Append(p, 0) \in BitSeqs /\ Append(p, 1) \in BitSeqs
    BY SparseMerkleTreeAssumption, AppendBit
<1>1. /\ N[H][p] \in Seq(BitSeqs) /\ Len(N[H][p]) > 0
      /\ u \in Seq(BitSeqs) /\ Len(u) > 0
      /\ v \in Seq(BitSeqs) /\ Len(v) > 0
  <2>1. N[H][p] \in Fronts[H][p] /\ u \in Fronts[H - 1][Append(p, 0)] /\ v \in Fronts[H - 1][Append(p, 1)]
      BY <1>0, NormalIsFront
  <2> HIDE DEF N, u, v
  <2> QED BY <1>0, <2>1, FrontExtends
<1>2. Len(Subtree(c, p)) = Len(N[H][p])
  <2>1. Subtree(c, p) = RowOf(Items(c, Len(p)), N[H][p])
      BY DEF Subtree
  <2> HIDE DEF N
  <2> QED BY <1>1, <2>1, RowLength
<1>3. ASSUME Many(c, p)
      PROVE  Len(N[H][p]) = Len(u) + Len(v)
  <2>1. N[H][p] = u \o v
      BY <1>0, <1>3, NormalParts
  <2> HIDE DEF N, u, v
  <2> QED BY <1>1, <2>1, ConcatElements
<1>4. Subtree(c, p) # <<>>
    BY <1>1, <1>2
<1> HIDE DEF N, u, v
<1>5. Len(u) \in Nat /\ Len(v) \in Nat
    BY <1>1
<1> QED BY <1>1, <1>2, <1>3, <1>4, <1>5

\* The normal frontier and the subtree of a place are made of the keys below it.
LEMMA NormalIsLocal ==
    ASSUME NEW c, IsContents(c), NEW d, IsContents(d)
    PROVE  \A n \in 0 .. SubtreeHeight : \A q \in Paths :
               Len(q) + n <= KeyBits /\ Under(c, q) = Under(d, q) => NormalFront(c)[n][q] = NormalFront(d)[n][q]
<1> DEFINE P(n, q) == Len(q) + n <= KeyBits /\ Under(c, q) = Under(d, q) =>
                          NormalFront(c)[n][q] = NormalFront(d)[n][q]
           S == {n \in Nat : n <= SubtreeHeight => \A q \in Paths : P(n, q)}
<1>0. SubtreeHeight \in Nat /\ KeyBits \in Nat
    BY SparseMerkleTreeAssumption
<1>1. 0 \in S
  <2>1. ASSUME NEW q \in Paths
        PROVE  NormalFront(c)[0][q] = NormalFront(d)[0][q]
    <3>1. 0 \in 0 .. SubtreeHeight /\ q \in BitSeqs
        BY <1>0, PathLength
    <3> QED BY <3>1, NormalEnds
  <2> QED BY <2>1
<1>2. ASSUME NEW n \in Nat, n \in S
      PROVE  n + 1 \in S
  <2> SUFFICES ASSUME n + 1 <= SubtreeHeight, NEW q \in Paths,
                      Len(q) + (n + 1) <= KeyBits, Under(c, q) = Under(d, q)
               PROVE  NormalFront(c)[n + 1][q] = NormalFront(d)[n + 1][q]
      OBVIOUS
  <2>1. /\ n + 1 \in 0 .. SubtreeHeight /\ (n + 1) - 1 = n /\ n + 1 > 0 /\ n <= SubtreeHeight
        /\ q \in BitSeqs /\ Len(q) \in Nat /\ Len(q) < KeyBits
      BY <1>0, PathLength
  <2>2. Many(c, q) <=> Many(d, q)
      BY UnderDomain
  <2>3. CASE ~Many(c, q)
      BY <2>1, <2>2, <2>3, NormalEnds
  <2>4. CASE Many(c, q)
    <3>1. ASSUME NEW b \in {0, 1}
          PROVE  NormalFront(c)[n][Append(q, b)] = NormalFront(d)[n][Append(q, b)]
      <4>1. Append(q, b) \in Paths /\ Len(Append(q, b)) = Len(q) + 1
          BY <2>1, PathExtends
      <4>2. Under(c, Append(q, b)) = Under(d, Append(q, b))
          BY <2>1, UnderStep
      <4>3. Len(Append(q, b)) + n <= KeyBits
          BY <1>0, <2>1, <4>1
      <4>4. P(n, Append(q, b))
        <5> HIDE DEF P
        <5> QED BY <1>2, <2>1, <4>1
      <4> QED BY <4>2, <4>3, <4>4
    <3>2. /\ NormalFront(c)[n + 1][q] =
                 NormalFront(c)[(n + 1) - 1][Append(q, 0)] \o NormalFront(c)[(n + 1) - 1][Append(q, 1)]
          /\ NormalFront(d)[n + 1][q] =
                 NormalFront(d)[(n + 1) - 1][Append(q, 0)] \o NormalFront(d)[(n + 1) - 1][Append(q, 1)]
        BY <2>1, <2>2, <2>4, NormalParts
    <3> QED BY <2>1, <3>1, <3>2
  <2> QED BY <2>3, <2>4
<1>3. Nat \subseteq S
  <2> HIDE DEF S
  <2> QED BY <1>1, <1>2, SetInduction
<1>4. \A n \in 0 .. SubtreeHeight : \A q \in Paths : P(n, q)
  <2> TAKE n \in 0 .. SubtreeHeight
  <2>1. n \in S /\ n <= SubtreeHeight
      BY <1>0, <1>3
  <2> HIDE DEF P
  <2> QED BY <2>1
<1> QED BY <1>4

\* The subtree of a place is made of the keys below it only.
LEMMA SubtreeIsLocal ==
    ASSUME NEW c, IsContents(c), NEW d, IsContents(d), NEW p \in Paths, Len(p) + SubtreeHeight <= KeyBits,
           Under(c, p) = Under(d, p)
    PROVE  Subtree(c, p) = Subtree(d, p)
<1> DEFINE a == NormalFront(c)[SubtreeHeight][p]
           H == Len(p)
<1>0. SubtreeHeight \in 0 .. SubtreeHeight /\ p \in BitSeqs
    BY SparseMerkleTreeAssumption, PathLength
<1>1. a = NormalFront(d)[SubtreeHeight][p]
    BY <1>0, NormalIsLocal
<1>2. a \in Fronts[SubtreeHeight][p]
    BY <1>0, NormalIsFront
<1>3. Subtree(c, p) = RowOf(Items(c, H), a) /\ Subtree(d, p) = RowOf(Items(d, H), a)
    BY <1>1 DEF Subtree
<1> HIDE DEF a
<1>4. /\ a \in Seq(BitSeqs) /\ Len(a) \in Nat
      /\ \A i \in 1 .. Len(a) : a[i] \in BitSeqs /\ a[i] \in Paths /\ Extends(a[i], p)
    BY <1>0, <1>2, SubtreeRow
<1>5. \A i \in 1 .. Len(a) : Items(c, H)[a[i]] = Items(d, H)[a[i]]
  <2> TAKE i \in 1 .. Len(a)
  <2>1. Under(c, a[i]) = Under(d, a[i])
      BY <1>4, UnderExtension
  <2>2. NodeAt(c, a[i]) = NodeAt(d, a[i])
      BY <1>4, <2>1, NodeIsLocal
  <2> QED BY <1>4, <2>2 DEF Items
<1>6. DOMAIN a = 1 .. Len(a)
    BY <1>4
<1>7. RowOf(Items(c, H), a) = RowOf(Items(d, H), a)
    BY <1>5, <1>6 DEF RowOf
<1> QED BY <1>3, <1>7

\* What is stored under a hash.
IsStored(h, items) ==
    \E c, p : /\ IsContents(c) /\ p \in Paths /\ Len(p) + SubtreeHeight <= KeyBits
              /\ h = RootBelow(c, p) /\ items = Subtree(c, p)

\* Under every hash there is the subtree of some contents with this root.
StoreOK(ns) == \A h \in DOMAIN ns : IsStored(h, ns[h])

\* The subtree of a place.
TreeAt(c, p) == [items |-> Subtree(c, p), root |-> RootBelow(c, p)]

\* Whatever is stored under the root of a place is the subtree of the
\* place.
LEMMA StoredTree ==
    ASSUME NEW c, IsContents(c), NEW p \in Paths, Len(p) + SubtreeHeight <= KeyBits,
           NEW items, IsStored(RootBelow(c, p), items)
    PROVE  FromData(items) = TreeAt(c, p)
<1>1. PICK d, q : /\ IsContents(d) /\ q \in Paths /\ Len(q) + SubtreeHeight <= KeyBits
                  /\ RootBelow(c, p) = RootBelow(d, q) /\ items = Subtree(d, q)
    BY DEF IsStored
<1>2. Under(c, p) = Under(d, q) /\ (Many(c, p) => p = q)
    BY <1>1, RootTells
<1>3. Subtree(c, p) = Subtree(d, q)
  <2>1. CASE Many(c, p)
      BY <1>1, <1>2, <2>1, SubtreeIsLocal
  <2>2. CASE ~Many(c, p)
    <3>1. ~Many(d, q) /\ NodeAt(c, p) = NodeAt(d, q)
        BY <1>1, <1>2, <2>2, FewAnywhere
    <3>2. p \in BitSeqs /\ q \in BitSeqs
        BY <1>1, PathLength
    <3>3. Subtree(c, p) = <<At(NodeAt(c, p), 0)>> /\ Subtree(d, q) = <<At(NodeAt(d, q), 0)>>
        BY <2>2, <3>1, <3>2, SingleSubtree
    <3> QED BY <3>1, <3>3
  <2> QED BY <2>1, <2>2
<1>4. FromData(Subtree(c, p)) = TreeAt(c, p)
    BY FromDataIs DEF TreeAt
<1> QED BY <1>1, <1>3, <1>4

\* A subtree is not a missing one.
LEMMA TreeIsThere ==
    ASSUME NEW c, NEW p \in Paths
    PROVE  TreeAt(c, p) # Missing
<1>1. p \in BitSeqs
    BY PathLength
<1>2. Subtree(c, p) # <<>>
    BY <1>1, ManySubtree
<1> QED BY <1>2 DEF TreeAt, Missing

\* A node alone is the subtree of its place.
LEMMA FewTree ==
    ASSUME NEW c, IsContents(c), NEW p \in Paths, Len(p) + SubtreeHeight <= KeyBits, ~Many(c, p)
    PROVE  FromData(<<At(NodeAt(c, p), 0)>>) = TreeAt(c, p)
<1>1. p \in BitSeqs
    BY PathLength
<1>2. Subtree(c, p) = <<At(NodeAt(c, p), 0)>>
    BY <1>1, SingleSubtree
<1>3. FromData(Subtree(c, p)) = TreeAt(c, p)
    BY FromDataIs DEF TreeAt
<1> QED BY <1>2, <1>3

\* The root of a place is the empty hash where there are no keys, and only
\* there.
LEMMA EmptyRoot ==
    ASSUME NEW c, IsContents(c), NEW p \in Paths
    PROVE  RootBelow(c, p) = EmptyHash <=> Below(DOMAIN c, p) = {}
<1>1. /\ Below(DOMAIN c, p) = {} => RootBelow(c, p) = EmptyHash
      /\ \A k : Below(DOMAIN c, p) = {k} => RootBelow(c, p) = LeafHash(k, c[k])
      /\ Many(c, p) => RootBelow(c, p) = BranchHash(RootBelow(c, Append(p, 0)), RootBelow(c, Append(p, 1)))
    BY RootForms
<1>2. ASSUME NEW k, Below(DOMAIN c, p) = {k}
      PROVE  RootBelow(c, p) # EmptyHash
  <2>1. RootBelow(c, p) = LeafHash(k, c[k])
      BY <1>1, <1>2
  <2> QED BY <2>1, EmptyIsNoLeaf
<1>3. ASSUME Many(c, p)
      PROVE  RootBelow(c, p) # EmptyHash
  <2>1. RootBelow(c, p) = BranchHash(RootBelow(c, Append(p, 0)), RootBelow(c, Append(p, 1)))
      BY <1>1, <1>3
  <2> QED BY <2>1, EmptyIsNoBranch
<1> QED BY <1>1, <1>2, <1>3, Forms

\* get_subtree of the root of a place.
LEMMA GetIs ==
    ASSUME NEW ns, StoreOK(ns), NEW c, IsContents(c), NEW p \in Paths, Len(p) + SubtreeHeight <= KeyBits
    PROVE  /\ GetSubtree(ns, RootBelow(c, p)) # Missing => GetSubtree(ns, RootBelow(c, p)) = TreeAt(c, p)
           /\ RootBelow(c, p) \in DOMAIN ns \/ Below(DOMAIN c, p) = {} =>
                  GetSubtree(ns, RootBelow(c, p)) # Missing
<1> DEFINE h == RootBelow(c, p)
<1>1. CASE Below(DOMAIN c, p) = {}
  <2>1. h = EmptyHash
      BY <1>1, EmptyRoot
  <2>2. ~Many(c, p) /\ NodeAt(c, p) = EmptyNode
      BY <1>1, FormsDiffer, NodeForms
  <2>3. EmptySubtree = TreeAt(c, p)
      BY <2>2, FewTree DEF EmptySubtree
  <2>4. GetSubtree(ns, h) = TreeAt(c, p)
      BY <2>1, <2>3 DEF GetSubtree
  <2> QED BY <2>4, TreeIsThere
<1>2. CASE Below(DOMAIN c, p) # {}
  <2>1. h # EmptyHash
      BY <1>2, EmptyRoot
  <2>2. ASSUME h \in DOMAIN ns
        PROVE  GetSubtree(ns, h) = TreeAt(c, p)
    <3>1. IsStored(h, ns[h])
        BY <2>2 DEF StoreOK
    <3>2. FromData(ns[h]) = TreeAt(c, p)
        BY <3>1, StoredTree
    <3> QED BY <2>1, <2>2, <3>2 DEF GetSubtree
  <2>3. h \notin DOMAIN ns => GetSubtree(ns, h) = Missing
      BY <2>1 DEF GetSubtree
  <2> HIDE DEF h
  <2>4. /\ GetSubtree(ns, h) # Missing => GetSubtree(ns, h) = TreeAt(c, p)
        /\ h \in DOMAIN ns => GetSubtree(ns, h) # Missing
      BY <2>2, <2>3, TreeIsThere
  <2> QED BY <1>2, <2>4 DEF h
<1> QED BY <1>1, <1>2

\* The subtree below a node of the lowest level.
LEMMA BelowIs ==
    ASSUME NEW ns, StoreOK(ns), NEW c, IsContents(c), NEW x \in Paths, Len(x) + SubtreeHeight <= KeyBits
    PROVE  /\ SubtreeBelow(ns, NodeAt(c, x)) # Missing => SubtreeBelow(ns, NodeAt(c, x)) = TreeAt(c, x)
           /\ (Many(c, x) => RootBelow(c, x) \in DOMAIN ns) => SubtreeBelow(ns, NodeAt(c, x)) # Missing
<1> DEFINE node == NodeAt(c, x)
<1>1. node.hash = RootBelow(c, x)
    BY NodeHash
<1>2. /\ GetSubtree(ns, RootBelow(c, x)) # Missing => GetSubtree(ns, RootBelow(c, x)) = TreeAt(c, x)
      /\ RootBelow(c, x) \in DOMAIN ns \/ Below(DOMAIN c, x) = {} =>
             GetSubtree(ns, RootBelow(c, x)) # Missing
    BY GetIs
<1>3. /\ Below(DOMAIN c, x) = {} => node.kind = "empty"
      /\ (\E k : Below(DOMAIN c, x) = {k}) => node.kind = "leaf"
      /\ Many(c, x) => node.kind = "stub"
    BY NodeKinds
<1>4. CASE node.kind = "leaf"
  <2>1. ~Many(c, x)
      BY <1>3, <1>4
  <2>2. SubtreeBelow(ns, node) = TreeAt(c, x)
      BY <1>4, <2>1, FewTree DEF SubtreeBelow
  <2> QED BY <2>2, TreeIsThere
<1>5. CASE node.kind # "leaf"
  <2>1. SubtreeBelow(ns, node) = GetSubtree(ns, RootBelow(c, x))
      BY <1>1, <1>5 DEF SubtreeBelow
  <2>2. Below(DOMAIN c, x) = {} \/ Many(c, x)
      BY <1>3, <1>5, Forms
  <2> QED BY <1>2, <2>1, <2>2
<1> QED BY <1>4, <1>5

\* A subtree in the one above.
LEMMA CollapsedIs ==
    ASSUME NEW c, IsContents(c), NEW p \in Paths
    PROVE  Collapsed(TreeAt(c, p)) = NodeAt(c, p)
<1>1. p \in BitSeqs
    BY PathLength
<1>2. TreeAt(c, p).items = Subtree(c, p) /\ TreeAt(c, p).root = RootBelow(c, p)
    BY DEF TreeAt
<1>3. CASE Many(c, p)
  <2>1. Len(Subtree(c, p)) # 1
      BY <1>1, <1>3, ManySubtree
  <2>2. NodeAt(c, p) = StubNode(RootBelow(c, p))
      BY <1>3, NodeForms
  <2> QED BY <1>2, <2>1, <2>2 DEF Collapsed
<1>4. CASE ~Many(c, p)
  <2> DEFINE e == At(NodeAt(c, p), 0)
  <2>1. Subtree(c, p) = <<e>>
      BY <1>1, <1>4, SingleSubtree
  <2>2. e.node = NodeAt(c, p)
      BY DEF At
  <2> HIDE DEF e
  <2>3. Len(<<e>>) = 1 /\ <<e>>[1] = e
      OBVIOUS
  <2> QED BY <1>2, <2>1, <2>2, <2>3 DEF Collapsed
<1> QED BY <1>3, <1>4

----------------------------------------------------------------------------
(* What an update makes of a node.                                         *)

\* An update sets the keys of its data and removes those with an empty
\* value.
LEMMA UpdatedIs ==
    ASSUME NEW c, IsContents(c), NEW D, DOMAIN D \in SUBSET Keys
    PROVE  /\ IsContents(Updated(c, D))
           /\ DOMAIN Updated(c, D) = {k \in DOMAIN c \union DOMAIN D : k \in DOMAIN D => D[k] # EmptyBytes}
           /\ \A k \in DOMAIN Updated(c, D) : Updated(c, D)[k] = IF k \in DOMAIN D THEN D[k] ELSE c[k]
<1> DEFINE K == (DOMAIN c \union DOMAIN D) \ {k \in DOMAIN D : D[k] = EmptyBytes}
           e == Updated(c, D)
<1>1. e = [k \in K |-> IF k \in DOMAIN D THEN D[k] ELSE c[k]]
    BY DEF Updated
<1>2. DOMAIN e = K /\ \A k \in K : e[k] = IF k \in DOMAIN D THEN D[k] ELSE c[k]
    BY <1>1
<1>3. K = {k \in DOMAIN c \union DOMAIN D : k \in DOMAIN D => D[k] # EmptyBytes}
    OBVIOUS
<1>4. K \subseteq Keys
    BY DEF IsContents
<1>5. e = [k \in DOMAIN e |-> e[k]]
  <2> HIDE DEF K
  <2> QED BY <1>1, <1>2
<1> HIDE DEF e
<1>6. IsContents(e)
    BY <1>2, <1>4, <1>5 DEF IsContents
<1> QED BY <1>2, <1>3, <1>6 DEF e

\* The same below a path.
LEMMA UpdatedBelow ==
    ASSUME NEW c, IsContents(c), NEW D, DOMAIN D \in SUBSET Keys, NEW x
    PROVE  Below(DOMAIN Updated(c, D), x) =
               {k \in Below(DOMAIN c, x) \union Below(DOMAIN D, x) : k \in DOMAIN D => D[k] # EmptyBytes}
<1>1. DOMAIN Updated(c, D) = {k \in DOMAIN c \union DOMAIN D : k \in DOMAIN D => D[k] # EmptyBytes}
    BY UpdatedIs
<1> DEFINE E == DOMAIN Updated(c, D)
<1> HIDE DEF E
<1>2. E = {k \in DOMAIN c \union DOMAIN D : k \in DOMAIN D => D[k] # EmptyBytes}
    BY <1>1 DEF E
<1>3. Below(E, x) = {k \in Below(DOMAIN c, x) \union Below(DOMAIN D, x) : k \in DOMAIN D => D[k] # EmptyBytes}
    BY <1>2 DEF Below
<1> QED BY <1>3 DEF E

\* A node without data is kept.
LEMMA KeptIs ==
    ASSUME NEW c, IsContents(c), NEW D, DOMAIN D \in SUBSET Keys, NEW x, Below(DOMAIN D, x) = {}
    PROVE  Under(Updated(c, D), x) = Under(c, x)
<1> DEFINE e == Updated(c, D)
<1>1. \A k \in Below(DOMAIN c, x) : k \in DOMAIN c /\ k \notin DOMAIN D
    BY DEF Below
<1>2. Below(DOMAIN e, x) = Below(DOMAIN c, x)
    BY <1>1, UpdatedBelow
<1>3. \A k \in Below(DOMAIN e, x) : k \in DOMAIN e
    BY DEF Below
<1>4. \A k \in DOMAIN e : e[k] = IF k \in DOMAIN D THEN D[k] ELSE c[k]
    BY UpdatedIs
<1> HIDE DEF e
<1>5. \A k \in Below(DOMAIN c, x) : e[k] = c[k]
    BY <1>1, <1>2, <1>3, <1>4
<1>6. Under(e, x) = Under(c, x)
    BY <1>2, <1>5 DEF Under
<1> QED BY <1>6 DEF e

\* update_single_node makes the node of the updated contents.
LEMMA SingleIs ==
    ASSUME NEW c, IsContents(c), NEW D, DOMAIN D \in SUBSET Keys, NEW x,
           IsSingle(NodeAt(c, x), Under(D, x))
    PROVE  UpdateSingleNode(Under(D, x)) = NodeAt(Updated(c, D), x) /\ ~Many(Updated(c, D), x)
<1> DEFINE e == Updated(c, D)
           node == NodeAt(c, x)
           data == Under(D, x)
<1>1. DOMAIN data = Below(DOMAIN D, x) /\ \A k \in Below(DOMAIN D, x) : data[k] = D[k]
    BY DEF Under
<1>2. PICK k : /\ Below(DOMAIN D, x) = {k}
               /\ node.kind = "empty" \/ (node.kind = "leaf" /\ node.key = k)
    BY <1>1 DEF IsSingle
<1>3. Below(DOMAIN c, x) \subseteq {k}
  <2>1. CASE Below(DOMAIN c, x) = {}
      BY <2>1
  <2>2. ASSUME NEW l, Below(DOMAIN c, x) = {l}
        PROVE  Below(DOMAIN c, x) \subseteq {k}
    <3>1. node = LeafNode(l, c[l])
        BY <2>2, NodeForms
    <3>2. node.kind = "leaf" /\ node.key = l
        BY <3>1 DEF LeafNode
    <3> QED BY <1>2, <2>2, <3>2
  <2>3. CASE Many(c, x)
    <3>1. node.kind = "stub"
        BY <2>3, NodeKinds
    <3> QED BY <1>2, <3>1
  <2> QED BY <2>1, <2>2, <2>3, Forms
<1>4. k \in DOMAIN D /\ data[k] = D[k]
  <2>1. k \in Below(DOMAIN D, x)
      BY <1>2
  <2> QED BY <1>1, <2>1 DEF Below
<1>5. IsContents(e)
    BY UpdatedIs
<1>6. Below(DOMAIN e, x) =
          {l \in Below(DOMAIN c, x) \union Below(DOMAIN D, x) : l \in DOMAIN D => D[l] # EmptyBytes}
    BY UpdatedBelow
<1>7. UpdateSingleNode(data) = IF data[k] = EmptyBytes THEN EmptyNode ELSE LeafNode(k, data[k])
  <2>0. DOMAIN data = {k}
      BY <1>1, <1>2
  <2> HIDE DEF data
  <2> DEFINE u == CHOOSE l \in DOMAIN data : TRUE
  <2>1. u = k
      BY <2>0
  <2>2. UpdateSingleNode(data) = IF data[u] = EmptyBytes THEN EmptyNode ELSE LeafNode(u, data[u])
      BY DEF UpdateSingleNode
  <2> HIDE DEF u
  <2> QED BY <2>1, <2>2
<1> HIDE DEF e, data, node
<1>8. CASE D[k] = EmptyBytes
  <2>1. Below(DOMAIN e, x) = {}
      BY <1>2, <1>3, <1>4, <1>6, <1>8
  <2>2. NodeAt(e, x) = EmptyNode /\ ~Many(e, x)
      BY <1>5, <2>1, NodeForms, FormsDiffer
  <2> QED BY <1>4, <1>7, <1>8, <2>2 DEF e, data
<1>9. CASE D[k] # EmptyBytes
  <2>1. Below(DOMAIN e, x) = {k}
      BY <1>2, <1>3, <1>4, <1>6, <1>9
  <2>2. NodeAt(e, x) = LeafNode(k, e[k]) /\ ~Many(e, x)
      BY <1>5, <2>1, NodeForms, FormsDiffer
  <2>3. k \in DOMAIN e
      BY <2>1 DEF Below
  <2>4. e[k] = D[k]
      BY <1>4, <2>3, UpdatedIs DEF e
  <2> QED BY <1>4, <1>7, <1>9, <2>2, <2>4 DEF e, data
<1> QED BY <1>8, <1>9

\* A node without a branch is split by the next bit.
LEMMA SplitIs ==
    ASSUME NEW c, IsContents(c), NEW x \in Paths, Len(x) < KeyBits, ~Many(c, x),
           NEW height, NEW pos, height + pos = Len(x)
    PROVE  /\ LeftRight(NodeAt(c, x), height, pos) =
                  <<At(NodeAt(c, Append(x, 0)), pos + 1), At(NodeAt(c, Append(x, 1)), pos + 1)>>
           /\ ~Many(c, Append(x, 0)) /\ ~Many(c, Append(x, 1))
<1> DEFINE K == DOMAIN c
           y == Append(x, 0)
           z == Append(x, 1)
           node == NodeAt(c, x)
<1>1. K \in SUBSET Keys
    BY DEF IsContents
<1>2. /\ Below(K, y) = {k \in Below(K, x) : k[Len(x) + 1] = 0}
      /\ Below(K, z) = {k \in Below(K, x) : k[Len(x) + 1] = 1}
  <2>1. \A b \in {0, 1} : Below(K, Append(x, b)) = {k \in Below(K, x) : k[Len(x) + 1] = b}
    <3> HIDE DEF K
    <3> QED BY <1>1, BelowParts
  <2> QED BY <2>1
<1>3. height + pos + 1 = Len(x) + 1
    OBVIOUS
<1>4. ASSUME Below(K, x) = {}
      PROVE  /\ LeftRight(node, height, pos) = <<At(NodeAt(c, y), pos + 1), At(NodeAt(c, z), pos + 1)>>
             /\ ~Many(c, y) /\ ~Many(c, z)
  <2>1. Below(K, y) = {} /\ Below(K, z) = {}
      BY <1>2, <1>4
  <2>2. NodeAt(c, x) = EmptyNode /\ NodeAt(c, y) = EmptyNode /\ NodeAt(c, z) = EmptyNode
      BY <1>4, <2>1, NodeForms
  <2>3. EmptyNode.kind = "empty"
      BY DEF EmptyNode
  <2>4. ~Many(c, y) /\ ~Many(c, z)
      BY <2>1, FormsDiffer
  <2> QED BY <2>2, <2>3, <2>4 DEF LeftRight
<1>5. ASSUME NEW k, Below(K, x) = {k}
      PROVE  /\ LeftRight(node, height, pos) = <<At(NodeAt(c, y), pos + 1), At(NodeAt(c, z), pos + 1)>>
             /\ ~Many(c, y) /\ ~Many(c, z)
  <2>1. node = LeafNode(k, c[k])
      BY <1>5, NodeForms
  <2>2. node.kind = "leaf" /\ node.key = k
      BY <2>1 DEF LeafNode
  <2>3. k[Len(x) + 1] \in {0, 1}
    <3>1. k \in Keys
        BY <1>1, <1>5 DEF Below
    <3>2. k \in BitSeqs /\ Len(k) = KeyBits /\ Len(x) \in Nat /\ KeyBits \in Nat
        BY <3>1, KeyIsPath, PathLength
    <3> QED BY <3>2 DEF BitSeqs
  <2>4. CASE k[Len(x) + 1] = 1
    <3>1. Below(K, y) = {} /\ Below(K, z) = {k}
        BY <1>2, <1>5, <2>4
    <3>2. NodeAt(c, y) = EmptyNode /\ NodeAt(c, z) = node
        BY <2>1, <3>1, NodeForms
    <3>3. ~Many(c, y) /\ ~Many(c, z)
        BY <3>1, FormsDiffer
    <3>4. LeftRight(node, height, pos) = <<At(EmptyNode, pos + 1), At(node, pos + 1)>>
        BY <1>3, <2>2, <2>4 DEF LeftRight
    <3> QED BY <3>2, <3>3, <3>4
  <2>5. CASE k[Len(x) + 1] = 0
    <3>1. Below(K, y) = {k} /\ Below(K, z) = {}
        BY <1>2, <1>5, <2>5
    <3>2. NodeAt(c, y) = node /\ NodeAt(c, z) = EmptyNode
        BY <2>1, <3>1, NodeForms
    <3>3. ~Many(c, y) /\ ~Many(c, z)
        BY <3>1, FormsDiffer
    <3>4. LeftRight(node, height, pos) = <<At(node, pos + 1), At(EmptyNode, pos + 1)>>
        BY <1>3, <2>2, <2>5 DEF LeftRight
    <3> QED BY <3>2, <3>3, <3>4
  <2> QED BY <2>3, <2>4, <2>5
<1> QED BY <1>4, <1>5, Forms

\* Where a subtree goes on below there are bits left.
LEMMA GoesDeeper ==
    ASSUME NEW c, IsContents(c), NEW D, DOMAIN D \in SUBSET Keys, NEW x \in Paths,
           Below(DOMAIN D, x) # {}, ~IsSingle(NodeAt(c, x), Under(D, x))
    PROVE  Len(x) < KeyBits
<1> SUFFICES ASSUME Len(x) >= KeyBits PROVE FALSE
    BY PathLength
<1>1. Len(x) = KeyBits /\ KeyBits \in Nat
    BY PathLength
<1>2. ASSUME NEW K \in SUBSET Keys, NEW k \in Below(K, x)
      PROVE  k = x
  <2>1. k \in K /\ Extends(k, x)
      BY BelowExtends
  <2>2. k \in Paths /\ Len(k) = KeyBits
      BY <2>1, KeyIsPath
  <2>3. Extends(k, k)
      BY <1>1, <2>2 DEF Extends
  <2> QED BY <1>1, <2>1, <2>2, <2>3, PathFromKey
<1>3. Below(DOMAIN D, x) = {x}
    BY <1>2
<1>4. Below(DOMAIN c, x) \in {{}, {x}}
  <2>1. DOMAIN c \in SUBSET Keys
      BY DEF IsContents
  <2> QED BY <1>2, <2>1
<1>5. NodeAt(c, x).kind = "empty" \/ (NodeAt(c, x).kind = "leaf" /\ NodeAt(c, x).key = x)
  <2>1. CASE Below(DOMAIN c, x) = {}
      BY <2>1, NodeForms DEF EmptyNode
  <2>2. CASE Below(DOMAIN c, x) = {x}
    <3>1. NodeAt(c, x) = LeafNode(x, c[x])
        BY <2>2, NodeForms
    <3> QED BY <3>1 DEF LeafNode
  <2> QED BY <1>4, <2>1, <2>2
<1>6. DOMAIN Under(D, x) = {x}
    BY <1>3 DEF Under
<1> QED BY <1>5, <1>6 DEF IsSingle

\* A sequence with an element before it, and with one after it.
First(x, t) == <<x>> \o t

\* A sequence and a last element.
Then(u, x) == u \o <<x>>

\* A sequence that is not empty has a first element,
LEMMA HeadAndTail ==
    ASSUME NEW S, NEW s \in Seq(S), s # <<>>
    PROVE  \E x \in S, t \in Seq(S) : s = First(x, t)
<1> DEFINE x == Head(s)
           t == Tail(s)
<1>1. x \in S /\ t \in Seq(S) /\ Len(s) \in Nat /\ Len(s) > 0 /\ Len(t) = Len(s) - 1
      /\ x = s[1] /\ \A i \in 1 .. Len(s) - 1 : t[i] = s[i + 1]
    OBVIOUS
<1> HIDE DEF x, t
<1> DEFINE a == <<x>> \o t
<1>2. a \in Seq(S) /\ Len(a) = Len(s)
    BY <1>1
<1>3. \A i \in 1 .. Len(s) : a[i] = s[i]
    BY <1>1
<1> HIDE DEF a
<1>4. s = a
    BY <1>2, <1>3, SeqEqual
<1> QED BY <1>1, <1>4 DEF a, First

\* and can be taken apart.
LEMMA FirstParts ==
    ASSUME NEW S, NEW x \in S, NEW t \in Seq(S)
    PROVE  /\ First(x, t) # <<>>
           /\ Head(First(x, t)) = x
           /\ Tail(First(x, t)) = t
           /\ First(x, t)[1] = x
           /\ First(x, t) \in Seq(S)
<1> DEFINE a == <<x>> \o t
<1>1. /\ a \in Seq(S) /\ Len(a) = Len(t) + 1 /\ Len(t) \in Nat /\ a[1] = x
      /\ \A i \in 1 .. Len(t) : a[i + 1] = t[i]
    OBVIOUS
<1> HIDE DEF a
<1>2. a # <<>> /\ Head(a) = x
    BY <1>1
<1>3. Tail(a) = t
  <2>1. Tail(a) \in Seq(S) /\ Len(Tail(a)) = Len(t)
      BY <1>1, <1>2
  <2>2. \A i \in 1 .. Len(t) : Tail(a)[i] = t[i]
      BY <1>1, <1>2
  <2> QED BY <2>1, <2>2, SeqEqual
<1> QED BY <1>1, <1>2, <1>3 DEF a, First

\* What appending an element does.
LEMMA ThenIs ==
    ASSUME NEW S, NEW x \in S, NEW u \in Seq(S)
    PROVE  /\ Then(u, x) \in Seq(S)
           /\ Append(u, x) = Then(u, x)
           /\ Len(Then(u, x)) = Len(u) + 1
           /\ Then(u, x)[Len(u) + 1] = x
           /\ \A i \in 1 .. Len(u) : Then(u, x)[i] = u[i]
BY DEF Then

\* All branches of a normal frontier are at its end.
LEMMA NormalReady ==
    ASSUME NEW c
    PROVE  \A n \in 0 .. SubtreeHeight : \A q \in BitSeqs : Ready(c, NormalFront(c)[n][q], Len(q) + n)
<1> DEFINE P(n, q) == Ready(c, NormalFront(c)[n][q], Len(q) + n)
           S == {n \in Nat : n <= SubtreeHeight => \A q \in BitSeqs : P(n, q)}
<1>0. SubtreeHeight \in Nat
    BY SparseMerkleTreeAssumption
<1>1. ASSUME NEW n \in 0 .. SubtreeHeight, NEW q \in BitSeqs, n = 0 \/ ~Many(c, q)
      PROVE  P(n, q)
  <2>1. NormalFront(c)[n][q] = <<q>>
      BY <1>1, NormalEnds
  <2>2. Len(<<q>>) = 1 /\ <<q>>[1] = q /\ Len(q) \in Nat
      BY DEF BitSeqs
  <2> QED BY <1>1, <2>1, <2>2 DEF Ready
<1>2. 0 \in S
  <2>1. 0 \in 0 .. SubtreeHeight
      BY <1>0
  <2> HIDE DEF P
  <2> QED BY <1>1, <2>1
<1>3. ASSUME NEW n \in Nat, n \in S
      PROVE  n + 1 \in S
  <2> SUFFICES ASSUME n + 1 <= SubtreeHeight, NEW q \in BitSeqs
               PROVE  P(n + 1, q)
      OBVIOUS
  <2> DEFINE u == NormalFront(c)[n][Append(q, 0)]
             v == NormalFront(c)[n][Append(q, 1)]
  <2>1. /\ n + 1 \in 0 .. SubtreeHeight /\ (n + 1) - 1 = n /\ n + 1 > 0 /\ n <= SubtreeHeight
        /\ n \in 0 .. SubtreeHeight /\ Len(q) \in Nat
        /\ Append(q, 0) \in BitSeqs /\ Len(Append(q, 0)) + n = Len(q) + (n + 1)
        /\ Append(q, 1) \in BitSeqs /\ Len(Append(q, 1)) + n = Len(q) + (n + 1)
      BY <1>0, AppendBit DEF BitSeqs
  <2>2. CASE ~Many(c, q)
      BY <1>1, <2>1, <2>2
  <2>3. CASE Many(c, q)
    <3>1. NormalFront(c)[n + 1][q] = u \o v
        BY <2>1, <2>3, NormalParts
    <3>2. P(n, Append(q, 0)) /\ P(n, Append(q, 1))
      <4> HIDE DEF P
      <4> QED BY <1>3, <2>1
    <3>3. Ready(c, u, Len(q) + (n + 1)) /\ Ready(c, v, Len(q) + (n + 1))
        BY <2>1, <3>2
    <3>4. u \in Seq(BitSeqs) /\ v \in Seq(BitSeqs)
      <4>1. u \in Fronts[n][Append(q, 0)] /\ v \in Fronts[n][Append(q, 1)]
          BY <2>1, NormalIsFront
      <4> HIDE DEF u, v
      <4> QED BY <2>1, <4>1, FrontType
    <3> HIDE DEF u, v
    <3> QED BY <3>1, <3>3, <3>4, ReadyParts
  <2> QED BY <2>2, <2>3
<1>4. Nat \subseteq S
  <2> HIDE DEF S
  <2> QED BY <1>2, <1>3, SetInduction
<1>5. \A n \in 0 .. SubtreeHeight : \A q \in BitSeqs : P(n, q)
  <2> TAKE n \in 0 .. SubtreeHeight
  <2>1. n \in S /\ n <= SubtreeHeight
      BY <1>0, <1>4
  <2> HIDE DEF P
  <2> QED BY <2>1
<1> QED BY <1>5

----------------------------------------------------------------------------
(* Frames: u are the places done, v those to do.                           *)

\* A place where a subtree begins.
Boundary(q) == q \in Paths /\ Len(q) % SubtreeHeight = 0

\* The places u are done and v are to be done in the subtree of p.
Place(c0, c1, p, u, v) ==
    /\ Boundary(p) /\ Len(p) + SubtreeHeight <= KeyBits
    /\ u \o v \in Fronts[SubtreeHeight][p]
    /\ Ready(c1, u, Len(p) + SubtreeHeight)
    /\ Ready(c0, v, Len(p) + SubtreeHeight)

\* The first bin of the places to be done; behind the last one when there
\* are none.
LowOf(p, v) == IF v = <<>> THEN Bins[SubtreeHeight] ELSE Low(v[1], Len(p))

\* A frame and what is in it, but for the subtree it came from.
FrameIs(fr, data, height, todo, done, low) ==
    fr = [subtree |-> fr.subtree, data |-> data, height |-> height,
          todo |-> todo, done |-> done, low |-> low]

\* A frame of the stack with the places u done and v to be done.
FrameWith(fr, c0, c1, D, p, u, v) ==
    /\ Place(c0, c1, p, u, v)
    /\ FrameIs(fr, Under(D, p), Len(p), RowOf(Items(c0, Len(p)), v), RowOf(Items(c1, Len(p)), u), LowOf(p, v))

\* What a frame consists of,
LEMMA FrameFields ==
    ASSUME NEW fr, NEW data, NEW height, NEW todo, NEW done, NEW low,
           FrameIs(fr, data, height, todo, done, low)
    PROVE  /\ fr.data = data /\ fr.height = height /\ fr.todo = todo
           /\ fr.done = done /\ fr.low = low
<1> DEFINE sub == fr.subtree
<1>1. fr = [subtree |-> sub, data |-> data, height |-> height,
            todo |-> todo, done |-> done, low |-> low]
    BY DEF FrameIs
<1> HIDE DEF sub
<1> QED BY <1>1

\* and what becomes of it when some of it changes.
LEMMA FrameChanges ==
    ASSUME NEW fr, NEW data, NEW height, NEW todo, NEW done, NEW low,
           FrameIs(fr, data, height, todo, done, low), NEW t, NEW d, NEW l
    PROVE  /\ FrameIs([fr EXCEPT !.todo = t, !.done = d, !.low = l], data, height, t, d, l)
           /\ FrameIs([fr EXCEPT !.todo = t], data, height, t, done, low)
<1> DEFINE sub == fr.subtree
           g == [fr EXCEPT !.todo = t, !.done = d, !.low = l]
           h == [fr EXCEPT !.todo = t]
<1>1. fr = [subtree |-> sub, data |-> data, height |-> height,
            todo |-> todo, done |-> done, low |-> low]
    BY DEF FrameIs
<1> HIDE DEF sub
<1> DEFINE r == [subtree |-> sub, data |-> data, height |-> height,
                 todo |-> todo, done |-> done, low |-> low]
<1>2. g = [subtree |-> sub, data |-> data, height |-> height, todo |-> t, done |-> d, low |-> l]
  <2> DEFINE q == [subtree |-> sub, data |-> data, height |-> height,
                   todo |-> t, done |-> done, low |-> low]
             m == [subtree |-> sub, data |-> data, height |-> height, todo |-> t, done |-> d, low |-> low]
             n == [subtree |-> sub, data |-> data, height |-> height, todo |-> t, done |-> d, low |-> l]
  <2>1. fr = r /\ [r EXCEPT !.todo = t] = q
      BY <1>1
  <2>2. [q EXCEPT !.done = d] = m
      OBVIOUS
  <2>3. [m EXCEPT !.low = l] = n
      OBVIOUS
  <2> HIDE DEF r, q, m, n
  <2>4. g = [[[fr EXCEPT !.todo = t] EXCEPT !.done = d] EXCEPT !.low = l]
      OBVIOUS
  <2>5. g = n
      BY <2>1, <2>2, <2>3, <2>4
  <2> QED BY <2>5 DEF n
<1>3. h = [subtree |-> sub, data |-> data, height |-> height, todo |-> t, done |-> done, low |-> low]
    BY <1>1
<1> HIDE DEF g, h
<1>4. g.subtree = sub /\ h.subtree = sub
    BY <1>2, <1>3
<1>5. FrameIs(g, data, height, t, d, l) /\ FrameIs(h, data, height, t, done, low)
    BY <1>2, <1>3, <1>4 DEF FrameIs
<1> QED BY <1>5 DEF g, h

\* Where the bins of a place begin and end.
LEMMA PlaceLow ==
    ASSUME NEW p \in Paths
    PROVE  Low(p, Len(p)) = 0 /\ End(p, Len(p)) = Bins[SubtreeHeight]
<1>1. Len(p) \in Nat /\ Len(p) - Len(p) = 0 /\ SubtreeHeight \in Nat /\ SubtreeHeight - 0 = SubtreeHeight
      /\ SubtreeHeight \in 0 .. SubtreeHeight
    BY SparseMerkleTreeAssumption, PathLength
<1>2. Lows(p, Len(p))[0] = 0 /\ Bins[SubtreeHeight] \in Nat
    BY <1>1, LowsAre, BinsAre
<1> QED BY <1>1, <1>2 DEF Low, End, Size

\* The place next in turn.
LEMMA PlaceParts ==
    ASSUME NEW c0, NEW c1, NEW p, NEW u \in Seq(BitSeqs), NEW x \in BitSeqs, NEW w \in Seq(BitSeqs),
           Place(c0, c1, p, u, First(x, w))
    PROVE  /\ p \in Paths /\ Len(p) \in Nat /\ x \in Paths /\ Extends(x, p)
           /\ Len(x) \in Len(p) .. Len(p) + SubtreeHeight
           /\ LowOf(p, w) = End(x, Len(p))
           /\ Then(u, x) \o w \in Fronts[SubtreeHeight][p]
           /\ Ready(c0, w, Len(p) + SubtreeHeight)
           /\ Many(c0, x) => Len(x) = Len(p) + SubtreeHeight
<1> DEFINE H == SubtreeHeight
           a == u \o (<<x>> \o w)
           i == Len(u) + 1
           v == <<x>> \o w
           s == <<x>>
<1>0. /\ H \in Nat /\ KeyBits \in Nat /\ H \in 0 .. H /\ H <= H
      /\ p \in Paths /\ p \in BitSeqs /\ Len(p) \in Nat /\ Len(p) + H <= KeyBits /\ a \in Fronts[H][p]
    BY SparseMerkleTreeAssumption, PathLength DEF Place, Boundary, First
<1>1. s \in Seq(BitSeqs) /\ Len(s) = 1 /\ s[1] = x
    OBVIOUS
<1>2. u \o v = (u \o s) \o w
    BY <1>1, ConcatAssociative
<1>3. /\ v \in Seq(BitSeqs) /\ Len(v) = 1 + Len(w) /\ Len(w) \in Nat /\ v[1] = x
      /\ \A m \in 1 .. 1 + Len(w) : m > 1 => v[m] = w[m - 1]
  <2> HIDE DEF s, v
  <2>1. v = s \o w
      BY DEF v, s
  <2>2. /\ s \o w \in Seq(BitSeqs) /\ Len(s \o w) = Len(s) + Len(w) /\ Len(w) \in Nat
        /\ \A m \in 1 .. Len(s) : (s \o w)[m] = s[m]
        /\ \A m \in 1 .. Len(s) + Len(w) : m > Len(s) => (s \o w)[m] = w[m - Len(s)]
      BY <1>1, ConcatElements
  <2> QED BY <1>1, <2>1, <2>2
<1>4. a = u \o v
    OBVIOUS
<1>5. Ready(c0, s, Len(p) + H) /\ Ready(c0, w, Len(p) + H)
  <2>1. Ready(c0, s \o w, Len(p) + H)
      BY DEF Place, First
  <2> HIDE DEF s
  <2> QED BY <1>1, <2>1, ReadyParts
<1>6. Many(c0, x) => Len(x) = Len(p) + H
  <2> HIDE DEF s
  <2> QED BY <1>1, <1>5 DEF Ready
<1> HIDE DEF a, v, s
<1>7. /\ Len(a) = Len(u) + Len(v) /\ Len(u) \in Nat
      /\ \A m \in 1 .. Len(u) + Len(v) : m > Len(u) => a[m] = v[m - Len(u)]
  <2>1. /\ Len(u \o v) = Len(u) + Len(v) /\ Len(u) \in Nat
        /\ \A m \in 1 .. Len(u) + Len(v) : m > Len(u) => (u \o v)[m] = v[m - Len(u)]
      BY <1>3, ConcatElements
  <2> QED BY <1>4, <2>1
<1>8. i \in 1 .. Len(a) /\ a[i] = x
  <2>1. i \in 1 .. Len(u) + Len(v) /\ i > Len(u) /\ i - Len(u) = 1
      BY <1>3, <1>7
  <2> QED BY <1>3, <1>7, <2>1
<1>9. Extends(x, p) /\ Len(x) <= Len(p) + H
  <2>1. \A m \in 1 .. Len(a) : a[m] \in BitSeqs /\ Extends(a[m], p) /\ Len(a[m]) <= Len(p) + H
      BY <1>0, FrontExtends
  <2> QED BY <1>8, <2>1
<1>10. Len(x) \in Len(p) .. Len(p) + H /\ x \in Paths
    BY <1>0, <1>9 DEF Extends, BitSeqs, Paths
<1>11. Tiles(a, Len(p), Low(p, Len(p)), End(p, Len(p)))
    BY <1>0, FrontTiles
<1>12. LowOf(p, w) = End(x, Len(p))
  <2>1. CASE w = <<>>
    <3>1. i = Len(a)
        BY <1>3, <1>7, <2>1
    <3>2. End(a[Len(a)], Len(p)) = End(p, Len(p))
        BY <1>11 DEF Tiles
    <3> QED BY <1>0, <1>8, <2>1, <3>1, <3>2, PlaceLow DEF LowOf
  <2>2. CASE w # <<>>
    <3>1. Len(w) > 0
        BY <1>3, <2>2
    <3>2. i < Len(a) /\ i + 1 \in 1 .. Len(u) + Len(v) /\ i + 1 > Len(u) /\ (i + 1) - Len(u) = 2
          /\ 2 \in 1 .. 1 + Len(w) /\ 2 - 1 = 1
        BY <1>3, <1>7, <3>1
    <3>3. v[2] = w[2 - 1]
        BY <1>3, <3>2
    <3>4. a[i + 1] = v[(i + 1) - Len(u)]
        BY <1>7, <3>2
    <3>5. a[i + 1] = w[1]
        BY <3>2, <3>3, <3>4
    <3>6. Low(a[i + 1], Len(p)) = End(a[i], Len(p))
        BY <1>8, <1>11, <3>2 DEF Tiles
    <3> QED BY <1>8, <2>2, <3>5, <3>6 DEF LowOf
  <2> QED BY <2>1, <2>2
<1> QED BY <1>0, <1>2, <1>4, <1>5, <1>6, <1>9, <1>10, <1>12 DEF v, s, a, Then

\* The entry of a place is one of the entries.
LEMMA ItemsType ==
    ASSUME NEW c, NEW height
    PROVE  \A x \in BitSeqs : Items(c, height)[x] \in ItemSet(c, height)
BY DEF ItemSet

\* A row with its first or its last entry.
LEMMA RowFirst ==
    ASSUME NEW c, NEW height, NEW x \in BitSeqs, NEW w \in Seq(BitSeqs)
    PROVE  RowOf(Items(c, height), First(x, w)) = First(Items(c, height)[x], RowOf(Items(c, height), w))
<1> DEFINE f == Items(c, height)
           s == <<x>>
<1>1. s \in Seq(BitSeqs)
    OBVIOUS
<1>2. RowOf(f, s) = <<f[x]>>
    BY RowSingle
<1> HIDE DEF s, f
<1>3. RowOf(f, s \o w) = RowOf(f, s) \o RowOf(f, w)
    BY <1>1, RowConcat
<1>4. RowOf(f, s \o w) = <<f[x]>> \o RowOf(f, w)
    BY <1>2, <1>3
<1> QED BY <1>4 DEF f, s, First

\* The row of a sequence and a last place.
LEMMA RowLast ==
    ASSUME NEW c, NEW height, NEW x \in BitSeqs, NEW u \in Seq(BitSeqs)
    PROVE  RowOf(Items(c, height), Then(u, x)) = Then(RowOf(Items(c, height), u), Items(c, height)[x])
<1> DEFINE f == Items(c, height)
           s == <<x>>
<1>1. s \in Seq(BitSeqs)
    OBVIOUS
<1>2. RowOf(f, s) = <<f[x]>>
    BY RowSingle
<1> HIDE DEF s, f
<1>3. RowOf(f, u \o s) = RowOf(f, u) \o RowOf(f, s)
    BY <1>1, RowConcat
<1>4. RowOf(f, u \o s) = RowOf(f, u) \o <<f[x]>>
    BY <1>2, <1>3
<1> QED BY <1>4 DEF f, s, Then

\* A row is a sequence of entries.
LEMMA RowIsSeq ==
    ASSUME NEW c, NEW height, NEW x \in BitSeqs, NEW w \in Seq(BitSeqs)
    PROVE  /\ RowOf(Items(c, height), w) \in Seq(ItemSet(c, height))
           /\ Items(c, height)[x] \in ItemSet(c, height)
<1> DEFINE f == Items(c, height)
           T == ItemSet(c, height)
<1>1. \A y \in BitSeqs : f[y] \in T
    BY ItemsType
<1> HIDE DEF f, T
<1>2. RowOf(f, w) \in Seq(T) /\ f[x] \in T
    BY <1>1, RowType
<1> QED BY <1>2 DEF f, T

\* What the frame of a place with x next holds.
HeldBy(fr, c0, c1, D, p, u, x, w) ==
    /\ fr.todo # <<>> /\ Head(fr.todo) = At(NodeAt(c0, x), Len(x) - Len(p))
    /\ Tail(fr.todo) = RowOf(Items(c0, Len(p)), w)
    /\ fr.data = Under(D, p) /\ fr.height = Len(p) /\ fr.low = Low(x, Len(p))
    /\ fr.done = RowOf(Items(c1, Len(p)), u)

\* A frame with a place to be done, in named parts.
LEMMA FrameHead ==
    ASSUME NEW c0, NEW c1, NEW D, NEW p,
           NEW u \in Seq(BitSeqs), NEW x \in BitSeqs, NEW w \in Seq(BitSeqs),
           NEW fr, FrameWith(fr, c0, c1, D, p, u, First(x, w))
    PROVE  HeldBy(fr, c0, c1, D, p, u, x, w)
<1> DEFINE v == First(x, w)
           e == Items(c0, Len(p))[x]
           r == RowOf(Items(c0, Len(p)), w)
           T == ItemSet(c0, Len(p))
<1>1. v # <<>> /\ v[1] = x
    BY FirstParts
<1>2. LowOf(p, v) = Low(x, Len(p))
  <2> HIDE DEF v
  <2> QED BY <1>1 DEF LowOf
<1>3. /\ fr.data = Under(D, p) /\ fr.height = Len(p) /\ fr.todo = RowOf(Items(c0, Len(p)), v)
      /\ fr.done = RowOf(Items(c1, Len(p)), u) /\ fr.low = LowOf(p, v)
    BY FrameFields DEF FrameWith
<1>4. fr.todo = First(e, r)
    BY <1>3, RowFirst
<1>5. e \in T /\ r \in Seq(T)
    BY RowIsSeq
<1>6. e = At(NodeAt(c0, x), Len(x) - Len(p))
    BY DEF Items
<1> HIDE DEF e, r, T, v
<1>7. fr.todo # <<>> /\ Head(fr.todo) = e /\ Tail(fr.todo) = r
    BY <1>4, <1>5, FirstParts
<1> QED BY <1>2, <1>3, <1>6, <1>7 DEF r, HeldBy

\* What update_node reads of the innermost frame.
LEMMA FrameNode ==
    ASSUME NEW c0, NEW c1, NEW D, DOMAIN D \in SUBSET Keys, NEW p,
           NEW u \in Seq(BitSeqs), NEW x \in BitSeqs, NEW w \in Seq(BitSeqs),
           NEW fr, FrameWith(fr, c0, c1, D, p, u, First(x, w))
    PROVE  /\ Head(fr.todo).node = NodeAt(c0, x) /\ Head(fr.todo).pos = Len(x) - Len(p)
           /\ Slice(fr.data, fr.height, fr.low, Size(Head(fr.todo).pos)) = Under(D, x)
<1> DEFINE e == At(NodeAt(c0, x), Len(x) - Len(p))
<1>1. /\ Head(fr.todo) = e /\ fr.data = Under(D, p) /\ fr.height = Len(p) /\ fr.low = Low(x, Len(p))
  <2>1. HeldBy(fr, c0, c1, D, p, u, x, w)
      BY FrameHead
  <2> QED BY <2>1 DEF HeldBy
<1>2. e.node = NodeAt(c0, x) /\ e.pos = Len(x) - Len(p)
    BY DEF At
<1> HIDE DEF e
<1>3. Place(c0, c1, p, u, First(x, w))
    BY DEF FrameWith
<1>4. /\ p \in Paths /\ Len(p) \in Nat /\ x \in Paths /\ Extends(x, p)
      /\ Len(x) \in Len(p) .. Len(p) + SubtreeHeight
    BY <1>3, PlaceParts
<1>5. Len(p) + SubtreeHeight <= KeyBits /\ SubtreeHeight \in Nat
    BY <1>3, SparseMerkleTreeAssumption DEF Place
<1>6. Len(x) <= Len(p) + SubtreeHeight
    BY <1>4, <1>5
<1>7. Slice(Under(D, p), Len(p), Low(x, Len(p)), Size(Len(x) - Len(p))) = Under(D, x)
    BY <1>4, <1>5, <1>6, SliceIs
<1> QED BY <1>1, <1>2, <1>7

\* The next place is done.
LEMMA FrameAdvance ==
    ASSUME NEW c0, NEW c1, NEW D, NEW p,
           NEW u \in Seq(BitSeqs), NEW x \in BitSeqs, NEW w \in Seq(BitSeqs),
           NEW fr, FrameWith(fr, c0, c1, D, p, u, First(x, w)),
           Many(c1, x) => Len(x) = Len(p) + SubtreeHeight
    PROVE  FrameWith(Advance(fr, NodeAt(c1, x)), c0, c1, D, p, Then(u, x), w)
<1> DEFINE I0 == Items(c0, Len(p))
           I1 == Items(c1, Len(p))
           pos == Len(x) - Len(p)
           e == At(NodeAt(c0, x), pos)
           t == RowOf(I0, w)
           d == RowOf(I1, Then(u, x))
           l == Low(x, Len(p)) + Size(pos)
<1>1. Place(c0, c1, p, u, First(x, w))
    BY DEF FrameWith
<1>2. /\ LowOf(p, w) = End(x, Len(p))
      /\ Then(u, x) \o w \in Fronts[SubtreeHeight][p]
      /\ Ready(c0, w, Len(p) + SubtreeHeight)
    BY <1>1, PlaceParts
<1>3. Ready(c1, Then(u, x), Len(p) + SubtreeHeight)
  <2> DEFINE s == <<x>>
  <2>1. s \in Seq(BitSeqs) /\ Len(s) = 1 /\ s[1] = x
      OBVIOUS
  <2> HIDE DEF s
  <2>2. Ready(c1, s, Len(p) + SubtreeHeight)
      BY <2>1 DEF Ready
  <2>3. Ready(c1, u, Len(p) + SubtreeHeight)
      BY <1>1 DEF Place
  <2>4. Ready(c1, u \o s, Len(p) + SubtreeHeight)
      BY <2>1, <2>2, <2>3, ReadyParts
  <2> QED BY <2>4 DEF s, Then
<1>4. Place(c0, c1, p, Then(u, x), w)
    BY <1>1, <1>2, <1>3 DEF Place
<1>5. /\ Head(fr.todo) = e /\ Tail(fr.todo) = t /\ fr.low = Low(x, Len(p)) /\ fr.done = RowOf(I1, u)
  <2>1. HeldBy(fr, c0, c1, D, p, u, x, w)
      BY FrameHead
  <2> QED BY <2>1 DEF HeldBy
<1>6. e.pos = pos
    BY DEF At
<1>7. Append(fr.done, At(NodeAt(c1, x), pos)) = d
  <2>1. I1[x] = At(NodeAt(c1, x), pos)
      BY DEF Items
  <2>2. RowOf(I1, u) \in Seq(ItemSet(c1, Len(p))) /\ I1[x] \in ItemSet(c1, Len(p))
      BY RowIsSeq
  <2>3. RowOf(I1, Then(u, x)) = Then(RowOf(I1, u), I1[x])
      BY RowLast
  <2> DEFINE row == RowOf(I1, u)
             y == I1[x]
             T == ItemSet(c1, Len(p))
  <2>4. row \in Seq(T) /\ y \in T
      BY <2>2
  <2>5. d = Then(row, y)
      BY <2>3
  <2> HIDE DEF row, y, T, d
  <2>6. Append(row, y) = Then(row, y)
      BY <2>4, ThenIs
  <2> QED BY <1>5, <2>1, <2>5, <2>6 DEF row, y
<1> HIDE DEF e, pos, t, d
<1>8. Advance(fr, NodeAt(c1, x)) = [fr EXCEPT !.todo = t, !.done = d, !.low = l]
    BY <1>5, <1>6, <1>7 DEF Advance
<1>9. l = LowOf(p, w)
    BY <1>2 DEF End, pos
<1>10. FrameIs([fr EXCEPT !.todo = t, !.done = d, !.low = l], Under(D, p), Len(p), t, d, l)
  <2> HIDE DEF l
  <2> DEFINE A == Under(D, p)
             B == Len(p)
             X == RowOf(Items(c0, Len(p)), First(x, w))
             Y == RowOf(Items(c1, Len(p)), u)
             Z == LowOf(p, First(x, w))
  <2>1. FrameIs(fr, A, B, X, Y, Z)
      BY DEF FrameWith
  <2> HIDE DEF A, B, X, Y, Z
  <2>2. FrameIs([fr EXCEPT !.todo = t, !.done = d, !.low = l], A, B, t, d, l)
      BY <2>1, FrameChanges
  <2> QED BY <2>2 DEF A, B
<1> QED BY <1>4, <1>8, <1>9, <1>10 DEF FrameWith, t, d

\* The place next in turn becomes its two halves.
LEMMA FirstIsReady ==
    ASSUME NEW c, NEW x \in BitSeqs, NEW w \in Seq(BitSeqs), NEW len, Ready(c, w, len), ~Many(c, x)
    PROVE  Ready(c, First(x, w), len)
<1> DEFINE s == <<x>>
<1>1. s \in Seq(BitSeqs) /\ Len(s) = 1 /\ s[1] = x
    OBVIOUS
<1> HIDE DEF s
<1>2. Ready(c, s, len)
    BY <1>1 DEF Ready
<1>3. Ready(c, s \o w, len)
    BY <1>1, <1>2, ReadyParts
<1> QED BY <1>3 DEF s, First

\* Splitting the first place.
LEMMA SplitFirst ==
    ASSUME NEW x \in BitSeqs, NEW w \in Seq(BitSeqs)
    PROVE  SplitAt(First(x, w), 1) = First(Append(x, 0), First(Append(x, 1), w))
<1> DEFINE s == <<x>>
           y == Append(x, 0)
           z == Append(x, 1)
<1>1. s \in Seq(BitSeqs) /\ Len(s) = 1 /\ s[1] = x /\ Len(w) \in Nat
    OBVIOUS
<1>2. y \in BitSeqs /\ z \in BitSeqs
    BY AppendBit
<1>3. SplitAt(s, 1) = <<y, z>>
    BY DEF SplitAt
<1> HIDE DEF s, y, z
<1>4. SplitAt(s \o w, 1) = SplitAt(s, 1) \o w
  <2>1. 1 \in 1 .. Len(s) + Len(w) /\ 1 <= Len(s)
      BY <1>1
  <2> QED BY <1>1, <2>1, SplitHalf
<1>5. <<y>> \o <<z>> = <<y, z>>
    BY <1>2, PairIsConcat
<1> DEFINE a == <<y>>
           b == <<z>>
<1>6. a \in Seq(BitSeqs) /\ b \in Seq(BitSeqs)
    BY <1>2
<1> HIDE DEF a, b
<1>7. (a \o b) \o w = a \o (b \o w)
    BY <1>6, ConcatAssociative
<1>8. SplitAt(s \o w, 1) = a \o (b \o w)
    BY <1>3, <1>4, <1>5, <1>7 DEF a, b
<1> QED BY <1>8 DEF s, a, b, y, z, First

\* A place without a branch below its halves may be split, and the frontier
\* stays one.
LEMMA PlaceSplit ==
    ASSUME NEW c0, NEW c1, NEW p, NEW u \in Seq(BitSeqs), NEW x \in BitSeqs, NEW w \in Seq(BitSeqs),
           Place(c0, c1, p, u, First(x, w)), Len(x) < Len(p) + SubtreeHeight,
           ~Many(c0, Append(x, 0)), ~Many(c0, Append(x, 1))
    PROVE  Place(c0, c1, p, u, First(Append(x, 0), First(Append(x, 1), w)))
<1> DEFINE H == SubtreeHeight
           y == Append(x, 0)
           z == Append(x, 1)
           v == First(x, w)
           r == First(y, First(z, w))
           a == u \o v
           i == Len(u) + 1
<1>1. H \in 0 .. H /\ p \in BitSeqs /\ a \in Fronts[H][p]
    BY SparseMerkleTreeAssumption, PathLength DEF Place, Boundary
<1>2. y \in BitSeqs /\ z \in BitSeqs /\ First(z, w) \in Seq(BitSeqs)
    BY AppendBit, FirstParts
<1>3. Ready(c0, w, Len(p) + H)
    BY PlaceParts
<1>4. Ready(c0, r, Len(p) + H)
  <2>1. Ready(c0, First(z, w), Len(p) + H)
    <3> HIDE DEF z
    <3> QED BY <1>2, <1>3, FirstIsReady DEF z
  <2> DEFINE t == First(z, w)
  <2>2. t \in Seq(BitSeqs) /\ Ready(c0, t, Len(p) + H) /\ ~Many(c0, y)
      BY <1>2, <2>1
  <2> HIDE DEF t, y
  <2>3. Ready(c0, First(y, t), Len(p) + H)
      BY <1>2, <2>2, FirstIsReady
  <2> QED BY <2>3 DEF t
<1>5. SplitAt(v, 1) = r
    BY SplitFirst
<1>6. v \in Seq(BitSeqs) /\ v[1] = x /\ v # <<>>
    BY FirstParts
<1> HIDE DEF v, r, y, z, H
<1>7. Len(v) \in Nat /\ Len(v) > 0 /\ Len(u) \in Nat
    BY <1>6
<1>8. /\ Len(a) = Len(u) + Len(v)
      /\ \A m \in 1 .. Len(u) + Len(v) : m > Len(u) => a[m] = v[m - Len(u)]
    BY <1>6, ConcatElements
<1>9. i \in 1 .. Len(u) + Len(v) /\ i > Len(u) /\ i - Len(u) = 1
    BY <1>7
<1>10. a[i] = x
    BY <1>6, <1>8, <1>9
<1>11. SplitAt(a, i) = u \o SplitAt(v, i - Len(u))
  <2> HIDE DEF i
  <2> QED BY <1>6, <1>9, SplitHalf
<1> HIDE DEF a, i
<1>12. i \in 1 .. Len(a) /\ Len(a[i]) < Len(p) + H
    BY <1>8, <1>9, <1>10 DEF H
<1>13. SplitAt(a, i) \in Fronts[H][p]
    BY <1>1, <1>12, FrontSplits DEF H
<1>14. u \o r \in Fronts[H][p]
    BY <1>5, <1>9, <1>11, <1>13
<1> QED BY <1>4, <1>14 DEF Place, H, r, y, z

\* The next place is split.
LEMMA FrameSplit ==
    ASSUME NEW c0, IsContents(c0), NEW c1, NEW D, NEW p,
           NEW u \in Seq(BitSeqs), NEW x \in BitSeqs, NEW w \in Seq(BitSeqs),
           NEW fr, FrameWith(fr, c0, c1, D, p, u, First(x, w)),
           ~Many(c0, x), Len(x) - Len(p) # SubtreeHeight
    PROVE  FrameWith([fr EXCEPT !.todo = LeftRight(NodeAt(c0, x), Len(p), Len(x) - Len(p)) \o Tail(fr.todo)],
                     c0, c1, D, p, u, First(Append(x, 0), First(Append(x, 1), w)))
<1> DEFINE H == SubtreeHeight
           y == Append(x, 0)
           z == Append(x, 1)
           r == First(y, First(z, w))
           I0 == Items(c0, Len(p))
           pos == Len(x) - Len(p)
           row == RowOf(I0, w)
           todo == RowOf(I0, r)
           g == [fr EXCEPT !.todo = LeftRight(NodeAt(c0, x), Len(p), pos) \o Tail(fr.todo)]
<1>1. Place(c0, c1, p, u, First(x, w)) /\ HeldBy(fr, c0, c1, D, p, u, x, w)
    BY FrameHead DEF FrameWith
<1>2. /\ p \in Paths /\ Len(p) \in Nat /\ x \in Paths
      /\ Len(x) \in Len(p) .. Len(p) + H
    BY <1>1, PlaceParts
<1>3. /\ H \in Nat /\ KeyBits \in Nat /\ Len(p) + H <= KeyBits
    BY <1>1, SparseMerkleTreeAssumption DEF Place
<1>4. Len(x) < Len(p) + H /\ Len(x) < KeyBits /\ Len(p) + pos = Len(x)
      /\ Len(x) \in Len(p) .. Len(p) + H - 1
    BY <1>2, <1>3
<1>5. /\ LeftRight(NodeAt(c0, x), Len(p), pos) = <<At(NodeAt(c0, y), pos + 1), At(NodeAt(c0, z), pos + 1)>>
      /\ ~Many(c0, y) /\ ~Many(c0, z)
  <2> HIDE DEF pos
  <2> QED BY <1>2, <1>4, SplitIs
<1>6. Place(c0, c1, p, u, r)
    BY <1>1, <1>4, <1>5, PlaceSplit
<1>7. /\ y \in BitSeqs /\ z \in BitSeqs /\ Len(y) = Len(x) + 1 /\ Len(z) = Len(x) + 1
    BY AppendBit
<1>8. Low(y, Len(p)) = Low(x, Len(p))
    BY <1>2, <1>4, LowHalves
<1>9. I0[y] = At(NodeAt(c0, y), pos + 1) /\ I0[z] = At(NodeAt(c0, z), pos + 1)
  <2> HIDE DEF y, z
  <2>1. Len(x) \in Nat
      BY <1>2, <1>3
  <2>2. Len(y) - Len(p) = pos + 1 /\ Len(z) - Len(p) = pos + 1
      BY <1>2, <1>7, <2>1
  <2> QED BY <1>7, <2>2 DEF Items
<1>10. LowOf(p, r) = LowOf(p, First(x, w))
  <2> DEFINE t == First(z, w)
             v == First(x, w)
  <2> HIDE DEF y, z
  <2>1. t \in Seq(BitSeqs) /\ v # <<>> /\ v[1] = x
      BY <1>7, FirstParts
  <2> HIDE DEF t, v
  <2>2. First(y, t) # <<>> /\ First(y, t)[1] = y
      BY <1>7, <2>1, FirstParts
  <2>3. LowOf(p, First(y, t)) = LowOf(p, v)
      BY <1>8, <2>1, <2>2 DEF LowOf
  <2> QED BY <2>3 DEF t, v
<1>11. Tail(fr.todo) = row
    BY <1>1 DEF HeldBy
<1>12. <<I0[y], I0[z]>> \o row = todo
  <2> DEFINE T == ItemSet(c0, Len(p))
             t == First(z, w)
             f == I0[y]
             h == I0[z]
             a == <<f>>
             b == <<h>>
  <2> HIDE DEF y, z
  <2>1. t \in Seq(BitSeqs)
      BY <1>7, FirstParts
  <2>2. RowOf(I0, t) = First(h, row)
      BY <1>7, RowFirst
  <2>3. RowOf(I0, First(y, t)) = First(f, RowOf(I0, t))
    <3> HIDE DEF t
    <3> QED BY <1>7, <2>1, RowFirst
  <2>4. row \in Seq(T) /\ f \in T /\ h \in T
      BY <1>7, RowIsSeq
  <2>5. todo = First(f, First(h, row))
      BY <2>2, <2>3
  <2> HIDE DEF f, h, row, T, todo
  <2>6. a \o b = <<f, h>>
      BY <2>4, PairIsConcat
  <2>10. a \in Seq(T) /\ b \in Seq(T) /\ row \in Seq(T)
      BY <2>4
  <2> HIDE DEF a, b
  <2>7. (a \o b) \o row = a \o (b \o row)
      BY <2>10, ConcatAssociative
  <2>8. todo = a \o (b \o row)
      BY <2>5 DEF a, b, First
  <2>9. <<f, h>> \o row = todo
      BY <2>6, <2>7, <2>8
  <2> QED BY <2>9 DEF f, h
<1> HIDE DEF I0, pos, row, todo, y, z
<1>13. g = [fr EXCEPT !.todo = todo]
    BY <1>5, <1>9, <1>11, <1>12
<1>14. FrameIs([fr EXCEPT !.todo = todo], Under(D, p), Len(p), todo, RowOf(Items(c1, Len(p)), u), LowOf(p, First(x, w)))
  <2> DEFINE A == Under(D, p)
             B == Len(p)
             X == RowOf(Items(c0, Len(p)), First(x, w))
             Y == RowOf(Items(c1, Len(p)), u)
             Z == LowOf(p, First(x, w))
  <2>1. FrameIs(fr, A, B, X, Y, Z)
      BY DEF FrameWith
  <2> HIDE DEF A, B, X, Y, Z
  <2>2. FrameIs([fr EXCEPT !.todo = todo], A, B, todo, Y, Z)
      BY <2>1, FrameChanges
  <2> QED BY <2>2 DEF A, B, Y, Z
<1>15. FrameIs(g, Under(D, p), Len(p), todo, RowOf(Items(c1, Len(p)), u), LowOf(p, r))
    BY <1>10, <1>13, <1>14
<1> HIDE DEF g, r
<1> QED BY <1>6, <1>15 DEF FrameWith, g, r, todo, I0, pos, y, z

\* The row of no places is empty.
LEMMA RowOfNone ==
    ASSUME NEW f
    PROVE  RowOf(f, <<>>) = <<>>
BY DEF RowOf

\* Joining nothing changes nothing.
LEMMA NothingJoined ==
    ASSUME NEW S, NEW s \in Seq(S)
    PROVE  <<>> \o s = s /\ s \o <<>> = s
OBVIOUS

\* A subtree on entry.
LEMMA FrameStart ==
    ASSUME NEW c0, IsContents(c0), NEW c1, NEW D, NEW p, Boundary(p), Len(p) + SubtreeHeight <= KeyBits
    PROVE  FrameWith(Frame(TreeAt(c0, p), Under(D, p), Len(p)), c0, c1, D, p,
                     <<>>, NormalFront(c0)[SubtreeHeight][p])
<1> DEFINE H == SubtreeHeight
           v == NormalFront(c0)[H][p]
           fr == Frame(TreeAt(c0, p), Under(D, p), Len(p))
           none == <<>>
<1>1. H \in 0 .. H /\ H <= H /\ H \in Nat /\ p \in Paths /\ p \in BitSeqs /\ Len(p) \in Nat /\ Len(p) + H = Len(p) + H
    BY SparseMerkleTreeAssumption, PathLength DEF Boundary
<1>2. v \in Fronts[H][p]
    BY <1>1, NormalIsFront
<1>3. v \in Seq(BitSeqs) /\ v # <<>>
  <2>1. \A a \in Fronts[H][p] : a \in Seq(BitSeqs) /\ Len(a) > 0
      BY <1>1, FrontExtends
  <2> HIDE DEF v
  <2>2. v \in Seq(BitSeqs) /\ Len(v) > 0
      BY <1>2, <2>1
  <2> QED BY <2>2
<1>4. Ready(c0, v, Len(p) + H)
    BY <1>1, NormalReady
<1>5. Place(c0, c1, p, none, v)
  <2> HIDE DEF v
  <2>1. Ready(c1, none, Len(p) + H)
      BY DEF Ready
  <2>2. none \o v = v
      BY <1>3, NothingJoined
  <2> QED BY <1>2, <1>4, <2>1, <2>2 DEF Place
<1>6. LowOf(p, v) = 0
  <2> HIDE DEF v
  <2>1. Tiles(v, Len(p), Low(p, Len(p)), End(p, Len(p)))
      BY <1>1, <1>2, FrontTiles
  <2> QED BY <1>1, <1>3, <2>1, PlaceLow DEF Tiles, LowOf
<1>7. RowOf(Items(c1, Len(p)), none) = <<>>
    BY RowOfNone
<1>8. FrameIs(fr, Under(D, p), Len(p), Subtree(c0, p), <<>>, 0)
  <2> DEFINE sub == TreeAt(c0, p)
             A == Under(D, p)
             B == Len(p)
  <2>1. sub.items = Subtree(c0, p)
      BY DEF TreeAt
  <2> HIDE DEF sub, A, B
  <2>2. Frame(sub, A, B) = [subtree |-> sub, data |-> A, height |-> B,
                            todo |-> Subtree(c0, p), done |-> <<>>, low |-> 0]
      BY <2>1 DEF Frame
  <2> DEFINE g == Frame(sub, A, B)
  <2> HIDE DEF g
  <2>3. g.subtree = sub
      BY <2>2 DEF g
  <2>4. FrameIs(g, A, B, Subtree(c0, p), <<>>, 0)
      BY <2>2, <2>3 DEF FrameIs, g
  <2> QED BY <2>4 DEF g, sub, A, B
<1>9. Subtree(c0, p) = RowOf(Items(c0, Len(p)), v)
    BY DEF Subtree
<1> HIDE DEF v, fr
<1>10. FrameWith(fr, c0, c1, D, p, none, v)
    BY <1>5, <1>6, <1>7, <1>8, <1>9 DEF FrameWith
<1> QED BY <1>10 DEF fr, v

\* What the end of update_subtree makes of a frame.
LEMMA FrameDone ==
    ASSUME NEW c0, NEW c1, IsContents(c1), NEW D, NEW p, NEW u \in Seq(BitSeqs),
           NEW fr, FrameWith(fr, c0, c1, D, p, u, <<>>)
    PROVE  /\ CalculateSubtree(fr.done) = TreeAt(c1, p)
           /\ u \in Fronts[SubtreeHeight][p]
           /\ fr.todo = <<>> /\ fr.low = Bins[SubtreeHeight]
<1> DEFINE none == <<>>
           H == SubtreeHeight
<1>1. /\ Place(c0, c1, p, u, none) /\ fr.todo = RowOf(Items(c0, Len(p)), none)
      /\ fr.done = RowOf(Items(c1, Len(p)), u) /\ fr.low = LowOf(p, none)
    BY FrameFields DEF FrameWith
<1>2. fr.todo = <<>>
    BY <1>1, RowOfNone
<1>3. fr.low = Bins[H]
    BY <1>1 DEF LowOf
<1>4. u \o none = u
    BY NothingJoined
<1>5. u \in Fronts[H][p] /\ Ready(c1, u, Len(p) + H) /\ p \in Paths /\ Len(p) + H <= KeyBits
  <2> HIDE DEF none
  <2> QED BY <1>1, <1>4 DEF Place, Boundary
<1>6. CalculateSubtree(RowOf(Items(c1, Len(p)), u)) = [items |-> Subtree(c1, p), root |-> RootBelow(c1, p)]
    BY <1>5, CalculateIs
<1> QED BY <1>1, <1>2, <1>3, <1>5, <1>6 DEF TreeAt

\* The subtrees of the contents below a path are stored.
HasAt(ns, c, x) ==
    \A q : Boundary(q) /\ Extends(q, x) /\ Many(c, q) => RootBelow(c, q) \in DOMAIN ns

\* The subtrees at and below all these places are stored.
Has(ns, c, u) == \A i \in 1 .. Len(u) : HasAt(ns, c, u[i])

\* Extensions of extensions are extensions,
LEMMA ExtendsTwice ==
    ASSUME NEW x \in BitSeqs, NEW y \in BitSeqs, NEW z \in BitSeqs, Extends(z, y), Extends(y, x)
    PROVE  Extends(z, x)
<1>1. Len(x) \in Nat /\ Len(y) \in Nat /\ Len(z) \in Nat
    BY DEF BitSeqs
<1> QED BY <1>1 DEF Extends

\* a path extends itself,
LEMMA ExtendsItself ==
    ASSUME NEW x \in BitSeqs
    PROVE  Extends(x, x)
BY DEF Extends, BitSeqs

\* everything extends the root,
LEMMA ExtendsNothing ==
    ASSUME NEW x \in BitSeqs
    PROVE  Extends(x, <<>>) /\ <<>> \in Paths
BY SparseMerkleTreeAssumption DEF Extends, BitSeqs, Paths

\* and two paths that extend each other are one.
LEMMA ExtendsBoth ==
    ASSUME NEW x \in BitSeqs, NEW y \in BitSeqs, Extends(x, y), Extends(y, x)
    PROVE  x = y
<1>1. Len(x) = Len(y) /\ Len(x) \in Nat
    BY DEF Extends, BitSeqs
<1>2. \A i \in 1 .. Len(x) : x[i] = y[i]
    BY <1>1 DEF Extends
<1> QED BY <1>1, <1>2, SeqEqual DEF BitSeqs

\* The halves of a place extend it.
LEMMA HalfExtends ==
    ASSUME NEW x \in BitSeqs, NEW b \in {0, 1}
    PROVE  Extends(Append(x, b), x)
<1> DEFINE y == Append(x, b)
<1>1. Len(y) = Len(x) + 1 /\ \A i \in 1 .. Len(x) : y[i] = x[i]
    BY AppendBit
<1>2. Len(x) \in Nat
    BY DEF BitSeqs
<1> HIDE DEF y
<1>3. Extends(y, x)
    BY <1>1, <1>2 DEF Extends
<1> QED BY <1>3 DEF y

\* Where keys part below a path, they part above it.
LEMMA ManyAbove ==
    ASSUME NEW c, IsContents(c), NEW x \in Paths, NEW q \in Paths, Extends(q, x), Many(c, q)
    PROVE  Many(c, x)
<1> DEFINE K == DOMAIN c
<1>1. K \subseteq Keys
    BY DEF IsContents
<1>2. Below(K, x) = {k \in K : Extends(k, x)} /\ Below(K, q) = {k \in K : Extends(k, q)}
    BY <1>1, BelowExtends
<1>3. \A k \in Keys : Extends(k, q) => Extends(k, x)
  <2>1. x \in BitSeqs /\ q \in BitSeqs /\ \A k \in Keys : k \in BitSeqs
      BY PathLength, KeyIsPath
  <2> QED BY <2>1, ExtendsTwice
<1> HIDE DEF K
<1>4. Below(K, q) \subseteq Below(K, x)
    BY <1>1, <1>2, <1>3
<1> QED BY <1>4 DEF Many, K

\* All places of a sequence are the first and the others;
LEMMA HasFirst ==
    ASSUME NEW ns, NEW c, NEW x \in BitSeqs, NEW w \in Seq(BitSeqs)
    PROVE  Has(ns, c, First(x, w)) <=> HasAt(ns, c, x) /\ Has(ns, c, w)
<1> DEFINE v == First(x, w)
<1>1. /\ Len(v) = Len(w) + 1 /\ Len(w) \in Nat /\ v[1] = x
      /\ \A i \in 1 .. Len(w) : v[i + 1] = w[i]
    BY DEF First
<1>2. \A i \in 1 .. Len(v) : i = 1 \/ (i - 1 \in 1 .. Len(w) /\ v[i] = w[i - 1])
  <2> TAKE i \in 1 .. Len(v)
  <2>1. i # 1 => i - 1 \in 1 .. Len(w) /\ (i - 1) + 1 = i
      BY <1>1
  <2> HIDE DEF v
  <2> QED BY <1>1, <2>1
<1>3. 1 \in 1 .. Len(v) /\ \A i \in 1 .. Len(w) : i + 1 \in 1 .. Len(v)
    BY <1>1
<1> HIDE DEF v
<1> DEFINE A(y) == HasAt(ns, c, y)
<1>4. (\A i \in 1 .. Len(v) : A(v[i])) <=> A(x) /\ \A i \in 1 .. Len(w) : A(w[i])
  <2> HIDE DEF A
  <2>1. ASSUME \A i \in 1 .. Len(v) : A(v[i])
        PROVE  A(x) /\ \A i \in 1 .. Len(w) : A(w[i])
    <3>1. A(x)
        BY <1>1, <1>3, <2>1
    <3>2. ASSUME NEW i \in 1 .. Len(w)
          PROVE  A(w[i])
      <4>1. A(v[i + 1]) /\ v[i + 1] = w[i]
          BY <1>1, <1>3, <2>1
      <4> QED BY <4>1
    <3> QED BY <3>1, <3>2
  <2>2. ASSUME A(x), \A i \in 1 .. Len(w) : A(w[i]), NEW i \in 1 .. Len(v)
        PROVE  A(v[i])
      BY <1>1, <1>2, <2>2
  <2> QED BY <2>1, <2>2
<1> QED BY <1>4 DEF Has, v

\* a place more;
LEMMA HasThen ==
    ASSUME NEW ns, NEW c, NEW x \in BitSeqs, NEW u \in Seq(BitSeqs), Has(ns, c, u), HasAt(ns, c, x)
    PROVE  Has(ns, c, Then(u, x))
<1> DEFINE v == Then(u, x)
<1>1. /\ Len(v) = Len(u) + 1 /\ Len(u) \in Nat /\ v[Len(u) + 1] = x
      /\ \A i \in 1 .. Len(u) : v[i] = u[i]
    BY DEF Then
<1> HIDE DEF v
<1>2. ASSUME NEW i \in 1 .. Len(v)
      PROVE  HasAt(ns, c, v[i])
  <2>1. i = Len(u) + 1 \/ i \in 1 .. Len(u)
      BY <1>1
  <2> QED BY <1>1, <2>1 DEF Has
<1>3. Has(ns, c, v)
    BY <1>2 DEF Has
<1> QED BY <1>3 DEF v

\* a store that holds more;
LEMMA HasGrows ==
    ASSUME NEW ns, NEW ms, DOMAIN ns \subseteq DOMAIN ms, NEW c
    PROVE  /\ \A x : HasAt(ns, c, x) => HasAt(ms, c, x)
           /\ \A u : Has(ns, c, u) => Has(ms, c, u)
<1>1. \A x : HasAt(ns, c, x) => HasAt(ms, c, x)
    BY DEF HasAt
<1> QED BY <1>1 DEF Has

\* and what is stored below a path is stored further down.
LEMMA HasDeeper ==
    ASSUME NEW ns, NEW c, NEW x \in BitSeqs, NEW y \in BitSeqs, HasAt(ns, c, x), Extends(y, x)
    PROVE  HasAt(ns, c, y)
<1> SUFFICES ASSUME NEW q, Boundary(q), Extends(q, y), Many(c, q)
             PROVE  RootBelow(c, q) \in DOMAIN ns
    BY DEF HasAt
<1>1. q \in BitSeqs
    BY PathLength DEF Boundary
<1>2. Extends(q, x)
    BY <1>1, ExtendsTwice
<1> QED BY <1>2 DEF HasAt

\* Contents that agree below a path have the same subtrees there.
LEMMA HasLocal ==
    ASSUME NEW ns, NEW c, IsContents(c), NEW d, IsContents(d), NEW x \in Paths,
           Under(c, x) = Under(d, x), HasAt(ns, c, x)
    PROVE  HasAt(ns, d, x)
<1> SUFFICES ASSUME NEW q, Boundary(q), Extends(q, x), Many(d, q)
             PROVE  RootBelow(d, q) \in DOMAIN ns
    BY DEF HasAt
<1>1. q \in Paths
    BY DEF Boundary
<1>2. Under(c, q) = Under(d, q)
    BY <1>1, UnderExtension
<1>3. Many(c, q)
    BY <1>2, UnderDomain
<1>4. RootBelow(c, q) = RootBelow(d, q)
    BY <1>1, <1>2, RootIsLocal
<1>5. RootBelow(c, q) \in DOMAIN ns
    BY <1>3 DEF HasAt
<1> QED BY <1>4, <1>5

\* Where no keys part, nothing needs to be stored.
LEMMA HasFew ==
    ASSUME NEW ns, NEW c, IsContents(c), NEW x \in Paths, ~Many(c, x)
    PROVE  HasAt(ns, c, x)
BY ManyAbove DEF HasAt, Boundary

\* A subtree that is deleted is found below no place but its own.
LEMMA HasBeside ==
    ASSUME NEW ns, NEW c, IsContents(c), NEW d, IsContents(d), NEW z \in Paths, Many(d, z),
           NEW u \in Seq(BitSeqs), \A i \in 1 .. Len(u) : ~Extends(z, u[i]), Has(ns, c, u)
    PROVE  Has(DelNode(ns, RootBelow(d, z)), c, u)
<1> DEFINE h == RootBelow(d, z)
           ms == DelNode(ns, h)
<1>1. DOMAIN ms = DOMAIN ns \ {h}
    BY DEF DelNode
<1> HIDE DEF ms
<1>2. ASSUME NEW i \in 1 .. Len(u), NEW q, Boundary(q), Extends(q, u[i]), Many(c, q)
      PROVE  RootBelow(c, q) \in DOMAIN ms
  <2>1. RootBelow(c, q) \in DOMAIN ns
      BY <1>2 DEF Has, HasAt
  <2>2. RootBelow(c, q) # h
    <3> SUFFICES ASSUME RootBelow(c, q) = RootBelow(d, z)
                 PROVE  FALSE
        OBVIOUS
    <3>1. q \in Paths
        BY <1>2 DEF Boundary
    <3>2. q = z
        BY <1>2, <3>1, RootTells
    <3> QED BY <1>2, <3>2
  <2> QED BY <1>1, <2>1, <2>2
<1>3. Has(ms, c, u)
    BY <1>2 DEF Has, HasAt
<1> QED BY <1>3 DEF ms

\* What is below the place next in turn is below no other place.
LEMMA PlaceApart ==
    ASSUME NEW c0, NEW c1, NEW p, NEW u \in Seq(BitSeqs), NEW x \in BitSeqs, NEW w \in Seq(BitSeqs),
           Place(c0, c1, p, u, First(x, w)), NEW z \in Paths, Extends(z, x)
    PROVE  /\ \A i \in 1 .. Len(u) : ~Extends(z, u[i])
           /\ \A i \in 1 .. Len(w) : ~Extends(z, w[i])
<1> DEFINE H == SubtreeHeight
           v == First(x, w)
           a == u \o v
           n == Len(u) + 1
<1>1. H \in 0 .. H /\ p \in BitSeqs /\ a \in Fronts[H][p]
    BY SparseMerkleTreeAssumption, PathLength DEF Place, Boundary
<1>2. /\ Len(v) = Len(w) + 1 /\ Len(w) \in Nat /\ v[1] = x /\ v \in Seq(BitSeqs)
      /\ \A i \in 1 .. Len(w) : v[i + 1] = w[i]
    BY DEF First
<1> HIDE DEF v, H
<1>3. /\ Len(a) = Len(u) + Len(v) /\ Len(u) \in Nat
      /\ \A i \in 1 .. Len(u) : a[i] = u[i]
      /\ \A i \in 1 .. Len(u) + Len(v) : i > Len(u) => a[i] = v[i - Len(u)]
    BY <1>2, ConcatElements
<1>4. n \in 1 .. Len(a) /\ a[n] = x
  <2>1. n \in 1 .. Len(u) + Len(v) /\ n > Len(u) /\ n - Len(u) = 1
      BY <1>2, <1>3
  <2> QED BY <1>2, <1>3, <2>1
<1>5. \A i \in 1 .. Len(w) : /\ n + i \in 1 .. Len(a) /\ n + i # n
                             /\ a[n + i] = w[i]
  <2> TAKE i \in 1 .. Len(w)
  <2>1. n + i \in 1 .. Len(u) + Len(v) /\ n + i > Len(u) /\ (n + i) - Len(u) = i + 1 /\ n + i # n
      BY <1>2, <1>3
  <2>2. a[n + i] = v[(n + i) - Len(u)]
      BY <1>3, <2>1
  <2>3. v[i + 1] = w[i]
      BY <1>2
  <2> QED BY <1>3, <2>1, <2>2, <2>3
<1>6. \A i \in 1 .. Len(u) : i \in 1 .. Len(a) /\ i # n
    BY <1>2, <1>3
<1> HIDE DEF a, n
<1>7. \A i \in 1 .. Len(a) : i # n => ~Extends(z, a[i])
    BY <1>1, <1>4, FrontApart DEF H
<1>8. ASSUME NEW i \in 1 .. Len(u)
      PROVE  ~Extends(z, u[i])
    BY <1>3, <1>6, <1>7, <1>8
<1>9. ASSUME NEW i \in 1 .. Len(w)
      PROVE  ~Extends(z, w[i])
  <2> DEFINE j == n + i
  <2>1. j \in 1 .. Len(a) /\ j # n /\ a[j] = w[i]
      BY <1>5, <1>9
  <2> HIDE DEF j
  <2> QED BY <1>7, <2>1
<1> QED BY <1>8, <1>9

\* A boundary below a path is the path or at least a subtree deeper.
LEMMA BoundaryBelow ==
    ASSUME NEW p, Boundary(p), NEW q, Boundary(q), Extends(q, p), q # p
    PROVE  Len(p) + SubtreeHeight <= Len(q)
<1>1. p \in BitSeqs /\ q \in BitSeqs /\ Len(p) \in Nat /\ Len(q) \in Nat /\ SubtreeHeight \in Nat \ {0}
      /\ p \in Paths /\ q \in Paths
    BY PathLength, SparseMerkleTreeAssumption DEF Boundary
<1>2. Len(p) < Len(q)
  <2> SUFFICES ASSUME Len(p) = Len(q)
               PROVE  FALSE
      BY <1>1 DEF Extends
  <2>1. Extends(q, q)
      BY <1>1, ExtendsItself
  <2> QED BY <1>1, <2>1, PathFromKey
<1>3. Len(p) % SubtreeHeight = 0 /\ Len(q) % SubtreeHeight = 0
    BY DEF Boundary
<1> QED BY <1>1, <1>2, <1>3, BoundaryApart

\* When all places are done, so is the subtree.
LEMMA PlacesCover ==
    ASSUME NEW ns, NEW c, NEW p, Boundary(p), NEW u \in Fronts[SubtreeHeight][p], Has(ns, c, u),
           RootBelow(c, p) \in DOMAIN ns
    PROVE  HasAt(ns, c, p)
<1> SUFFICES ASSUME NEW q, Boundary(q), Extends(q, p), Many(c, q)
             PROVE  RootBelow(c, q) \in DOMAIN ns
    BY DEF HasAt
<1>1. CASE q = p
    BY <1>1
<1>2. CASE q # p
  <2>1. Len(p) + SubtreeHeight <= Len(q)
      BY <1>2, BoundaryBelow
  <2>2. SubtreeHeight \in 0 .. SubtreeHeight /\ p \in BitSeqs /\ q \in BitSeqs
      BY PathLength, SparseMerkleTreeAssumption DEF Boundary
  <2>3. Len(q) >= Len(p) + SubtreeHeight
      BY <2>1
  <2>4. PICK i \in 1 .. Len(u) : Extends(q, u[i])
      BY <2>2, <2>3, FrontCovers
  <2> QED BY <2>4 DEF Has, HasAt
<1> QED BY <1>1, <1>2

\* The subtrees below a place are those below its normal front, and the
\* deletion of its own stub leaves them.
LEMMA FrontHas ==
    ASSUME NEW ns, NEW c, IsContents(c), NEW p, Boundary(p), HasAt(ns, c, p)
    PROVE  /\ Has(ns, c, NormalFront(c)[SubtreeHeight][p])
           /\ Many(c, p) => Has(DelNode(ns, RootBelow(c, p)), c, NormalFront(c)[SubtreeHeight][p])
<1> DEFINE H == SubtreeHeight
           v == NormalFront(c)[H][p]
<1>1. H \in 0 .. H /\ H <= H /\ H \in Nat \ {0} /\ p \in Paths /\ p \in BitSeqs /\ Len(p) \in Nat
    BY SparseMerkleTreeAssumption, PathLength DEF Boundary
<1>2. v \in Fronts[H][p]
    BY <1>1, NormalIsFront
<1>3. Ready(c, v, Len(p) + H)
    BY <1>1, NormalReady
<1> HIDE DEF v
<1>4. v \in Seq(BitSeqs) /\ \A i \in 1 .. Len(v) : v[i] \in BitSeqs /\ Extends(v[i], p)
    BY <1>1, <1>2, FrontExtends
<1>5. \A i \in 1 .. Len(v) : HasAt(ns, c, v[i])
  <2> TAKE i \in 1 .. Len(v)
  <2>1. v[i] \in BitSeqs /\ Extends(v[i], p)
      BY <1>4
  <2> DEFINE y == v[i]
  <2>2. y \in BitSeqs /\ Extends(y, p)
      BY <2>1
  <2> HIDE DEF y
  <2>3. HasAt(ns, c, y)
      BY <1>1, <2>2, HasDeeper
  <2> QED BY <2>3 DEF y
<1>6. Has(ns, c, v)
    BY <1>5 DEF Has
<1>7. ASSUME Many(c, p)
      PROVE  Has(DelNode(ns, RootBelow(c, p)), c, v)
  <2>1. ASSUME NEW i \in 1 .. Len(v), Extends(p, v[i])
        PROVE  FALSE
    <3> DEFINE y == v[i]
    <3>1. y \in BitSeqs /\ Extends(y, p) /\ Extends(p, y)
        BY <1>4, <2>1
    <3> HIDE DEF y
    <3>2. p = y
        BY <1>1, <3>1, ExtendsBoth
    <3>3. Many(c, v[i])
        BY <1>7, <3>2 DEF y
    <3>4. Len(v[i]) = Len(p) + H
        BY <3>3, <1>3 DEF Ready
    <3> QED BY <1>1, <3>2, <3>4 DEF y
  <2> QED BY <1>1, <1>4, <1>6, <1>7, <2>1, HasBeside
<1> QED BY <1>6, <1>7 DEF v

(* The innermost frame, at the place p: what is to be done there, and with *)
(* ok what is stored.                                                      *)
TopWith(fr, ok, ns, c0, c1, D, p, u, v) ==
    /\ FrameWith(fr, c0, c1, D, p, u, v)
    /\ ok => Has(ns, c1, u) /\ Has(ns, c0, v)

\* The same, for some places done and to be done.
TopIs(fr, ok, ns, c0, c1, D, p) ==
    \E u \in Seq(BitSeqs), v \in Seq(BitSeqs) : TopWith(fr, ok, ns, c0, c1, D, p, u, v)

\* A frame that waits for the subtree at x.
OuterWith(fr, ok, ns, c0, c1, D, p, x, u, w) ==
    /\ FrameWith(fr, c0, c1, D, p, u, First(x, w))
    /\ Len(x) = Len(p) + SubtreeHeight
    /\ ok => Has(ns, c1, u) /\ Has(ns, c0, w)

\* The same, for some places done and to be done.
OuterIs(fr, ok, ns, c0, c1, D, p, x) ==
    \E u \in Seq(BitSeqs), w \in Seq(BitSeqs) : OuterWith(fr, ok, ns, c0, c1, D, p, x, u, w)

\* The next place of a frame that is not done.
LEMMA TopBusy ==
    ASSUME NEW fr, NEW ok, NEW ns, NEW c0, NEW c1, IsContents(c1), NEW D, NEW p,
           TopIs(fr, ok, ns, c0, c1, D, p), fr.todo # <<>>
    PROVE  \E u \in Seq(BitSeqs), x \in BitSeqs, w \in Seq(BitSeqs) :
               TopWith(fr, ok, ns, c0, c1, D, p, u, First(x, w))
<1>1. PICK u \in Seq(BitSeqs), v \in Seq(BitSeqs) : TopWith(fr, ok, ns, c0, c1, D, p, u, v)
    BY DEF TopIs
<1>2. v # <<>>
    BY <1>1, FrameDone DEF TopWith
<1>3. PICK x \in BitSeqs, w \in Seq(BitSeqs) : v = First(x, w)
    BY <1>2, HeadAndTail
<1> QED BY <1>1, <1>3

\* A frame with nothing to be done.
LEMMA TopDone ==
    ASSUME NEW fr, NEW ok, NEW ns, NEW c0, NEW c1, NEW D, NEW p,
           TopIs(fr, ok, ns, c0, c1, D, p), fr.todo = <<>>
    PROVE  \E u \in Seq(BitSeqs) : TopWith(fr, ok, ns, c0, c1, D, p, u, <<>>)
<1>1. PICK u \in Seq(BitSeqs), v \in Seq(BitSeqs) : TopWith(fr, ok, ns, c0, c1, D, p, u, v)
    BY DEF TopIs
<1>2. v = <<>>
  <2> SUFFICES ASSUME v # <<>>
               PROVE  FALSE
      OBVIOUS
  <2>1. PICK x \in BitSeqs, w \in Seq(BitSeqs) : v = First(x, w)
      BY HeadAndTail
  <2>2. FrameWith(fr, c0, c1, D, p, u, First(x, w))
      BY <1>1, <2>1 DEF TopWith
  <2>3. HeldBy(fr, c0, c1, D, p, u, x, w)
      BY <2>2, FrameHead
  <2> QED BY <2>3 DEF HeldBy
<1> QED BY <1>1, <1>2

\* The next place is done, whatever was made of it.
LEMMA TopAdvances ==
    ASSUME NEW fr, NEW ok, NEW ns, NEW c0, NEW c1, NEW D, NEW p,
           NEW u \in Seq(BitSeqs), NEW x \in BitSeqs, NEW w \in Seq(BitSeqs),
           FrameWith(fr, c0, c1, D, p, u, First(x, w)),
           ok => Has(ns, c1, u) /\ Has(ns, c0, w) /\ HasAt(ns, c1, x),
           Many(c1, x) => Len(x) = Len(p) + SubtreeHeight
    PROVE  TopIs(Advance(fr, NodeAt(c1, x)), ok, ns, c0, c1, D, p)
<1> DEFINE g == Advance(fr, NodeAt(c1, x))
           t == Then(u, x)
<1>1. FrameWith(g, c0, c1, D, p, t, w)
    BY FrameAdvance
<1>2. t \in Seq(BitSeqs)
    BY DEF Then
<1>3. ok => Has(ns, c1, t)
    BY HasThen
<1> HIDE DEF g, t
<1>4. TopWith(g, ok, ns, c0, c1, D, p, t, w)
    BY <1>1, <1>3 DEF TopWith
<1>5. TopIs(g, ok, ns, c0, c1, D, p)
    BY <1>2, <1>4 DEF TopIs
<1> QED BY <1>5 DEF g

\* The data says nothing of the next place.
LEMMA KeepTop ==
    ASSUME NEW fr, NEW ok, NEW ns, NEW c0, IsContents(c0), NEW D, DOMAIN D \in SUBSET Keys, NEW p,
           NEW u \in Seq(BitSeqs), NEW x \in BitSeqs, NEW w \in Seq(BitSeqs),
           TopWith(fr, ok, ns, c0, Updated(c0, D), D, p, u, First(x, w)), Below(DOMAIN D, x) = {}
    PROVE  TopIs(Advance(fr, NodeAt(c0, x)), ok, ns, c0, Updated(c0, D), D, p)
<1> DEFINE c1 == Updated(c0, D)
<1>1. IsContents(c1)
    BY UpdatedIs
<1>2. Under(c1, x) = Under(c0, x)
    BY KeptIs
<1> HIDE DEF c1
<1>3. FrameWith(fr, c0, c1, D, p, u, First(x, w)) /\ (ok => Has(ns, c1, u) /\ Has(ns, c0, First(x, w)))
    BY DEF TopWith, c1
<1>4. Place(c0, c1, p, u, First(x, w))
    BY <1>3 DEF FrameWith
<1>5. x \in Paths /\ (Many(c0, x) => Len(x) = Len(p) + SubtreeHeight)
    BY <1>4, PlaceParts
<1>6. NodeAt(c0, x) = NodeAt(c1, x)
    BY <1>1, <1>2, <1>5, NodeIsLocal
<1>7. Many(c1, x) => Len(x) = Len(p) + SubtreeHeight
    BY <1>2, <1>5, UnderDomain
<1>8. ok => Has(ns, c1, u) /\ Has(ns, c0, w) /\ HasAt(ns, c1, x)
  <2> SUFFICES ASSUME ok
               PROVE  Has(ns, c1, u) /\ Has(ns, c0, w) /\ HasAt(ns, c1, x)
      OBVIOUS
  <2>1. HasAt(ns, c0, x) /\ Has(ns, c0, w)
      BY <1>3, HasFirst
  <2>2. Under(c0, x) = Under(c1, x)
      BY <1>2
  <2>3. HasAt(ns, c1, x)
      BY <1>1, <1>5, <2>1, <2>2, HasLocal
  <2> QED BY <1>3, <2>1, <2>3
<1>9. TopIs(Advance(fr, NodeAt(c1, x)), ok, ns, c0, c1, D, p)
    BY <1>3, <1>7, <1>8, TopAdvances
<1> QED BY <1>6, <1>9 DEF c1

\* update_single_node does it.
LEMMA SingleTop ==
    ASSUME NEW fr, NEW ok, NEW ns, NEW c0, IsContents(c0), NEW D, DOMAIN D \in SUBSET Keys, NEW p,
           NEW u \in Seq(BitSeqs), NEW x \in BitSeqs, NEW w \in Seq(BitSeqs),
           TopWith(fr, ok, ns, c0, Updated(c0, D), D, p, u, First(x, w)),
           IsSingle(NodeAt(c0, x), Under(D, x))
    PROVE  TopIs(Advance(fr, UpdateSingleNode(Under(D, x))), ok, ns, c0, Updated(c0, D), D, p)
<1> DEFINE c1 == Updated(c0, D)
<1>1. IsContents(c1)
    BY UpdatedIs
<1>2. UpdateSingleNode(Under(D, x)) = NodeAt(c1, x) /\ ~Many(c1, x)
    BY SingleIs
<1> HIDE DEF c1
<1>3. FrameWith(fr, c0, c1, D, p, u, First(x, w)) /\ (ok => Has(ns, c1, u) /\ Has(ns, c0, First(x, w)))
    BY DEF TopWith, c1
<1>4. Place(c0, c1, p, u, First(x, w))
    BY <1>3 DEF FrameWith
<1>5. x \in Paths
    BY <1>4, PlaceParts
<1>6. ok => Has(ns, c1, u) /\ Has(ns, c0, w) /\ HasAt(ns, c1, x)
  <2>1. HasAt(ns, c1, x)
      BY <1>1, <1>2, <1>5, HasFew
  <2> QED BY <1>3, <2>1, HasFirst
<1>7. TopIs(Advance(fr, NodeAt(c1, x)), ok, ns, c0, c1, D, p)
    BY <1>2, <1>3, <1>6, TopAdvances
<1> QED BY <1>2, <1>7 DEF c1

\* The next place is split.
LEMMA SplitTop ==
    ASSUME NEW fr, NEW ok, NEW ns, NEW c0, IsContents(c0), NEW c1, NEW D, NEW p,
           NEW u \in Seq(BitSeqs), NEW x \in BitSeqs, NEW w \in Seq(BitSeqs),
           TopWith(fr, ok, ns, c0, c1, D, p, u, First(x, w)),
           ~Many(c0, x), Len(x) - Len(p) # SubtreeHeight
    PROVE  TopIs([fr EXCEPT !.todo = LeftRight(NodeAt(c0, x), Len(p), Len(x) - Len(p)) \o Tail(fr.todo)],
                 ok, ns, c0, c1, D, p)
<1> DEFINE g == [fr EXCEPT !.todo = LeftRight(NodeAt(c0, x), Len(p), Len(x) - Len(p)) \o Tail(fr.todo)]
           y == Append(x, 0)
           z == Append(x, 1)
           t == First(z, w)
           v == First(y, t)
<1>1. FrameWith(fr, c0, c1, D, p, u, First(x, w)) /\ (ok => Has(ns, c1, u) /\ Has(ns, c0, First(x, w)))
    BY DEF TopWith
<1>2. FrameWith(g, c0, c1, D, p, u, v)
    BY <1>1, FrameSplit
<1>3. y \in BitSeqs /\ z \in BitSeqs /\ Extends(y, x) /\ Extends(z, x)
    BY AppendBit, HalfExtends
<1> HIDE DEF g, y, z
<1>4. t \in Seq(BitSeqs)
    BY <1>3, FirstParts
<1>5. ok => Has(ns, c0, t)
  <2>1. ok => HasAt(ns, c0, x) /\ Has(ns, c0, w)
      BY <1>1, HasFirst
  <2>2. ok => HasAt(ns, c0, z)
      BY <1>3, <2>1, HasDeeper
  <2> QED BY <1>3, <2>1, <2>2, HasFirst
<1> HIDE DEF t
<1>6. v \in Seq(BitSeqs)
    BY <1>3, <1>4, FirstParts
<1>7. ok => Has(ns, c0, v)
  <2>1. ok => HasAt(ns, c0, x)
      BY <1>1, HasFirst
  <2>2. ok => HasAt(ns, c0, y)
      BY <1>3, <2>1, HasDeeper
  <2> QED BY <1>3, <1>4, <1>5, <2>2, HasFirst
<1> HIDE DEF v
<1>8. TopWith(g, ok, ns, c0, c1, D, p, u, v)
    BY <1>1, <1>2, <1>7 DEF TopWith
<1>9. TopIs(g, ok, ns, c0, c1, D, p)
    BY <1>6, <1>8 DEF TopIs
<1> QED BY <1>9 DEF g

\* The store without the stub of a place.
Left(ns, c, x) == IF Many(c, x) THEN DelNode(ns, RootBelow(c, x)) ELSE ns

\* A stub stands where keys part.
LEMMA StubIsMany ==
    ASSUME NEW c, IsContents(c), NEW x
    PROVE  NodeAt(c, x).kind = "stub" <=> Many(c, x)
<1>1. ("empty" # "stub") /\ ("leaf" # "stub")
    OBVIOUS
<1> QED BY <1>1, Forms, FormsDiffer, NodeKinds

\* update_node deletes the subtree of a stub before it does anything else.
LEMMA LeftIs ==
    ASSUME NEW ns, NEW c, IsContents(c), NEW x \in Paths
    PROVE  (IF NodeAt(c, x).kind = "stub" THEN DelNode(ns, NodeAt(c, x).hash) ELSE ns) = Left(ns, c, x)
BY StubIsMany, NodeHash DEF Left

\* Deleting a subtree, or storing the subtree of a place, leaves a store of
\* subtrees.
LEMMA StoreKeeps ==
    ASSUME NEW ns, StoreOK(ns), NEW c, IsContents(c), NEW p \in Paths, Len(p) + SubtreeHeight <= KeyBits
    PROVE  /\ StoreOK(Left(ns, c, p))
           /\ StoreOK(SetNode(ns, TreeAt(c, p)))
           /\ DOMAIN SetNode(ns, TreeAt(c, p)) = DOMAIN ns \union {RootBelow(c, p)}
<1> DEFINE h == RootBelow(c, p)
           tree == TreeAt(c, p)
           ms == SetNode(ns, tree)
           ls == DelNode(ns, h)
<1>1. tree.root = h /\ tree.items = Subtree(c, p)
    BY DEF TreeAt
<1> HIDE DEF tree
<1>2. IsStored(h, Subtree(c, p))
    BY DEF IsStored
<1>3. DOMAIN ms = DOMAIN ns \union {h}
    BY <1>1 DEF SetNode
<1>4. \A g \in DOMAIN ms : ms[g] = IF g = h THEN Subtree(c, p) ELSE ns[g]
    BY <1>1 DEF SetNode
<1>5. DOMAIN ls = DOMAIN ns \ {h} /\ \A g \in DOMAIN ls : ls[g] = ns[g]
    BY DEF DelNode
<1> HIDE DEF ms, ls, h
<1>6. StoreOK(ms)
    BY <1>2, <1>3, <1>4 DEF StoreOK
<1>7. StoreOK(ls)
    BY <1>5 DEF StoreOK
<1>8. StoreOK(Left(ns, c, p))
    BY <1>7 DEF Left, ls, h
<1> QED BY <1>3, <1>6, <1>8 DEF ms, h, tree

\* A place of the lowest level with work to do is a boundary, and there is a
\* subtree below it.
LEMMA HoleIsBoundary ==
    ASSUME NEW c0, IsContents(c0), NEW c1, NEW D, DOMAIN D \in SUBSET Keys, NEW p,
           NEW u \in Seq(BitSeqs), NEW x \in BitSeqs, NEW w \in Seq(BitSeqs),
           Place(c0, c1, p, u, First(x, w)), Len(x) - Len(p) = SubtreeHeight,
           DOMAIN Under(D, x) # {}, ~IsSingle(NodeAt(c0, x), Under(D, x))
    PROVE  Boundary(x) /\ Len(x) + SubtreeHeight <= KeyBits /\ Len(x) = Len(p) + SubtreeHeight
<1> DEFINE H == SubtreeHeight
<1>1. x \in Paths /\ p \in Paths /\ Len(p) \in Nat /\ Len(p) % H = 0
    BY PlaceParts DEF Place, Boundary
<1>2. H \in Nat \ {0} /\ KeyBits \in Nat /\ KeyBits % H = 0 /\ Len(x) \in Nat
    BY <1>1, SparseMerkleTreeAssumption, PathLength
<1>3. Len(x) = Len(p) + H
    BY <1>1, <1>2
<1>4. Below(DOMAIN D, x) # {}
    BY DEF Under
<1>5. Len(x) < KeyBits
    BY <1>1, <1>4, GoesDeeper
<1> HIDE DEF H
<1>6. Len(x) % H = 0
  <2>1. (Len(p) + H) % H = 0
      BY <1>1, <1>2, BoundaryNext
  <2> QED BY <1>3, <2>1
<1>7. Len(x) + H <= KeyBits
    BY <1>2, <1>5, <1>6, BoundaryApart
<1> QED BY <1>1, <1>3, <1>6, <1>7 DEF Boundary, H

\* The update goes on below the next place.
LEMMA EnterTop ==
    ASSUME NEW fr, NEW ok, NEW ns, StoreOK(ns), NEW c0, IsContents(c0), NEW c1, NEW D, DOMAIN D \in SUBSET Keys,
           NEW p, NEW u \in Seq(BitSeqs), NEW x \in BitSeqs, NEW w \in Seq(BitSeqs), IsContents(c1),
           TopWith(fr, ok, ns, c0, c1, D, p, u, First(x, w)),
           Boundary(x), Len(x) + SubtreeHeight <= KeyBits, Len(x) = Len(p) + SubtreeHeight,
           SubtreeBelow(ns, NodeAt(c0, x)) # Missing
    PROVE  /\ TopIs(Frame(SubtreeBelow(ns, NodeAt(c0, x)), Under(D, x), Len(x)),
                    ok, Left(ns, c0, x), c0, c1, D, x)
           /\ OuterIs(fr, ok, Left(ns, c0, x), c0, c1, D, p, x)
<1> DEFINE v == NormalFront(c0)[SubtreeHeight][x]
           fx == Frame(SubtreeBelow(ns, NodeAt(c0, x)), Under(D, x), Len(x))
           ms == Left(ns, c0, x)
           none == <<>>
<1>1. x \in Paths
    BY DEF Boundary
<1>2. SubtreeBelow(ns, NodeAt(c0, x)) = TreeAt(c0, x)
    BY <1>1, BelowIs
<1>3. FrameWith(fx, c0, c1, D, x, none, v)
    BY <1>2, FrameStart
<1>4. FrameWith(fr, c0, c1, D, p, u, First(x, w)) /\ (ok => Has(ns, c1, u) /\ Has(ns, c0, First(x, w)))
    BY DEF TopWith
<1>5. ok => HasAt(ns, c0, x) /\ Has(ns, c0, w) /\ Has(ns, c1, u)
    BY <1>4, HasFirst
<1>6. v \in Seq(BitSeqs)
  <2>1. SubtreeHeight \in 0 .. SubtreeHeight /\ SubtreeHeight \in Nat /\ SubtreeHeight <= SubtreeHeight
      BY SparseMerkleTreeAssumption
  <2>2. v \in Fronts[SubtreeHeight][x]
      BY <2>1, NormalIsFront
  <2> HIDE DEF v
  <2> QED BY <2>1, <2>2, FrontType
<1>7. ok => Has(ms, c0, v)
    BY <1>5, FrontHas DEF Left
<1>8. Has(ms, c1, none)
    BY DEF Has
<1>9. ok => Has(ms, c1, u) /\ Has(ms, c0, w)
  <2>1. Place(c0, c1, p, u, First(x, w))
      BY <1>4 DEF FrameWith
  <2>2. Extends(x, x)
      BY ExtendsItself
  <2>3. /\ \A i \in 1 .. Len(u) : ~Extends(x, u[i])
        /\ \A i \in 1 .. Len(w) : ~Extends(x, w[i])
      BY <1>1, <2>1, <2>2, PlaceApart
  <2>4. ASSUME ok, Many(c0, x)
        PROVE  /\ Has(DelNode(ns, RootBelow(c0, x)), c1, u)
               /\ Has(DelNode(ns, RootBelow(c0, x)), c0, w)
    <3>1. Has(ns, c1, u) /\ Has(ns, c0, w)
        BY <1>5, <2>4
    <3>2. Has(DelNode(ns, RootBelow(c0, x)), c1, u)
        BY <1>1, <2>3, <2>4, <3>1, HasBeside
    <3>3. Has(DelNode(ns, RootBelow(c0, x)), c0, w)
        BY <1>1, <2>3, <2>4, <3>1, HasBeside
    <3> QED BY <3>2, <3>3
  <2> QED BY <1>5, <2>4 DEF Left
<1> HIDE DEF v, fx, ms
<1>10. TopIs(fx, ok, ms, c0, c1, D, x)
  <2>1. TopWith(fx, ok, ms, c0, c1, D, x, none, v)
      BY <1>3, <1>7, <1>8 DEF TopWith
  <2>2. none \in Seq(BitSeqs)
      OBVIOUS
  <2> HIDE DEF none
  <2> QED BY <1>6, <2>1, <2>2 DEF TopIs
<1>11. OuterIs(fr, ok, ms, c0, c1, D, p, x)
  <2>1. OuterWith(fr, ok, ms, c0, c1, D, p, x, u, w)
      BY <1>4, <1>9 DEF OuterWith
  <2> QED BY <2>1 DEF OuterIs
<1> QED BY <1>10, <1>11 DEF fx, ms

\* The frames further out keep what they need.
LEMMA OuterKeeps ==
    ASSUME NEW fr, NEW ok, NEW ns, NEW c0, IsContents(c0), NEW c1, IsContents(c1), NEW D,
           NEW p, NEW x \in BitSeqs, OuterIs(fr, ok, ns, c0, c1, D, p, x),
           NEW z \in Paths, Extends(z, x)
    PROVE  OuterIs(fr, ok, Left(ns, c0, z), c0, c1, D, p, x)
<1> DEFINE ms == Left(ns, c0, z)
<1>1. PICK u \in Seq(BitSeqs), w \in Seq(BitSeqs) : OuterWith(fr, ok, ns, c0, c1, D, p, x, u, w)
    BY DEF OuterIs
<1>2. Place(c0, c1, p, u, First(x, w))
    BY <1>1 DEF OuterWith, FrameWith
<1>3. /\ \A i \in 1 .. Len(u) : ~Extends(z, u[i])
      /\ \A i \in 1 .. Len(w) : ~Extends(z, w[i])
    BY <1>2, PlaceApart
<1>4. ASSUME ok, Many(c0, z)
      PROVE  /\ Has(DelNode(ns, RootBelow(c0, z)), c1, u)
             /\ Has(DelNode(ns, RootBelow(c0, z)), c0, w)
  <2>1. Has(ns, c1, u) /\ Has(ns, c0, w)
      BY <1>1, <1>4 DEF OuterWith
  <2>2. Has(DelNode(ns, RootBelow(c0, z)), c1, u)
      BY <1>3, <1>4, <2>1, HasBeside
  <2>3. Has(DelNode(ns, RootBelow(c0, z)), c0, w)
      BY <1>3, <1>4, <2>1, HasBeside
  <2> QED BY <2>2, <2>3
<1>5. ok => Has(ms, c1, u) /\ Has(ms, c0, w)
    BY <1>1, <1>4 DEF Left, OuterWith
<1> HIDE DEF ms
<1>6. OuterWith(fr, ok, ms, c0, c1, D, p, x, u, w)
    BY <1>1, <1>5 DEF OuterWith
<1>7. OuterIs(fr, ok, ms, c0, c1, D, p, x)
    BY <1>6 DEF OuterIs
<1> QED BY <1>7 DEF ms

\* An outer frame does not mind a store that holds more.
LEMMA OuterGrows ==
    ASSUME NEW fr, NEW ok, NEW ns, NEW ms, DOMAIN ns \subseteq DOMAIN ms, NEW c0, NEW c1, NEW D,
           NEW p, NEW x, OuterIs(fr, ok, ns, c0, c1, D, p, x)
    PROVE  OuterIs(fr, ok, ms, c0, c1, D, p, x)
<1>1. PICK u \in Seq(BitSeqs), w \in Seq(BitSeqs) : OuterWith(fr, ok, ns, c0, c1, D, p, x, u, w)
    BY DEF OuterIs
<1>2. ok => Has(ms, c1, u) /\ Has(ms, c0, w)
    BY <1>1, HasGrows DEF OuterWith
<1>3. OuterWith(fr, ok, ms, c0, c1, D, p, x, u, w)
    BY <1>1, <1>2 DEF OuterWith
<1> QED BY <1>3 DEF OuterIs

\* The innermost subtree is done: it is stored, and all below it is there.
LEMMA TopStored ==
    ASSUME NEW fr, NEW ok, NEW ns, StoreOK(ns), NEW c0, NEW c1, IsContents(c1), NEW D, NEW p,
           TopIs(fr, ok, ns, c0, c1, D, p), fr.todo = <<>>
    PROVE  /\ CalculateSubtree(fr.done) = TreeAt(c1, p)
           /\ fr.low = Bins[SubtreeHeight]
           /\ p \in Paths /\ Len(p) + SubtreeHeight <= KeyBits
           /\ ok => HasAt(SetNode(ns, TreeAt(c1, p)), c1, p)
<1> DEFINE ms == SetNode(ns, TreeAt(c1, p))
<1>1. PICK u \in Seq(BitSeqs) : TopWith(fr, ok, ns, c0, c1, D, p, u, <<>>)
    BY TopDone
<1>2. FrameWith(fr, c0, c1, D, p, u, <<>>) /\ (ok => Has(ns, c1, u))
    BY <1>1 DEF TopWith
<1>3. CalculateSubtree(fr.done) = TreeAt(c1, p) /\ u \in Fronts[SubtreeHeight][p]
      /\ fr.low = Bins[SubtreeHeight]
    BY <1>2, FrameDone
<1>4. Boundary(p) /\ p \in Paths /\ Len(p) + SubtreeHeight <= KeyBits
    BY <1>2 DEF FrameWith, Place, Boundary
<1>5. DOMAIN ms = DOMAIN ns \union {RootBelow(c1, p)}
    BY <1>4, StoreKeeps
<1> HIDE DEF ms
<1>6. ok => Has(ms, c1, u)
    BY <1>2, <1>5, HasGrows
<1>7. ok => HasAt(ms, c1, p)
    BY <1>3, <1>4, <1>5, <1>6, PlacesCover
<1> QED BY <1>3, <1>4, <1>7 DEF ms

\* Back in the frame that waited for it.
LEMMA OuterAdvances ==
    ASSUME NEW fr, NEW ok, NEW ns, NEW c0, NEW c1, IsContents(c1), NEW D, NEW p, NEW x \in BitSeqs,
           OuterIs(fr, ok, ns, c0, c1, D, p, x), NEW ms, DOMAIN ns \subseteq DOMAIN ms,
           ok => HasAt(ms, c1, x)
    PROVE  TopIs(Advance(fr, NodeAt(c1, x)), ok, ms, c0, c1, D, p)
<1>1. PICK u \in Seq(BitSeqs), w \in Seq(BitSeqs) : OuterWith(fr, ok, ns, c0, c1, D, p, x, u, w)
    BY DEF OuterIs
<1>2. FrameWith(fr, c0, c1, D, p, u, First(x, w)) /\ Len(x) = Len(p) + SubtreeHeight
    BY <1>1 DEF OuterWith
<1>3. ok => Has(ms, c1, u) /\ Has(ms, c0, w) /\ HasAt(ms, c1, x)
    BY <1>1, HasGrows DEF OuterWith
<1> QED BY <1>2, <1>3, TopAdvances

\* Sequences over a larger set.
LEMMA SeqWidens ==
    ASSUME NEW T, NEW U, T \subseteq U, NEW s \in Seq(T)
    PROVE  s \in Seq(U)
OBVIOUS

\* A first element makes a sequence one longer.
LEMMA FirstLength ==
    ASSUME NEW S, NEW x \in S, NEW t \in Seq(S)
    PROVE  Len(First(x, t)) = Len(t) + 1 /\ Len(t) \in Nat
BY DEF First

----------------------------------------------------------------------------
(* The stack: P are the places of its frames, from the innermost on.       *)

\* The frames outside the innermost one: each waits for the place of the
\* frame inside it.
Outers(ok, ns, s, c0, c1, D, P) ==
    /\ P \in Seq(Paths) /\ Len(P) = Len(s) + 1 /\ P[Len(P)] = <<>>
    /\ \A i, j \in 1 .. Len(P) : i <= j => Extends(P[i], P[j])
    /\ \A i \in 1 .. Len(s) : OuterIs(s[i], ok, ns, c0, c1, D, P[i + 1], P[i])

\* The stack with its frames, for places from the innermost to the root.
StackWith(ok, ns, stk, c0, c1, D, T, f, s, P) ==
    /\ f \in T /\ s \in Seq(T) /\ stk = First(f, s)
    /\ TopIs(f, ok, ns, c0, c1, D, P[1])
    /\ Outers(ok, ns, s, c0, c1, D, P)

\* The same, for some frames and places.
StackIs(ok, ns, stk, c0, c1, D) ==
    \E T, f, s, P : StackWith(ok, ns, stk, c0, c1, D, T, f, s, P)

\* What a stack consists of.
LEMMA StackParts ==
    ASSUME NEW ok, NEW ns, NEW stk, NEW c0, NEW c1, NEW D, NEW T, NEW f, NEW s, NEW P,
           StackWith(ok, ns, stk, c0, c1, D, T, f, s, P)
    PROVE  /\ stk # <<>> /\ Head(stk) = f /\ Tail(stk) = s /\ Len(stk) = Len(s) + 1 /\ Len(s) \in Nat
           /\ P[1] \in Paths
           /\ TopIs(f, ok, ns, c0, c1, D, P[1])
           /\ Len(stk) = 1 => P[1] = <<>>
<1>1. f \in T /\ s \in Seq(T) /\ stk = First(f, s)
    BY DEF StackWith
<1>2. stk # <<>> /\ Head(stk) = f /\ Tail(stk) = s
    BY <1>1, FirstParts
<1>3. Len(stk) = Len(s) + 1 /\ Len(s) \in Nat
    BY <1>1, FirstLength
<1>4. P \in Seq(Paths) /\ Len(P) = Len(s) + 1 /\ P[Len(P)] = <<>>
    BY DEF StackWith, Outers
<1>5. P[1] \in Paths
    BY <1>3, <1>4
<1>6. Len(stk) = 1 => P[1] = <<>>
    BY <1>3, <1>4
<1> QED BY <1>2, <1>3, <1>5, <1>6 DEF StackWith

\* The innermost frame changes.
LEMMA StackTurns ==
    ASSUME NEW ok, NEW ns, NEW stk, NEW c0, NEW c1, NEW D, NEW T, NEW f, NEW s, NEW P,
           StackWith(ok, ns, stk, c0, c1, D, T, f, s, P),
           NEW g, TopIs(g, ok, ns, c0, c1, D, P[1])
    PROVE  StackIs(ok, ns, <<g>> \o Tail(stk), c0, c1, D)
<1> DEFINE U == T \union {g}
           new == First(g, s)
<1>1. s \in Seq(T) /\ Outers(ok, ns, s, c0, c1, D, P)
    BY DEF StackWith
<1>2. g \in U /\ s \in Seq(U)
    BY <1>1, SeqWidens
<1>3. Tail(stk) = s
    BY StackParts
<1> HIDE DEF U
<1>4. StackWith(ok, ns, new, c0, c1, D, U, g, s, P)
    BY <1>1, <1>2 DEF StackWith
<1>5. StackIs(ok, ns, new, c0, c1, D)
  <2> HIDE DEF new
  <2> QED BY <1>4 DEF StackIs
<1> QED BY <1>3, <1>5 DEF First

\* A frame more.
LEMMA StackGrows ==
    ASSUME NEW ok, NEW ns, NEW stk, NEW c0, IsContents(c0), NEW c1, IsContents(c1), NEW D,
           NEW T, NEW f, NEW s, NEW P, StackWith(ok, ns, stk, c0, c1, D, T, f, s, P),
           NEW x \in Paths, Extends(x, P[1]),
           NEW g, TopIs(g, ok, Left(ns, c0, x), c0, c1, D, x),
           OuterIs(f, ok, Left(ns, c0, x), c0, c1, D, P[1], x)
    PROVE  StackIs(ok, Left(ns, c0, x), <<g>> \o stk, c0, c1, D)
<1> DEFINE U == T \union {g}
           new == First(g, stk)
           Q == First(x, P)
           ms == Left(ns, c0, x)
<1>1. f \in T /\ s \in Seq(T) /\ stk = First(f, s)
    BY DEF StackWith
<1>2. /\ P \in Seq(Paths) /\ Len(P) = Len(s) + 1 /\ P[Len(P)] = <<>>
      /\ \A i, j \in 1 .. Len(P) : i <= j => Extends(P[i], P[j])
      /\ \A i \in 1 .. Len(s) : OuterIs(s[i], ok, ns, c0, c1, D, P[i + 1], P[i])
    BY DEF StackWith, Outers
<1>3. /\ stk \in Seq(T) /\ Len(stk) = Len(s) + 1 /\ Len(s) \in Nat /\ stk[1] = f
      /\ \A i \in 1 .. Len(s) : stk[i + 1] = s[i]
    BY <1>1 DEF First
<1>4. g \in U /\ stk \in Seq(U)
    BY <1>3, SeqWidens
<1>5. /\ Q \in Seq(Paths) /\ Len(Q) = Len(P) + 1 /\ Q[1] = x
      /\ \A i \in 1 .. Len(P) : Q[i + 1] = P[i]
  <2>1. P \in Seq(Paths)
      BY <1>2
  <2> QED BY <2>1 DEF First
<1> HIDE DEF Q, U, ms
<1>6. \A i \in 1 .. Len(Q) : i = 1 \/ (i - 1 \in 1 .. Len(P) /\ Q[i] = P[i - 1])
  <2> TAKE i \in 1 .. Len(Q)
  <2>1. i # 1 => i - 1 \in 1 .. Len(P) /\ (i - 1) + 1 = i
      BY <1>2, <1>3, <1>5
  <2> QED BY <1>5, <2>1
<1>7. \A j \in 1 .. Len(P) : P[j] \in Paths /\ P[j] \in BitSeqs /\ Extends(x, P[j])
  <2> TAKE j \in 1 .. Len(P)
  <2>1. 1 \in 1 .. Len(P) /\ 1 <= j
      BY <1>2, <1>3
  <2>2. Extends(P[1], P[j]) /\ P[1] \in Paths /\ P[j] \in Paths
      BY <1>2, <2>1
  <2>3. P[1] \in BitSeqs /\ P[j] \in BitSeqs /\ x \in BitSeqs
      BY <2>2, PathLength
  <2> DEFINE a == P[1]
             b == P[j]
  <2>4. Extends(a, b) /\ a \in BitSeqs /\ b \in BitSeqs /\ Extends(x, a)
      BY <2>2, <2>3
  <2> HIDE DEF a, b
  <2>5. Extends(x, b)
      BY <2>3, <2>4, ExtendsTwice
  <2> QED BY <2>2, <2>3, <2>5 DEF b
<1>8. \A i, j \in 1 .. Len(Q) : i <= j => Extends(Q[i], Q[j])
  <2> TAKE i, j \in 1 .. Len(Q)
  <2> HAVE i <= j
  <2>1. CASE j = 1
    <3>1. i = 1 /\ x \in BitSeqs
        BY <2>1, PathLength
    <3> QED BY <1>5, <2>1, <3>1, ExtendsItself
  <2>2. CASE j # 1 /\ i = 1
    <3>1. j - 1 \in 1 .. Len(P) /\ Q[j] = P[j - 1]
        BY <1>6, <2>2
    <3> QED BY <1>5, <1>7, <2>2, <3>1
  <2>3. CASE j # 1 /\ i # 1
    <3>1. j - 1 \in 1 .. Len(P) /\ Q[j] = P[j - 1] /\ i - 1 \in 1 .. Len(P) /\ Q[i] = P[i - 1]
        BY <1>6, <2>3
    <3>2. i - 1 <= j - 1
        OBVIOUS
    <3>3. Extends(P[i - 1], P[j - 1])
        BY <1>2, <3>1, <3>2
    <3> QED BY <3>1, <3>3
  <2> QED BY <2>1, <2>2, <2>3
<1>9. \A i \in 1 .. Len(stk) : OuterIs(stk[i], ok, ms, c0, c1, D, Q[i + 1], Q[i])
  <2> TAKE i \in 1 .. Len(stk)
  <2>1. CASE i = 1
    <3>1. 1 \in 1 .. Len(P)
        BY <1>2, <1>3
    <3>2. Q[1 + 1] = P[1] /\ Q[1] = x
        BY <1>5, <3>1
    <3> QED BY <1>3, <2>1, <3>2 DEF ms
  <2>2. CASE i # 1
    <3> DEFINE j == i - 1
    <3>1. j \in 1 .. Len(s) /\ j + 1 = i /\ j + 1 \in 1 .. Len(P) /\ i \in 1 .. Len(P) /\ j \in 1 .. Len(P)
        BY <1>2, <1>3, <2>2
    <3> HIDE DEF j
    <3>2. stk[i] = s[j] /\ Q[i + 1] = P[j + 1] /\ Q[i] = P[j]
        BY <1>3, <1>5, <3>1
    <3> DEFINE a == P[j + 1]
               b == P[j]
               e == s[j]
    <3>3. OuterIs(e, ok, ns, c0, c1, D, a, b)
        BY <1>2, <3>1
    <3>4. b \in BitSeqs /\ Extends(x, b)
        BY <1>7, <3>1
    <3> HIDE DEF a, b, e
    <3>5. OuterIs(e, ok, Left(ns, c0, x), c0, c1, D, a, b)
        BY <3>3, <3>4, OuterKeeps
    <3> QED BY <3>2, <3>5 DEF a, b, e, ms
  <2> QED BY <2>1, <2>2
<1>10. Q[Len(Q)] = <<>>
  <2>1. Len(P) \in 1 .. Len(P)
      BY <1>2, <1>3
  <2> QED BY <1>2, <1>5, <2>1
<1>11. Outers(ok, ms, stk, c0, c1, D, Q)
  <2>1. Len(Q) = Len(stk) + 1
      BY <1>2, <1>3, <1>5
  <2> QED BY <1>5, <1>8, <1>9, <1>10, <2>1 DEF Outers
<1>12. TopIs(g, ok, ms, c0, c1, D, Q[1])
    BY <1>5 DEF ms
<1>13. StackWith(ok, ms, new, c0, c1, D, U, g, stk, Q)
    BY <1>4, <1>11, <1>12 DEF StackWith
<1>14. StackIs(ok, ms, new, c0, c1, D)
  <2> HIDE DEF new
  <2> QED BY <1>13 DEF StackIs
<1> QED BY <1>14 DEF First, ms

\* A frame less.
LEMMA StackShrinks ==
    ASSUME NEW ok, NEW ns, NEW stk, NEW c0, NEW c1, IsContents(c1), NEW D,
           NEW T, NEW f, NEW s, NEW P, StackWith(ok, ns, stk, c0, c1, D, T, f, s, P),
           Len(stk) > 1, NEW ms, DOMAIN ns \subseteq DOMAIN ms, ok => HasAt(ms, c1, P[1])
    PROVE  StackIs(ok, ms, <<Advance(stk[2], NodeAt(c1, P[1]))>> \o Tail(Tail(stk)), c0, c1, D)
<1> DEFINE g == Advance(stk[2], NodeAt(c1, P[1]))
           U == T \union {g}
           t == Tail(Tail(stk))
           Q == Tail(P)
           new == First(g, t)
<1>1. f \in T /\ s \in Seq(T) /\ stk = First(f, s)
    BY DEF StackWith
<1>2. /\ P \in Seq(Paths) /\ Len(P) = Len(s) + 1 /\ P[Len(P)] = <<>>
      /\ \A i, j \in 1 .. Len(P) : i <= j => Extends(P[i], P[j])
      /\ \A i \in 1 .. Len(s) : OuterIs(s[i], ok, ns, c0, c1, D, P[i + 1], P[i])
    BY DEF StackWith, Outers
<1>3. Tail(stk) = s /\ Len(stk) = Len(s) + 1 /\ Len(s) \in Nat
    BY StackParts
<1>4. stk[2] = s[1] /\ 1 \in 1 .. Len(s)
  <2>1. \A i \in 1 .. Len(s) : stk[i + 1] = s[i]
      BY <1>1 DEF First
  <2>2. 1 \in 1 .. Len(s) /\ 1 + 1 = 2
      BY <1>3
  <2> QED BY <2>1, <2>2
<1>5. /\ t \in Seq(T) /\ Len(t) = Len(s) - 1
      /\ \A i \in 1 .. Len(t) : t[i] = s[i + 1]
  <2>1. t = Tail(s)
      BY <1>3
  <2>2. s # <<>>
      BY <1>4
  <2> HIDE DEF t
  <2> QED BY <1>1, <1>3, <2>1, <2>2
<1>6. /\ Q \in Seq(Paths) /\ Len(Q) = Len(P) - 1
      /\ \A i \in 1 .. Len(Q) : Q[i] = P[i + 1]
  <2>1. P # <<>>
      BY <1>2, <1>3
  <2> QED BY <1>2, <2>1
<1>7. TopIs(g, ok, ms, c0, c1, D, Q[1])
  <2> DEFINE a == P[2]
             b == P[1]
             e == s[1]
  <2>1. OuterIs(e, ok, ns, c0, c1, D, a, b)
      BY <1>2, <1>4
  <2>2. b \in BitSeqs
    <3>1. b \in Paths
        BY <1>2, <1>3
    <3> QED BY <3>1, PathLength
  <2>3. ok => HasAt(ms, c1, b)
      OBVIOUS
  <2>4. Q[1] = a
    <3>1. 1 \in 1 .. Len(Q) /\ 1 + 1 = 2
        BY <1>2, <1>4, <1>6
    <3> QED BY <1>6, <3>1
  <2> HIDE DEF a, b, e
  <2>5. TopIs(Advance(e, NodeAt(c1, b)), ok, ms, c0, c1, D, a)
      BY <2>1, <2>2, <2>3, OuterAdvances
  <2> QED BY <1>4, <2>4, <2>5 DEF e, b
<1> HIDE DEF Q, t, U, g
<1>8. \A i, j \in 1 .. Len(Q) : i <= j => Extends(Q[i], Q[j])
  <2> TAKE i, j \in 1 .. Len(Q)
  <2> HAVE i <= j
  <2>1. i + 1 \in 1 .. Len(P) /\ j + 1 \in 1 .. Len(P) /\ i + 1 <= j + 1
      BY <1>2, <1>3, <1>6
  <2>2. Extends(P[i + 1], P[j + 1])
      BY <1>2, <2>1
  <2> QED BY <1>6, <2>2
<1>9. \A i \in 1 .. Len(t) : OuterIs(t[i], ok, ms, c0, c1, D, Q[i + 1], Q[i])
  <2> TAKE i \in 1 .. Len(t)
  <2> DEFINE j == i + 1
  <2>1. j \in 1 .. Len(s) /\ i \in 1 .. Len(Q) /\ j \in 1 .. Len(Q)
      BY <1>2, <1>3, <1>5, <1>6
  <2>2. t[i] = s[j] /\ Q[i + 1] = P[j + 1] /\ Q[i] = P[j]
      BY <1>5, <1>6, <2>1
  <2> DEFINE a == P[j + 1]
             b == P[j]
             e == s[j]
  <2>3. OuterIs(e, ok, ns, c0, c1, D, a, b)
      BY <1>2, <2>1
  <2> HIDE DEF a, b, e, j
  <2>4. OuterIs(e, ok, ms, c0, c1, D, a, b)
      BY <2>3, OuterGrows
  <2> QED BY <2>2, <2>4 DEF a, b, e
<1>10. Q[Len(Q)] = <<>>
  <2>1. Len(Q) \in 1 .. Len(Q) /\ Len(Q) + 1 = Len(P)
      BY <1>2, <1>4, <1>6
  <2> QED BY <1>2, <1>6, <2>1
<1>11. Outers(ok, ms, t, c0, c1, D, Q)
  <2>1. Len(Q) = Len(t) + 1
      BY <1>2, <1>3, <1>5, <1>6
  <2> QED BY <1>6, <1>8, <1>9, <1>10, <2>1 DEF Outers
<1>12. g \in U /\ t \in Seq(U)
  <2>1. g \in U /\ T \subseteq U
      BY DEF U
  <2> QED BY <1>5, <2>1, SeqWidens
<1>13. StackWith(ok, ms, new, c0, c1, D, U, g, t, Q)
    BY <1>7, <1>11, <1>12 DEF StackWith
<1>14. StackIs(ok, ms, new, c0, c1, D)
  <2> HIDE DEF new
  <2> QED BY <1>13 DEF StackIs
<1> QED BY <1>14 DEF First, t, g

\* One frame, for the whole tree.
LEMMA StackStarts ==
    ASSUME NEW ok, NEW ns, NEW c0, NEW c1, NEW D, NEW g, TopIs(g, ok, ns, c0, c1, D, <<>>)
    PROVE  StackIs(ok, ns, <<g>>, c0, c1, D)
<1> DEFINE P == <<<<>>>>
           none == <<>>
           T == {g}
<1>1. none \in Paths /\ none \in BitSeqs
    BY SparseMerkleTreeAssumption DEF Paths, BitSeqs
<1>2. P \in Seq(Paths) /\ Len(P) = 1 /\ P[1] = <<>>
    BY <1>1
<1>3. none \in Seq(T) /\ g \in T /\ Len(none) = 0
    OBVIOUS
<1> HIDE DEF P, T
<1>4. Extends(none, none)
    BY <1>1, ExtendsItself
<1>5. Outers(ok, ns, none, c0, c1, D, P)
    BY <1>2, <1>3, <1>4 DEF Outers
<1>6. <<g>> = First(g, none)
    BY DEF First
<1>7. StackWith(ok, ns, <<g>>, c0, c1, D, T, g, none, P)
    BY <1>2, <1>3, <1>5, <1>6 DEF StackWith
<1> HIDE DEF none
<1> QED BY <1>7 DEF StackIs

\* The contents an update starts from, and those it leads to.
Base == claims[call.root]

\* The contents that the running update shall lead to.
Result == Updated(Base, call.data)

\* The whole tree of the contents is stored.
WholeIn(ns, c) == RootBelow(c, <<>>) \in DOMAIN ns /\ HasAt(ns, c, <<>>)

\* A root that some call has returned is the root of the contents it is
\* said to stand for.
ClaimsOK == \A r \in DOMAIN claims : IsContents(claims[r]) /\ r = RootBelow(claims[r], <<>>)

\* The running update starts from such a root, with data about keys, and
\* its frames are as StackIs says.
CallOK ==
    /\ call.root \in DOMAIN claims
    /\ DOMAIN call.data \in SUBSET Keys
    /\ StackIs(Chained, nodes, stack, Base, Result, call.data)

\* The tree of the last root is stored as a whole.
TipOK == tip \in DOMAIN claims /\ WholeIn(nodes, claims[tip])

(* The inductive invariant.                                                *)
IInv ==
    /\ StoreOK(nodes)
    /\ ClaimsOK
    /\ stack # <<>> => CallOK
    /\ stack = <<>> /\ tip # None /\ tip # EmptyHash => TipOK

\* What the invariant says during an update,
LEMMA CallIs ==
    ASSUME IInv, stack # <<>>
    PROVE  /\ IsContents(Base) /\ IsContents(Result) /\ DOMAIN call.data \in SUBSET Keys
           /\ \E T, f, s, P : StackWith(Chained, nodes, stack, Base, Result, call.data, T, f, s, P)
<1>1. call.root \in DOMAIN claims /\ DOMAIN call.data \in SUBSET Keys
      /\ StackIs(Chained, nodes, stack, Base, Result, call.data)
    BY DEF IInv, CallOK
<1>2. IsContents(Base)
    BY <1>1 DEF IInv, ClaimsOK, Base
<1>3. IsContents(Result)
    BY <1>1, <1>2, UpdatedIs DEF Result
<1> QED BY <1>1, <1>2, <1>3 DEF StackIs

\* The next item of the innermost subtree, at x.
Doing(T, f, s, P, u, x, w) ==
    /\ IsContents(Base) /\ IsContents(Result) /\ DOMAIN call.data \in SUBSET Keys
    /\ StackWith(Chained, nodes, stack, Base, Result, call.data, T, f, s, P)
    /\ u \in Seq(BitSeqs) /\ x \in BitSeqs /\ w \in Seq(BitSeqs)
    /\ TopWith(f, Chained, nodes, Base, Result, call.data, P[1], u, First(x, w))
    /\ Top = f /\ f.height = Len(P[1])
    /\ Node = NodeAt(Base, x) /\ Pos = Len(x) - Len(P[1])
    /\ Data = Under(call.data, x)

\* and in one with something to be done in the innermost frame.
LEMMA BusyIs ==
    ASSUME IInv, Busy
    PROVE  \E T, f, s, P, u, x, w : Doing(T, f, s, P, u, x, w)
<1> DEFINE ok == Chained
           D == call.data
<1>1. stack # <<>> /\ Top.todo # <<>>
    BY DEF Busy
<1>2. IsContents(Base) /\ IsContents(Result) /\ DOMAIN D \in SUBSET Keys
    BY <1>1, CallIs
<1>3. PICK T, f, s, P : StackWith(ok, nodes, stack, Base, Result, D, T, f, s, P)
    BY <1>1, CallIs
<1> DEFINE p == P[1]
<1>4. Top = f /\ TopIs(f, ok, nodes, Base, Result, D, p)
    BY <1>3, StackParts DEF Top
<1>5. f.todo # <<>>
    BY <1>1, <1>4
<1> HIDE DEF ok, D, p
<1>6. PICK u \in Seq(BitSeqs), x \in BitSeqs, w \in Seq(BitSeqs) :
          TopWith(f, ok, nodes, Base, Result, D, p, u, First(x, w))
    BY <1>2, <1>4, <1>5, TopBusy
<1>7. FrameWith(f, Base, Result, D, p, u, First(x, w))
    BY <1>6 DEF TopWith
<1>8. f.height = Len(p)
  <2>1. HeldBy(f, Base, Result, D, p, u, x, w)
      BY <1>7, FrameHead
  <2> QED BY <2>1 DEF HeldBy
<1>9. Node = NodeAt(Base, x) /\ Pos = Len(x) - Len(p)
    BY <1>2, <1>4, <1>7, FrameNode DEF Node, Pos
<1>10. Data = Under(D, x)
    BY <1>2, <1>4, <1>7, FrameNode DEF Data, Pos
<1>11. Doing(T, f, s, P, u, x, w)
    BY <1>2, <1>3, <1>4, <1>6, <1>8, <1>9, <1>10 DEF Doing, ok, D, p
<1> QED BY <1>11

\* A step inside an update.
LEMMA StepInside ==
    ASSUME IInv, UNCHANGED <<call, claims, tip>>, stack # <<>>, StoreOK(nodes'),
           StackIs(Chained, nodes', stack', Base, Result, call.data)
    PROVE  IInv'
<1>1. call' = call /\ claims' = claims /\ tip' = tip
    OBVIOUS
<1>2. Base' = Base
    BY <1>1 DEF Base
<1>3. Result' = Result
    BY <1>1, <1>2 DEF Result
<1>4. Chained' = Chained
    BY <1>1 DEF Chained
<1>5. ClaimsOK'
    BY <1>1 DEF IInv, ClaimsOK
<1>6. CallOK'
  <2>1. call'.root \in DOMAIN claims' /\ DOMAIN call'.data \in SUBSET Keys
      BY <1>1 DEF IInv, CallOK
  <2>2. StackIs(Chained', nodes', stack', Base', Result', call'.data)
      BY <1>1, <1>2, <1>3, <1>4
  <2> QED BY <2>1, <2>2 DEF CallOK
<1>7. stack' # <<>>
    BY StackParts DEF StackIs
<1> QED BY <1>5, <1>6, <1>7 DEF IInv

\* update_node on a node without data.
LEMMA KeepNodeStep ==
    ASSUME IInv, KeepNode
    PROVE  IInv'
<1>1. PICK T, f, s, P, u, x, w : Doing(T, f, s, P, u, x, w)
    BY BusyIs DEF KeepNode
<1> DEFINE D == call.data
           ok == Chained
           p == P[1]
           g == Advance(Top, Node)
<1>2. /\ IsContents(Base) /\ DOMAIN D \in SUBSET Keys
      /\ StackWith(ok, nodes, stack, Base, Result, D, T, f, s, P)
      /\ u \in Seq(BitSeqs) /\ x \in BitSeqs /\ w \in Seq(BitSeqs)
      /\ TopWith(f, ok, nodes, Base, Result, D, p, u, First(x, w))
      /\ g = Advance(f, NodeAt(Base, x))
    BY <1>1 DEF Doing
<1>3. Below(DOMAIN D, x) = {}
    BY <1>1 DEF KeepNode, Doing, Under
<1>4. stack' = <<g>> \o Tail(stack) /\ UNCHANGED <<nodes, call, claims, tip>> /\ stack # <<>>
    BY DEF KeepNode, Busy
<1> HIDE DEF ok, D, p, g
<1>5. TopIs(g, ok, nodes, Base, Result, D, p)
    BY <1>2, <1>3, KeepTop DEF Result, D
<1>6. StackIs(ok, nodes, <<g>> \o Tail(stack), Base, Result, D)
    BY <1>2, <1>5, StackTurns DEF p
<1> QED BY <1>4, <1>6, StepInside DEF ok, D, IInv

\* update_node on a node and one value: update_single_node.
LEMMA SetSingleNodeStep ==
    ASSUME IInv, SetSingleNode
    PROVE  IInv'
<1>1. PICK T, f, s, P, u, x, w : Doing(T, f, s, P, u, x, w)
    BY BusyIs DEF SetSingleNode
<1> DEFINE D == call.data
           ok == Chained
           p == P[1]
           g == Advance(Top, UpdateSingleNode(Data))
<1>2. /\ IsContents(Base) /\ DOMAIN D \in SUBSET Keys
      /\ StackWith(ok, nodes, stack, Base, Result, D, T, f, s, P)
      /\ u \in Seq(BitSeqs) /\ x \in BitSeqs /\ w \in Seq(BitSeqs)
      /\ TopWith(f, ok, nodes, Base, Result, D, p, u, First(x, w))
      /\ g = Advance(f, UpdateSingleNode(Under(D, x)))
    BY <1>1 DEF Doing
<1>3. IsSingle(NodeAt(Base, x), Under(D, x))
    BY <1>1 DEF SetSingleNode, Doing
<1>4. stack' = <<g>> \o Tail(stack) /\ UNCHANGED <<nodes, call, claims, tip>> /\ stack # <<>>
    BY DEF SetSingleNode, Busy
<1> HIDE DEF ok, D, p, g
<1>5. TopIs(g, ok, nodes, Base, Result, D, p)
    BY <1>2, <1>3, SingleTop DEF Result, D
<1>6. StackIs(ok, nodes, <<g>> \o Tail(stack), Base, Result, D)
    BY <1>2, <1>5, StackTurns DEF p
<1> QED BY <1>4, <1>6, StepInside DEF ok, D, IInv

\* update_node on an empty node or a leaf and more values: it is split.
LEMMA SplitNodeStep ==
    ASSUME IInv, SplitNode
    PROVE  IInv'
<1>1. PICK T, f, s, P, u, x, w : Doing(T, f, s, P, u, x, w)
    BY BusyIs DEF SplitNode
<1> DEFINE D == call.data
           ok == Chained
           p == P[1]
           g == [Top EXCEPT !.todo = LeftRight(Node, Top.height, Pos) \o Tail(Top.todo)]
<1>2. /\ IsContents(Base) /\ DOMAIN D \in SUBSET Keys
      /\ StackWith(ok, nodes, stack, Base, Result, D, T, f, s, P)
      /\ u \in Seq(BitSeqs) /\ x \in BitSeqs /\ w \in Seq(BitSeqs)
      /\ TopWith(f, ok, nodes, Base, Result, D, p, u, First(x, w))
      /\ g = [f EXCEPT !.todo = LeftRight(NodeAt(Base, x), Len(p), Len(x) - Len(p)) \o Tail(f.todo)]
    BY <1>1 DEF Doing
<1>3. ~Many(Base, x) /\ Len(x) - Len(p) # SubtreeHeight
    BY <1>1, <1>2, StubIsMany DEF SplitNode, Doing
<1>4. stack' = <<g>> \o Tail(stack) /\ UNCHANGED <<nodes, call, claims, tip>> /\ stack # <<>>
    BY DEF SplitNode, Busy
<1> HIDE DEF ok, D, p, g
<1>5. TopIs(g, ok, nodes, Base, Result, D, p)
    BY <1>2, <1>3, SplitTop
<1>6. StackIs(ok, nodes, <<g>> \o Tail(stack), Base, Result, D)
    BY <1>2, <1>5, StackTurns DEF p
<1> QED BY <1>4, <1>6, StepInside DEF ok, D, IInv

\* Where an update enters a subtree, and where it would be stuck.
LEMMA GoesOnIs ==
    ASSUME NEW T, NEW f, NEW s, NEW P, NEW u, NEW x, NEW w, Doing(T, f, s, P, u, x, w), GoesOn
    PROVE  /\ x \in Paths /\ Extends(x, P[1])
           /\ Many(Base, x) => Pos = SubtreeHeight
           /\ Pos = SubtreeHeight =>
                  /\ Boundary(x) /\ Len(x) + SubtreeHeight <= KeyBits
                  /\ Len(x) = Len(P[1]) + SubtreeHeight
<1> DEFINE D == call.data
           p == P[1]
<1>1. /\ IsContents(Base) /\ DOMAIN D \in SUBSET Keys
      /\ u \in Seq(BitSeqs) /\ x \in BitSeqs /\ w \in Seq(BitSeqs)
      /\ TopWith(f, Chained, nodes, Base, Result, D, p, u, First(x, w))
      /\ Pos = Len(x) - Len(p)
    BY DEF Doing
<1>2. DOMAIN Under(D, x) # {} /\ ~IsSingle(NodeAt(Base, x), Under(D, x))
    BY DEF GoesOn, Doing
<1> HIDE DEF D, p
<1>3. Place(Base, Result, p, u, First(x, w))
    BY <1>1 DEF TopWith, FrameWith
<1>4. x \in Paths /\ Extends(x, p) /\ Len(p) \in Nat /\ (Many(Base, x) => Len(x) = Len(p) + SubtreeHeight)
    BY <1>1, <1>3, PlaceParts
<1>5. Many(Base, x) => Pos = SubtreeHeight
    BY <1>1, <1>4, SparseMerkleTreeAssumption
<1>6. Pos = SubtreeHeight =>
          /\ Boundary(x) /\ Len(x) + SubtreeHeight <= KeyBits
          /\ Len(x) = Len(p) + SubtreeHeight
    BY <1>1, <1>2, <1>3, HoleIsBoundary
<1> QED BY <1>4, <1>5, <1>6 DEF p

\* update_node at the bottom of a subtree: update_subtree of the next.
LEMMA EnterSubtreeStep ==
    ASSUME IInv, EnterSubtree
    PROVE  IInv'
<1>1. PICK T, f, s, P, u, x, w : Doing(T, f, s, P, u, x, w)
    BY BusyIs DEF EnterSubtree
<1> DEFINE D == call.data
           ok == Chained
           p == P[1]
           g == Frame(SubtreeBelow(nodes, NodeAt(Base, x)), Under(D, x), Len(x))
           ms == Left(nodes, Base, x)
<1>2. /\ IsContents(Base) /\ IsContents(Result) /\ DOMAIN D \in SUBSET Keys
      /\ StackWith(ok, nodes, stack, Base, Result, D, T, f, s, P)
      /\ u \in Seq(BitSeqs) /\ x \in BitSeqs /\ w \in Seq(BitSeqs)
      /\ TopWith(f, ok, nodes, Base, Result, D, p, u, First(x, w))
    BY <1>1 DEF Doing
<1>3. Pos = SubtreeHeight /\ GoesOn
    BY DEF EnterSubtree
<1>4. /\ x \in Paths /\ Extends(x, p)
      /\ Boundary(x) /\ Len(x) + SubtreeHeight <= KeyBits /\ Len(x) = Len(p) + SubtreeHeight
    BY <1>1, <1>3, GoesOnIs
<1>5. SubtreeBelow(nodes, NodeAt(Base, x)) # Missing
    BY <1>1 DEF EnterSubtree, Doing
<1>6. nodes' = ms
  <2>1. nodes' = IF NodeAt(Base, x).kind = "stub" THEN DelNode(nodes, NodeAt(Base, x).hash) ELSE nodes
      BY <1>1 DEF EnterSubtree, Doing
  <2> QED BY <1>2, <1>4, <2>1, LeftIs
<1>7. stack' = <<g>> \o stack
    BY <1>1, <1>3, <1>4 DEF EnterSubtree, Doing
<1>8. UNCHANGED <<call, claims, tip>> /\ stack # <<>> /\ StoreOK(nodes)
    BY DEF EnterSubtree, Busy, IInv
<1> HIDE DEF ok, D, p
<1>9. TopIs(g, ok, ms, Base, Result, D, x) /\ OuterIs(f, ok, ms, Base, Result, D, p, x)
    BY <1>2, <1>4, <1>5, <1>8, EnterTop
<1> HIDE DEF g
<1>10. StackIs(ok, ms, <<g>> \o stack, Base, Result, D)
    BY <1>2, <1>4, <1>9, StackGrows DEF p
<1>11. StoreOK(ms)
    BY <1>2, <1>4, <1>8, StoreKeeps
<1> HIDE DEF ms
<1> QED BY <1>6, <1>7, <1>8, <1>10, <1>11, StepInside DEF ok, D

\* The innermost subtree is done.
FinishedWith(T, f, s, P) ==
    /\ IsContents(Base) /\ IsContents(Result) /\ DOMAIN call.data \in SUBSET Keys
    /\ StackWith(Chained, nodes, stack, Base, Result, call.data, T, f, s, P)
    /\ Top = f /\ CalculateSubtree(f.done) = TreeAt(Result, P[1])
    /\ P[1] \in Paths /\ Len(P[1]) + SubtreeHeight <= KeyBits
    /\ Chained => HasAt(SetNode(nodes, TreeAt(Result, P[1])), Result, P[1])

\* A frame with nothing to be done has come to the last bin.
LEMMA FinishedIs ==
    ASSUME IInv, stack # <<>>, Top.todo = <<>>
    PROVE  /\ Top.low = Bins[SubtreeHeight]
           /\ \E T, f, s, P : FinishedWith(T, f, s, P)
<1> DEFINE ok == Chained
           D == call.data
<1>1. IsContents(Base) /\ IsContents(Result) /\ DOMAIN D \in SUBSET Keys
    BY CallIs
<1>2. PICK T, f, s, P : StackWith(ok, nodes, stack, Base, Result, D, T, f, s, P)
    BY CallIs
<1> DEFINE p == P[1]
<1>3. Top = f /\ TopIs(f, ok, nodes, Base, Result, D, p) /\ f.todo = <<>> /\ StoreOK(nodes)
    BY <1>2, StackParts DEF Top, IInv
<1> HIDE DEF ok, D, p
<1>4. /\ CalculateSubtree(f.done) = TreeAt(Result, p)
      /\ f.low = Bins[SubtreeHeight]
      /\ p \in Paths /\ Len(p) + SubtreeHeight <= KeyBits
      /\ ok => HasAt(SetNode(nodes, TreeAt(Result, p)), Result, p)
    BY <1>1, <1>3, TopStored
<1>5. FinishedWith(T, f, s, P)
    BY <1>1, <1>2, <1>3, <1>4 DEF FinishedWith, ok, D, p
<1> QED BY <1>3, <1>4, <1>5

\* The end of an inner update_subtree: the subtree is stored, its root
\* returned.
LEMMA LeaveSubtreeStep ==
    ASSUME IInv, LeaveSubtree
    PROVE  IInv'
<1>0. stack # <<>> /\ Top.todo = <<>> /\ StoreOK(nodes)
    BY DEF LeaveSubtree, Finished, IInv
<1>1. PICK T, f, s, P : FinishedWith(T, f, s, P)
    BY <1>0, FinishedIs
<1> DEFINE D == call.data
           ok == Chained
           p == P[1]
           ms == SetNode(nodes, TreeAt(Result, p))
           g == Advance(stack[2], NodeAt(Result, p))
<1>2. /\ IsContents(Result)
      /\ StackWith(ok, nodes, stack, Base, Result, D, T, f, s, P)
      /\ p \in Paths /\ Len(p) + SubtreeHeight <= KeyBits
      /\ CalculateSubtree(Top.done) = TreeAt(Result, p)
      /\ ok => HasAt(ms, Result, p)
    BY <1>1 DEF FinishedWith
<1>3. Collapsed(TreeAt(Result, p)) = NodeAt(Result, p)
    BY <1>2, CollapsedIs
<1>4. nodes' = ms
    BY <1>2 DEF LeaveSubtree, Stored
<1>5. stack' = <<g>> \o Tail(Tail(stack)) /\ Len(stack) > 1 /\ UNCHANGED <<call, claims, tip>>
    BY <1>2, <1>3 DEF LeaveSubtree
<1>6. StoreOK(ms) /\ DOMAIN nodes \subseteq DOMAIN ms
  <2>1. p \in Paths /\ Len(p) + SubtreeHeight <= KeyBits /\ IsContents(Result)
      BY <1>2
  <2> HIDE DEF p
  <2>2. StoreOK(ms) /\ DOMAIN ms = DOMAIN nodes \union {RootBelow(Result, p)}
      BY <1>0, <2>1, StoreKeeps
  <2> QED BY <2>2
<1> HIDE DEF ok, D, ms
<1>7. StackIs(ok, ms, <<g>> \o Tail(Tail(stack)), Base, Result, D)
    BY <1>2, <1>5, <1>6, StackShrinks
<1> HIDE DEF p, g
<1> QED BY <1>0, <1>4, <1>5, <1>6, <1>7, StepInside DEF ok, D

\* The end of the outermost one: commit returns the root.
LEMMA AnswerStep ==
    ASSUME IInv, Answer
    PROVE  IInv'
<1>0. stack # <<>> /\ Top.todo = <<>> /\ StoreOK(nodes) /\ Len(stack) = 1 /\ ClaimsOK
    BY DEF Answer, Finished, IInv
<1>1. PICK T, f, s, P : FinishedWith(T, f, s, P)
    BY <1>0, FinishedIs
<1> DEFINE none == <<>>
           tree == TreeAt(Result, none)
           ms == SetNode(nodes, tree)
           root == RootBelow(Result, none)
<1>2. P[1] = none
    BY <1>0, <1>1, StackParts DEF FinishedWith
<1>3. /\ IsContents(Result) /\ none \in Paths /\ Len(none) + SubtreeHeight <= KeyBits
      /\ CalculateSubtree(Top.done) = tree
      /\ Chained => HasAt(ms, Result, none)
    BY <1>1, <1>2 DEF FinishedWith
<1>4. tree.root = root
    BY DEF TreeAt
<1>5. StoreOK(ms) /\ DOMAIN ms = DOMAIN nodes \union {root}
    BY <1>0, <1>3, StoreKeeps, ZenonT(40)
<1>6. nodes' = ms /\ stack' = <<>>
    BY <1>3 DEF Answer, Stored
<1>7. /\ claims' = [r \in DOMAIN claims \union {root} |-> IF r = root THEN Result ELSE claims[r]]
      /\ tip' = IF Chained THEN root ELSE None
    BY <1>3, <1>4 DEF Answer, Result, Base
<1> HIDE DEF tree, ms, root
<1>8. /\ DOMAIN claims' = DOMAIN claims \union {root} /\ claims'[root] = Result
      /\ \A r \in DOMAIN claims : r # root => claims'[r] = claims[r]
    BY <1>7
<1>9. ClaimsOK'
  <2> SUFFICES ASSUME NEW r \in DOMAIN claims'
               PROVE  IsContents(claims'[r]) /\ r = RootBelow(claims'[r], <<>>)
      BY DEF ClaimsOK
  <2>1. CASE r = root
      BY <1>3, <1>8, <2>1 DEF root
  <2>2. CASE r # root
      BY <1>0, <1>8, <2>2 DEF ClaimsOK
  <2> QED BY <2>1, <2>2
<1>10. ASSUME tip' # None
       PROVE  TipOK'
  <2>1. Chained /\ tip' = root
      BY <1>7, <1>10
  <2>2. WholeIn(ms, Result)
      BY <1>3, <1>5, <2>1 DEF WholeIn, root
  <2>3. tip' \in DOMAIN claims' /\ claims'[tip'] = Result
      BY <1>8, <2>1
  <2> QED BY <1>6, <2>2, <2>3 DEF TipOK
<1> QED BY <1>5, <1>6, <1>9, <1>10 DEF IInv

\* An update of the tip is never stuck.
LEMMA NeverStuck ==
    ASSUME IInv, Chained
    PROVE  ~Stuck
<1> SUFFICES ASSUME Stuck
             PROVE  FALSE
    OBVIOUS
<1>1. stack # <<>>
    BY DEF Stuck
<1>2. CASE Top.todo = <<>>
    BY <1>1, <1>2, FinishedIs DEF Stuck
<1>3. CASE Top.todo # <<>>
  <2>1. GoesOn /\ IF Pos = SubtreeHeight THEN SubtreeBelow(nodes, Node) = Missing ELSE Node.kind = "stub"
      BY <1>3 DEF Stuck
  <2>2. PICK T, f, s, P, u, x, w : Doing(T, f, s, P, u, x, w)
      BY <1>1, <1>3, BusyIs DEF Busy
  <2>3. /\ x \in Paths /\ (Many(Base, x) => Pos = SubtreeHeight)
        /\ Pos = SubtreeHeight => Boundary(x) /\ Len(x) + SubtreeHeight <= KeyBits
      BY <2>1, <2>2, GoesOnIs
  <2>4. Node = NodeAt(Base, x) /\ IsContents(Base) /\ StoreOK(nodes)
      BY <2>2 DEF Doing, IInv
  <2>5. Node.kind = "stub" <=> Many(Base, x)
      BY <2>4, StubIsMany
  <2>6. Pos = SubtreeHeight /\ SubtreeBelow(nodes, NodeAt(Base, x)) = Missing
      BY <2>1, <2>3, <2>4, <2>5
  <2>7. HasAt(nodes, Base, x)
    <3>1. Has(nodes, Base, First(x, w)) /\ x \in BitSeqs /\ w \in Seq(BitSeqs)
        BY <2>2 DEF Doing, TopWith
    <3> QED BY <3>1, HasFirst
  <2>8. Many(Base, x) => RootBelow(Base, x) \in DOMAIN nodes
    <3>1. Boundary(x) /\ x \in BitSeqs
        BY <2>3, <2>6, PathLength
    <3>2. Extends(x, x)
        BY <3>1, ExtendsItself
    <3> QED BY <2>7, <3>1, <3>2 DEF HasAt
  <2> QED BY <2>3, <2>4, <2>6, <2>8, BelowIs
<1> QED BY <1>2, <1>3

\* NotFound: the call ends, and what it deleted stays deleted.
LEMMA FailUpdateStep ==
    ASSUME IInv, FailUpdate
    PROVE  IInv'
<1>1. ~Chained
    BY NeverStuck DEF FailUpdate
<1>2. stack' = <<>> /\ tip' = None /\ nodes' = nodes /\ claims' = claims
    BY <1>1 DEF FailUpdate
<1>3. ClaimsOK'
    BY <1>2 DEF IInv, ClaimsOK
<1> QED BY <1>2, <1>3 DEF IInv

\* A commit without data returns the root it was given.
LEMMA AnswerAtOnceStep ==
    ASSUME IInv, NEW root, NEW data, AnswerAtOnce(root, data)
    PROVE  IInv'
<1>1. stack = <<>> /\ UNCHANGED <<nodes, stack, claims, tip>>
    BY DEF AnswerAtOnce
<1>2. ClaimsOK'
    BY <1>1 DEF IInv, ClaimsOK
<1>3. tip # None /\ tip # EmptyHash => TipOK'
    BY <1>1 DEF IInv, TipOK
<1> QED BY <1>1, <1>2, <1>3 DEF IInv

\* The data of an update is all below the root.
LEMMA UnderRoot ==
    ASSUME NEW D, DOMAIN D \in SUBSET Keys, D = [k \in DOMAIN D |-> D[k]]
    PROVE  Under(D, <<>>) = D
<1> DEFINE none == <<>>
           K == DOMAIN D
<1>1. none \in Paths /\ \A k \in Keys : Extends(k, none)
  <2>1. \A k \in BitSeqs : Extends(k, none)
      BY DEF Extends
  <2>2. none \in Paths
      BY SparseMerkleTreeAssumption DEF Paths
  <2> HIDE DEF none
  <2> QED BY <2>1, <2>2, KeyIsPath
<1>2. K \subseteq Keys
    OBVIOUS
<1> HIDE DEF none, K
<1>3. Below(K, none) = {k \in K : Extends(k, none)}
    BY <1>1, <1>2, BelowExtends
<1>4. Below(K, none) = K
    BY <1>1, <1>2, <1>3
<1>5. Under(D, none) = [k \in K |-> D[k]]
    BY <1>4 DEF Under, K
<1> QED BY <1>5 DEF K, none

\* A commit gets the lock and reads the root's subtree.
LEMMA BeginStep ==
    ASSUME IInv, NEW root \in DOMAIN claims, NEW data \in Batches, Begin(root, data)
    PROVE  IInv'
<1> DEFINE none == <<>>
           c0 == claims[root]
           c1 == Updated(c0, data)
           ok == Chained'
           g == Frame(GetSubtree(nodes, root), data, 0)
           v == NormalFront(c0)[SubtreeHeight][none]
<1>1. /\ stack = <<>> /\ Accepted(root, data) /\ StoreOK(nodes) /\ ClaimsOK
      /\ call' = [root |-> root, data |-> data]
      /\ stack' = <<g>> /\ UNCHANGED <<nodes, claims, tip>>
    BY DEF Begin, IInv
<1>2. DOMAIN data \in SUBSET Keys /\ data = [k \in DOMAIN data |-> data[k]]
  <2>1. DOMAIN data \subseteq Seq({0, 1}) /\ data = [k \in DOMAIN data |-> data[k]]
      BY InMemorySMTAssumption
  <2>2. \A k \in DOMAIN data : Len(k) = KeyBits
      BY <1>1 DEF Accepted
  <2> QED BY <2>1, <2>2 DEF Keys, BitSeqs
<1>3. IsContents(c0) /\ root = RootBelow(c0, none)
    BY <1>1 DEF ClaimsOK
<1>4. IsContents(c1)
    BY <1>2, <1>3, UpdatedIs
<1>5. /\ Boundary(none) /\ none \in Paths /\ none \in BitSeqs /\ Len(none) = 0 /\ Len(none) + SubtreeHeight <= KeyBits
  <2>1. none \in BitSeqs /\ Len(none) = 0
      BY DEF BitSeqs
  <2>2. SubtreeHeight \in Nat \ {0} /\ KeyBits \in Nat \ {0} /\ KeyBits % SubtreeHeight = 0
      BY SparseMerkleTreeAssumption
  <2>3. none \in Paths
      BY <2>2 DEF Paths
  <2>4. 0 % SubtreeHeight = 0
      BY <2>2
  <2>5. 0 + SubtreeHeight <= KeyBits
    <3>1. 0 \in Nat /\ 0 < KeyBits
        BY <2>2
    <3> QED BY <2>2, <2>4, <3>1, BoundaryApart
  <2> QED BY <2>1, <2>3, <2>4, <2>5 DEF Boundary
<1>6. GetSubtree(nodes, root) = TreeAt(c0, none)
  <2>1. GetSubtree(nodes, root) # Missing
      BY <1>1 DEF Accepted
  <2> HIDE DEF c0, none
  <2> QED BY <1>1, <1>3, <1>5, <2>1, GetIs
<1>7. g = Frame(TreeAt(c0, none), Under(data, none), Len(none))
    BY <1>2, <1>5, <1>6, UnderRoot
<1>8. call'.root = root /\ call'.data = data /\ claims' = claims /\ tip' = tip /\ nodes' = nodes
    BY <1>1
<1>9. ok => HasAt(nodes, c0, none)
  <2>1. CASE root = EmptyHash
    <3>1. Below(DOMAIN c0, none) = {}
        BY <1>3, <1>5, <2>1, EmptyRoot
    <3>2. ~Many(c0, none)
        BY <3>1, FormsDiffer
    <3> HIDE DEF c0, none
    <3> QED BY <1>3, <1>5, <3>2, HasFew
  <2>2. CASE root # EmptyHash
    <3>1. ok => tip # None /\ root = tip
        BY <1>8, <2>2 DEF Chained
    <3>2. ok => TipOK
        BY <1>1, <2>2, <3>1 DEF IInv
    <3> QED BY <3>1, <3>2 DEF TipOK, WholeIn
  <2> QED BY <2>1, <2>2
<1> HIDE DEF g, ok, c0, c1
<1>10. FrameWith(g, c0, c1, data, none, none, v)
  <2> HIDE DEF none
  <2>1. FrameWith(Frame(TreeAt(c0, none), Under(data, none), Len(none)), c0, c1, data, none, <<>>, v)
      BY <1>3, <1>5, FrameStart
  <2> QED BY <1>7, <2>1 DEF none
<1>11. none \in Seq(BitSeqs) /\ v \in Seq(BitSeqs)
  <2>1. SubtreeHeight \in 0 .. SubtreeHeight /\ SubtreeHeight \in Nat /\ SubtreeHeight <= SubtreeHeight
      BY SparseMerkleTreeAssumption
  <2>2. v \in Fronts[SubtreeHeight][none]
      BY <1>5, <2>1, NormalIsFront
  <2> HIDE DEF v
  <2> QED BY <1>5, <2>1, <2>2, FrontType
<1>12. ok => Has(nodes, c1, none) /\ Has(nodes, c0, v)
  <2>1. Has(nodes, c1, none)
      BY DEF Has
  <2> HIDE DEF none
  <2>2. HasAt(nodes, c0, none) => Has(nodes, c0, v)
      BY <1>3, <1>5, FrontHas
  <2> QED BY <1>9, <2>1, <2>2
<1> HIDE DEF v
<1>13. TopIs(g, ok, nodes, c0, c1, data, none)
  <2>1. TopWith(g, ok, nodes, c0, c1, data, none, none, v)
      BY <1>10, <1>12 DEF TopWith
  <2> HIDE DEF none
  <2> QED BY <1>11, <2>1 DEF TopIs
<1>14. StackIs(ok, nodes, <<g>>, c0, c1, data)
    BY <1>13, StackStarts
<1>15. Base' = c0 /\ Result' = c1
    BY <1>8 DEF Base, Result, c0, c1
<1>16. CallOK'
  <2>1. StackIs(Chained', nodes', stack', Base', Result', call'.data)
      BY <1>1, <1>8, <1>14, <1>15 DEF ok
  <2>2. call'.root \in DOMAIN claims' /\ DOMAIN call'.data \in SUBSET Keys
      BY <1>2, <1>8
  <2> QED BY <2>1, <2>2 DEF CallOK
<1>17. ClaimsOK'
    BY <1>1, <1>8 DEF ClaimsOK
<1>18. stack' # <<>>
    BY <1>1
<1> QED BY <1>1, <1>8, <1>16, <1>17, <1>18 DEF IInv

\* The empty map of subtrees.
LEMMA InitIsFine ==
    ASSUME Init
    PROVE  IInv
<1> DEFINE c == claims[EmptyHash]
           none == <<>>
<1>1. StoreOK(nodes)
    BY DEF Init, StoreOK
<1>2. DOMAIN claims = {EmptyHash} /\ c = none
    BY DEF Init
<1>3. IsContents(none) /\ DOMAIN none = {}
    BY DEF IsContents
<1>4. none \in Paths
    BY SparseMerkleTreeAssumption DEF Paths
<1>5. RootBelow(none, none) = EmptyHash
  <2>1. Below(DOMAIN none, none) = {}
      BY <1>3 DEF Below
  <2> HIDE DEF none
  <2> QED BY <1>3, <1>4, <2>1, EmptyRoot
<1>6. ClaimsOK
    BY <1>2, <1>3, <1>5 DEF ClaimsOK
<1> QED BY <1>1, <1>6 DEF Init, IInv

\* Every step keeps the invariant.
LEMMA NextKeepsInvariant ==
    ASSUME IInv, [Next]_vars
    PROVE  IInv'
<1>1. CASE UNCHANGED vars
  <2>1. UNCHANGED <<nodes, call, stack, claims, tip>>
      BY <1>1 DEF vars
  <2> QED BY <2>1 DEF IInv, ClaimsOK, CallOK, TipOK, Base, Result, Chained
<1>2. ASSUME NEW root \in DOMAIN claims, NEW data \in Batches, AnswerAtOnce(root, data)
      PROVE  IInv'
    BY <1>2, AnswerAtOnceStep
<1>3. ASSUME NEW root \in DOMAIN claims, NEW data \in Batches, Begin(root, data)
      PROVE  IInv'
    BY <1>3, BeginStep
<1>4. CASE KeepNode
    BY <1>4, KeepNodeStep
<1>5. CASE SetSingleNode
    BY <1>5, SetSingleNodeStep
<1>6. CASE SplitNode
    BY <1>6, SplitNodeStep
<1>7. CASE EnterSubtree
    BY <1>7, EnterSubtreeStep
<1>8. CASE LeaveSubtree
    BY <1>8, LeaveSubtreeStep
<1>9. CASE Answer
    BY <1>9, AnswerStep
<1>10. CASE FailUpdate
    BY <1>10, FailUpdateStep
<1> QED BY <1>1, <1>2, <1>3, <1>4, <1>5, <1>6, <1>7, <1>8, <1>9, <1>10 DEF Next

\* IInv is an invariant of InMemorySMT: whatever calls come in whatever
\* order, from the last root or one replaced long ago, every stored subtree
\* is the one its hash stands for, the frames of a running update_subtree
\* are what its contents and data make of them, and a tree whose updates
\* are chained is complete.
THEOREM InvariantHolds == Spec => []IInv
<1>1. Init => IInv
    BY InitIsFine
<1>2. IInv /\ [Next]_vars => IInv'
    BY NextKeepsInvariant
<1> QED BY <1>1, <1>2, PTL DEF Spec

\* Whatever updates raced, failed or were chained: a root that commit returns
\* is the Merkle root of the contents of its base with the data applied.
THEOREM RootsStandForContents == Spec => []RootsAreReference
<1>1. IInv => RootsAreReference
    BY DEF IInv, ClaimsOK, RootsAreReference, MerkleRoot
<1> QED BY <1>1, InvariantHolds, PTL

\* The places of the stored subtrees are boundaries.
LEMMA SubtreePathIs ==
    ASSUME NEW c, IsContents(c), NEW p \in SubtreePaths(c)
    PROVE  p = <<>> \/ (Boundary(p) /\ Many(c, p))
<1> DEFINE H == SubtreeHeight
           N == KeyBits \div H
<1>1. H \in Nat \ {0} /\ KeyBits \in Nat \ {0} /\ KeyBits % H = 0
    BY SparseMerkleTreeAssumption
<1> SUFFICES ASSUME p # <<>>
             PROVE  Boundary(p) /\ Many(c, p)
    OBVIOUS
<1>2. PICK k \in DOMAIN c, n \in 1 .. N : p = SubSeq(k, 1, n * H)
    BY DEF SubtreePaths
<1>3. Many(c, p)
    BY DEF SubtreePaths, Many
<1>4. k \in BitSeqs /\ Len(k) = KeyBits
    BY <1>2 DEF IsContents, Keys
<1>5. N \in Nat /\ KeyBits = N * H
  <2> HIDE DEF H
  <2> QED BY <1>1
<1>6. n \in Nat /\ n * H \in Nat /\ n * H <= KeyBits /\ (n * H) % H = 0
  <2>1. n \in Nat /\ n <= N
      BY <1>5
  <2> HIDE DEF N, H
  <2>2. n * H <= N * H /\ n * H \in Nat
      BY <1>1, <1>5, <2>1
  <2>3. (n * H) % H = 0
      BY <1>1, <2>1
  <2> QED BY <1>5, <2>1, <2>2, <2>3
<1> DEFINE m == n * H
<1>7. m \in Nat /\ m <= KeyBits /\ m % H = 0 /\ p = SubSeq(k, 1, m)
    BY <1>2, <1>6
<1> HIDE DEF m, H, N
<1>8. p \in BitSeqs /\ Len(p) = m
    BY <1>4, <1>7 DEF BitSeqs
<1>9. p \in Paths
    BY <1>7, <1>8 DEF Paths, BitSeqs
<1> QED BY <1>3, <1>7, <1>8, <1>9 DEF Boundary, H

\* update_subtree deletes the stubs it replaces.  Between the updates of a
\* caller that chains them every subtree of the last root is stored all the
\* same, and no chained update fails with NotFound or otherwise gets stuck.
THEOREM TipStaysComplete == Spec => []TipIsComplete
<1>1. ASSUME IInv
      PROVE  TipIsComplete
  <2>1. ASSUME stack = <<>>, tip # None, tip # EmptyHash, NEW p \in SubtreePaths(claims[tip])
        PROVE  RootBelow(claims[tip], p) \in DOMAIN nodes
    <3> DEFINE c == claims[tip]
    <3>1. tip \in DOMAIN claims /\ WholeIn(nodes, c) /\ IsContents(c)
        BY <1>1, <2>1 DEF IInv, TipOK, ClaimsOK
    <3> HIDE DEF c
    <3>2. p \in SubtreePaths(c)
        BY <2>1 DEF c
    <3>3. CASE p = <<>>
        BY <3>1, <3>3 DEF WholeIn, c
    <3>4. CASE p # <<>>
      <4>1. Boundary(p) /\ Many(c, p)
          BY <3>1, <3>2, <3>4, SubtreePathIs
      <4>2. Extends(p, <<>>)
        <5>1. p \in BitSeqs
            BY <4>1, PathLength DEF Boundary
        <5> QED BY <5>1, ExtendsNothing
      <4> QED BY <3>1, <4>1, <4>2 DEF WholeIn, HasAt, c
    <3> QED BY <3>3, <3>4
  <2>2. Chained => ~Stuck
      BY <1>1, NeverStuck
  <2> QED BY <2>1, <2>2 DEF TipIsComplete
<1> QED BY <1>1, InvariantHolds, PTL

==============================================================================
