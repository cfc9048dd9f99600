--------------------------- MODULE FrontendProofs ---------------------------
(***************************************************************************)
(* Proofs about what clients of the frontends work on: the tree of shares  *)
(* (ShareTree) and the SSH keys (SshKeys).  The two components share no    *)
(* state and their proofs are independent.                                 *)
(*                                                                         *)
(* For the tree: what TreeInv adds to the types is that every folder on    *)
(* the way to a thing in the datadir is a folder, and that a call that has *)
(* been granted and checked still is what it was when it was checked, or   *)
(* the cause of a conflict is noted.                                       *)
(*                                                                         *)
(* For the user's keys: UserInv says what a clean update has done so far   *)
(* is all that is in the table.  For the host keys: HInv says that what    *)
(* clients know and nobody has renewed is what the table has.              *)
(***************************************************************************)
EXTENDS ShareTree, SshKeys, SequenceTheorems, FiniteSetTheorems, TLAPS

-----------------------------------------------------------------------------
(* Paths *)

\* One path is above another one, or is the same, if it is how that one begins.
LEMMA PrefixIs ==
    ASSUME NEW p \in Seq(Names), NEW q \in Seq(Names)
    PROVE  IsPrefix(p, q) <=> /\ Len(p) <= Len(q)
                              /\ \A i \in 1..Len(p) : p[i] = q[i]
<1>1. ASSUME Len(p) <= Len(q)
      PROVE  /\ SubSeq(p, 1, Len(p)) \in Seq(Names) /\ Len(SubSeq(p, 1, Len(p))) = Len(p)
             /\ SubSeq(q, 1, Len(p)) \in Seq(Names) /\ Len(SubSeq(q, 1, Len(p))) = Len(p)
             /\ \A i \in 1..Len(p) : SubSeq(p, 1, Len(p))[i] = p[i]
             /\ \A i \in 1..Len(p) : SubSeq(q, 1, Len(p))[i] = q[i]
  BY <1>1
<1>2. ASSUME Len(p) <= Len(q)
      PROVE  SubSeq(p, 1, Len(p)) = SubSeq(q, 1, Len(p))
                <=> \A i \in 1..Len(p) : p[i] = q[i]
  BY <1>1, <1>2, SeqEqual
<1>. QED
  BY <1>2 DEF IsPrefix

LEMMA PrefixesCompose ==
    ASSUME NEW p \in Seq(Names), NEW q \in Seq(Names), NEW r \in Seq(Names),
           IsPrefix(p, q), IsPrefix(q, r)
    PROVE  IsPrefix(p, r)
BY PrefixIs

LEMMA PrefixesOfOne ==
    ASSUME NEW p \in Seq(Names), NEW q \in Seq(Names), NEW r \in Seq(Names),
           IsPrefix(p, r), IsPrefix(q, r)
    PROVE  IsPrefix(p, q) \/ IsPrefix(q, p)
BY PrefixIs

LEMMA PrefixesBothWays ==
    ASSUME NEW p \in Seq(Names), NEW q \in Seq(Names), IsPrefix(p, q), IsPrefix(q, p)
    PROVE  p = q
BY PrefixIs, SeqEqual

LEMMA StrictIsShorter ==
    ASSUME NEW p \in Seq(Names), NEW q \in Seq(Names)
    PROVE  /\ IsStrictPrefix(p, q) <=> IsPrefix(p, q) /\ Len(p) < Len(q)
           /\ IsPrefix(p, q) => p = q \/ IsStrictPrefix(p, q)
           /\ IsPrefix(p, p) /\ ~IsStrictPrefix(p, p)
<1>1. IsPrefix(p, q) => (p # q <=> Len(p) < Len(q))
  BY PrefixIs, SeqEqual
<1>. QED
  BY <1>1, PrefixIs DEF IsStrictPrefix

\* What comes after a prefix, and what is put after one.
LEMMA RestIs ==
    ASSUME NEW p \in Seq(Names), NEW q \in Seq(Names), IsPrefix(p, q)
    PROVE  /\ Rest(q, p) \in Seq(Names) /\ Len(Rest(q, p)) = Len(q) - Len(p)
           /\ \A i \in 1..Len(Rest(q, p)) : Rest(q, p)[i] = q[Len(p) + i]
           /\ p \o Rest(q, p) = q
<1>1. Len(p) <= Len(q) /\ \A i \in 1..Len(p) : p[i] = q[i]
  BY PrefixIs
<1>2. /\ Rest(q, p) \in Seq(Names) /\ Len(Rest(q, p)) = Len(q) - Len(p)
      /\ \A i \in 1..Len(Rest(q, p)) : Rest(q, p)[i] = q[Len(p) + i]
  BY <1>1 DEF Rest
<1>3. /\ p \o Rest(q, p) \in Seq(Names) /\ Len(p \o Rest(q, p)) = Len(q)
      /\ \A i \in 1..Len(q) : (p \o Rest(q, p))[i] = q[i]
  <2>1. /\ p \o Rest(q, p) \in Seq(Names) /\ Len(p \o Rest(q, p)) = Len(q)
        /\ \A i \in 1..Len(q) : (p \o Rest(q, p))[i] =
                IF i <= Len(p) THEN p[i] ELSE Rest(q, p)[i - Len(p)]
    BY <1>1, <1>2, ConcatProperties
  <2>2. ASSUME NEW i \in 1..Len(q), i > Len(p) PROVE Rest(q, p)[i - Len(p)] = q[i]
    <3>1. i - Len(p) \in 1..Len(Rest(q, p)) /\ Len(p) + (i - Len(p)) = i
      BY <1>2, <2>2
    <3>. QED
      BY <1>2, <3>1
  <2>. QED
    BY <1>1, <2>1, <2>2
<1>. QED
  BY <1>2, <1>3, SeqEqual

LEMMA AfterPrefix ==
    ASSUME NEW p \in Seq(Names), NEW s \in Seq(Names)
    PROVE  p \o s \in Seq(Names) /\ IsPrefix(p, p \o s) /\ Rest(p \o s, p) = s
<1>1. /\ p \o s \in Seq(Names) /\ Len(p \o s) = Len(p) + Len(s)
      /\ \A i \in 1..Len(p) : (p \o s)[i] = p[i]
      /\ \A i \in 1..Len(s) : (p \o s)[Len(p) + i] = s[i]
  BY ConcatProperties
<1>2. IsPrefix(p, p \o s)
  <2>1. Len(p) <= Len(p \o s)
    BY <1>1
  <2>. QED
    BY <1>1, <2>1, PrefixIs
<1>3. Rest(p \o s, p) \in Seq(Names) /\ Len(Rest(p \o s, p)) = Len(s)
      /\ \A i \in 1..Len(s) : Rest(p \o s, p)[i] = s[i]
  <2>. DEFINE q == p \o s
  <2>1. q \in Seq(Names) /\ IsPrefix(p, q) /\ Len(q) = Len(p) + Len(s)
        /\ \A i \in 1..Len(s) : q[Len(p) + i] = s[i]
    BY <1>1, <1>2
  <2>. HIDE DEF q
  <2>2. /\ Rest(q, p) \in Seq(Names) /\ Len(Rest(q, p)) = Len(q) - Len(p)
        /\ \A i \in 1..Len(Rest(q, p)) : Rest(q, p)[i] = q[Len(p) + i]
    BY <2>1, RestIs
  <2>3. Rest(q, p) \in Seq(Names) /\ Len(Rest(q, p)) = Len(s)
        /\ \A i \in 1..Len(s) : Rest(q, p)[i] = s[i]
    BY <2>1, <2>2
  <2>. QED
    BY <2>3 DEF q
<1>. QED
  BY <1>1, <1>2, <1>3, SeqEqual

LEMMA RestOfSelf == ASSUME NEW p \in Seq(Names) PROVE Rest(p, p) = <<>>
<1>1. <<>> \in Seq(Names) /\ p \o <<>> = p
  BY ConcatEmptySeq
<1>. QED
  BY <1>1, AfterPrefix

\* A name is put after what follows a prefix.
LEMMA AppendAfter ==
    ASSUME NEW p \in Seq(Names), NEW s \in Seq(Names), NEW n \in Names
    PROVE  /\ Append(s, n) \in Seq(Names) /\ Append(s, n) # <<>>
           /\ Append(p \o s, n) = p \o Append(s, n)
           /\ Rest(Append(p \o s, n), p) = Append(s, n)
<1>. DEFINE a == Append(s, n)
<1>1. a \in Seq(Names) /\ Len(a) = Len(s) + 1 /\ Len(s) \in Nat
  OBVIOUS
<1>2. Append(p \o s, n) = p \o a
  OBVIOUS
<1>. HIDE DEF a
<1>3. a # <<>>
  BY <1>1
<1>4. Rest(p \o a, p) = a
  BY <1>1, AfterPrefix
<1>. QED
  BY <1>1, <1>2, <1>3, <1>4 DEF a

LEMMA RestOfAppend ==
    ASSUME NEW p \in Seq(Names), NEW q \in Seq(Names), IsPrefix(p, q), NEW n \in Names
    PROVE  /\ Append(Rest(q, p), n) \in Seq(Names) /\ Append(Rest(q, p), n) # <<>>
           /\ Rest(Append(q, n), p) = Append(Rest(q, p), n)
<1>. DEFINE r == Rest(q, p)
<1>1. r \in Seq(Names) /\ p \o r = q
  BY RestIs
<1>. HIDE DEF r
<1>2. /\ Append(r, n) \in Seq(Names) /\ Append(r, n) # <<>>
      /\ Rest(Append(p \o r, n), p) = Append(r, n)
  BY <1>1, AppendAfter
<1>. QED
  BY <1>1, <1>2 DEF r

\* Two paths with the same beginning compare as what follows it.
LEMMA PrefixOfRest ==
    ASSUME NEW m \in Seq(Names), NEW p \in Seq(Names), NEW q \in Seq(Names),
           IsPrefix(m, p), IsPrefix(m, q)
    PROVE  IsPrefix(p, q) <=> IsPrefix(Rest(p, m), Rest(q, m))
<1>1. /\ Rest(p, m) \in Seq(Names) /\ Len(Rest(p, m)) = Len(p) - Len(m)
      /\ \A i \in 1..Len(Rest(p, m)) : Rest(p, m)[i] = p[Len(m) + i]
      /\ Rest(q, m) \in Seq(Names) /\ Len(Rest(q, m)) = Len(q) - Len(m)
      /\ \A i \in 1..Len(Rest(q, m)) : Rest(q, m)[i] = q[Len(m) + i]
  BY RestIs
<1>2. /\ Len(m) <= Len(p) /\ \A i \in 1..Len(m) : p[i] = m[i]
      /\ Len(m) <= Len(q) /\ \A i \in 1..Len(m) : q[i] = m[i]
  BY PrefixIs
<1>3. ASSUME IsPrefix(p, q) PROVE IsPrefix(Rest(p, m), Rest(q, m))
  <2>1. Len(p) <= Len(q) /\ \A i \in 1..Len(p) : p[i] = q[i]
    BY <1>3, PrefixIs
  <2>2. \A i \in 1..Len(Rest(p, m)) : Rest(p, m)[i] = Rest(q, m)[i]
    <3>. SUFFICES ASSUME NEW i \in 1..Len(Rest(p, m))
                  PROVE  Rest(p, m)[i] = Rest(q, m)[i]
      OBVIOUS
    <3>1. Len(m) + i \in 1..Len(p) /\ i \in 1..Len(Rest(q, m))
      BY <1>1, <1>2, <2>1
    <3>2. Rest(p, m)[i] = p[Len(m) + i] /\ Rest(q, m)[i] = q[Len(m) + i]
      BY <1>1, <3>1
    <3>. QED
      BY <2>1, <3>1, <3>2
  <2>3. Len(Rest(p, m)) <= Len(Rest(q, m))
    BY <1>1, <1>2, <2>1
  <2>. QED
    BY <1>1, <2>2, <2>3, PrefixIs
<1>4. ASSUME IsPrefix(Rest(p, m), Rest(q, m)) PROVE IsPrefix(p, q)
  <2>1. /\ Len(p) <= Len(q)
        /\ \A i \in 1..(Len(p) - Len(m)) : p[Len(m) + i] = q[Len(m) + i]
    BY <1>1, <1>4, PrefixIs
  <2>2. ASSUME NEW i \in 1..Len(p) PROVE p[i] = q[i]
    <3>1. CASE i <= Len(m)
      BY <1>2, <3>1
    <3>2. CASE i > Len(m)
      <4>1. i - Len(m) \in 1..(Len(p) - Len(m)) /\ Len(m) + (i - Len(m)) = i
        BY <3>2
      <4>. QED
        BY <2>1, <4>1
    <3>. QED
      BY <3>1, <3>2
  <2>. QED
    BY <2>1, <2>2, PrefixIs
<1>. QED
  BY <1>3, <1>4

\* Path n below p: what is above it is p or above p.
LEMMA AppendIs ==
    ASSUME NEW p \in Seq(Names), NEW n \in Names
    PROVE  /\ Append(p, n) \in Seq(Names) /\ IsStrictPrefix(p, Append(p, n))
           /\ \A q \in Seq(Names) :
                IsPrefix(q, Append(p, n)) => q = Append(p, n) \/ IsPrefix(q, p)
           /\ \A q \in Seq(Names) :
                IsPrefix(Append(p, n), q) <=> IsStrictPrefix(p, q) /\ q[Len(p) + 1] = n
<1>1. /\ Append(p, n) \in Seq(Names) /\ Len(Append(p, n)) = Len(p) + 1
      /\ \A i \in 1..Len(p) : Append(p, n)[i] = p[i]
      /\ Append(p, n)[Len(p) + 1] = n
  OBVIOUS
<1>2. IsStrictPrefix(p, Append(p, n))
  <2>1. IsPrefix(p, Append(p, n)) /\ Len(p) < Len(Append(p, n))
    <3>1. Len(p) <= Len(Append(p, n)) /\ Len(p) < Len(Append(p, n))
      BY <1>1
    <3>. QED
      BY <1>1, <3>1, PrefixIs
  <2>. QED
    BY <1>1, <2>1, StrictIsShorter
<1>3. ASSUME NEW q \in Seq(Names), IsPrefix(q, Append(p, n))
      PROVE  q = Append(p, n) \/ IsPrefix(q, p)
  <2>1. Len(q) <= Len(p) + 1 /\ \A i \in 1..Len(q) : q[i] = Append(p, n)[i]
    BY <1>1, <1>3, PrefixIs
  <2>2. CASE Len(q) = Len(p) + 1
    BY <1>1, <2>1, <2>2, SeqEqual
  <2>3. CASE Len(q) <= Len(p)
    BY <1>1, <2>1, <2>3, PrefixIs
  <2>. QED
    BY <2>1, <2>2, <2>3
<1>4. ASSUME NEW q \in Seq(Names)
      PROVE  IsPrefix(Append(p, n), q) <=> IsStrictPrefix(p, q) /\ q[Len(p) + 1] = n
  <2>1. IsPrefix(Append(p, n), q)
            <=> Len(p) + 1 <= Len(q) /\ \A i \in 1..(Len(p) + 1) : Append(p, n)[i] = q[i]
    BY <1>1, PrefixIs
  <2>2. IsStrictPrefix(p, q) <=> Len(p) < Len(q) /\ \A i \in 1..Len(p) : p[i] = q[i]
    BY PrefixIs, StrictIsShorter
  <2>. DEFINE a == Append(p, n)
  <2>3. /\ Len(p) \in Nat /\ Len(q) \in Nat
        /\ a[Len(p) + 1] = n /\ \A i \in 1..Len(p) : a[i] = p[i]
    BY <1>1
  <2>. HIDE DEF a
  <2>4. (Len(p) + 1 <= Len(q) /\ \A i \in 1..(Len(p) + 1) : a[i] = q[i])
            <=> (Len(p) < Len(q) /\ (\A i \in 1..Len(p) : p[i] = q[i])
                    /\ q[Len(p) + 1] = n)
    <3>1. 1..(Len(p) + 1) = 1..Len(p) \cup {Len(p) + 1}
      BY <2>3
    <3>. QED
      BY <2>3, <3>1
  <2>. QED
    BY <2>1, <2>2, <2>4 DEF a
<1>. QED
  BY <1>1, <1>2, <1>3, <1>4

-----------------------------------------------------------------------------
(* Subsequences *)

\* What is kept of a sequence is a sequence of what was to be kept: the places
\* that are kept have the ranks from 1 to their number, each one of its own.
LEMMA KeptIs ==
    ASSUME NEW A, NEW s \in Seq(A), NEW S
    PROVE  Kept(s, S) \in Seq(S)
<1>. DEFINE at == {i \in DOMAIN s : s[i] \in S}
            N == Cardinality(at)
            upTo(i) == {k \in at : k <= i}
            rank == [i \in at |-> Cardinality(upTo(i))]
            Nth(n) == CHOOSE i \in at : Cardinality(upTo(i)) = n
<1>1. at \subseteq 1..Len(s) /\ Len(s) \in Nat /\ \A i \in at : s[i] \in S
  OBVIOUS
<1>2. IsFiniteSet(at) /\ N \in Nat
  <2>. HIDE DEF at
  <2>1. 1 \in Int /\ Len(s) \in Int /\ at \in SUBSET (1..Len(s))
    BY <1>1
  <2>2. IsFiniteSet(1..Len(s))
    BY <2>1, FS_Interval
  <2>. QED
    BY <2>1, <2>2, FS_Subset, FS_CardinalityType
<1>3. \A i \in at : upTo(i) \subseteq at /\ i \in upTo(i)
  BY <1>1
<1>4. \A i, j \in at : i < j => upTo(i) \subseteq upTo(j) /\ j \notin upTo(i)
  BY <1>1
<1>. HIDE DEF at, upTo
<1>5. \A i \in at : /\ IsFiniteSet(upTo(i)) /\ Cardinality(upTo(i)) \in Nat
                    /\ Cardinality(upTo(i)) <= N /\ Cardinality(upTo(i)) # 0
  <2>. SUFFICES ASSUME NEW i \in at
                PROVE  /\ IsFiniteSet(upTo(i)) /\ Cardinality(upTo(i)) \in Nat
                       /\ Cardinality(upTo(i)) <= N /\ Cardinality(upTo(i)) # 0
    OBVIOUS
  <2>1. upTo(i) \in SUBSET at /\ upTo(i) # {}
    BY <1>3
  <2>2. IsFiniteSet(upTo(i)) /\ Cardinality(upTo(i)) <= N
    BY <1>2, <2>1, FS_Subset
  <2>. QED
    BY <2>1, <2>2, FS_CardinalityType, FS_EmptySet
<1>6. ASSUME NEW i \in at, NEW j \in at, i < j PROVE rank[i] # rank[j]
  <2>1. upTo(i) \in SUBSET upTo(j) /\ upTo(i) # upTo(j)
    BY <1>3, <1>4, <1>6
  <2>2. Cardinality(upTo(i)) # Cardinality(upTo(j))
    BY <1>5, <2>1, FS_Subset
  <2>. QED
    BY <2>2
<1>7. rank \in Injection(at, 1..N)
  <2>1. rank \in [at -> 1..N]
    BY <1>2, <1>5
  <2>2. \A i, j \in at : rank[i] = rank[j] => i = j
    <3>. HIDE DEF rank
    <3>1. \A i, j \in at : i < j \/ j < i \/ i = j
      BY <1>1
    <3>. QED
      BY <1>6, <3>1
  <2>. HIDE DEF rank
  <2>. QED
    BY <2>1, <2>2, Zenon DEF Injection, IsInjective
<1>8. rank \in Surjection(at, 1..N)
  <2>. HIDE DEF rank
  <2>1. IsFiniteSet(1..N) /\ Cardinality(1..N) = N
    BY <1>2, FS_Interval
  <2>. QED
    BY <1>7, <2>1, FS_Injection DEF N
<1>9. \A n \in 1..N : \E i \in at : Cardinality(upTo(i)) = n
  BY <1>8 DEF Surjection
<1>10. \A n \in 1..N : Nth(n) \in at
  BY <1>9
<1>11. Kept(s, S) = [n \in 1..N |-> s[Nth(n)]]
  BY DEF Kept, at, upTo
<1>. HIDE DEF Nth, N
<1>12. [n \in 1..N |-> s[Nth(n)]] \in Seq(S)
  <2>1. \A n \in 1..N : s[Nth(n)] \in S
    BY <1>1, <1>10
  <2>. DEFINE r == [n \in 1..N |-> s[Nth(n)]]
  <2>2. r \in [1..N -> S]
    BY <2>1
  <2>. HIDE DEF r
  <2>3. r \in Seq(S)
    BY <1>2, <2>2
  <2>. QED
    BY <2>3 DEF r
<1>. QED
  BY <1>11, <1>12

-----------------------------------------------------------------------------
(* The datadir is a tree *)

USE ShareTreeAssumption

\* What there may be at a path.
Kinds == {Absent, Folder} \cup Files

\* What is in the tree d is in folders.
InFolders(d) == \A q \in Paths : d[q] # Absent => \A p \in Parents[q] : d[p] = Folder

DiskTyped == disk \in [Paths -> Kinds] /\ InFolders(disk)

LEMMA PathsAre ==
    /\ \A p \in Paths : p \in Seq(Names) /\ IsPrefix(p, p)
    /\ \A q \in Paths, p \in Seq(Names) : IsPrefix(p, q) => p \in Paths
<1>1. ASSUME NEW q \in Paths, NEW p \in Seq(Names), IsPrefix(p, q) PROVE p \in Paths
  <2>1. /\ q \in Seq(Names) /\ Len(p) <= Len(q)
        /\ \A i \in 1..Len(p) : p[i] = q[i]
    BY <1>1, PrefixIs
  <2>2. SubSeq(q, 1, Len(p)) \in Seq(Names) /\ Len(SubSeq(q, 1, Len(p))) = Len(p)
        /\ \A i \in 1..Len(p) : SubSeq(q, 1, Len(p))[i] = p[i]
    BY <2>1
  <2>3. SubSeq(q, 1, Len(p)) = p
    BY <2>2, SeqEqual
  <2>4. Len(p) \in 0..Len(q)
    BY <2>1
  <2>. QED
    BY <2>3, <2>4
<1>. QED
  BY <1>1, StrictIsShorter

\* The folders above a path, and what is below it.
LEMMA ParentsAre ==
    ASSUME NEW p \in Paths, NEW q \in Paths
    PROVE  /\ p \in Parents[q] <=> IsPrefix(p, q) /\ p # q
           /\ p \in Parents[q] <=> IsPrefix(p, q) /\ ~IsPrefix(q, p)
           /\ q \in Subtree[p] <=> IsPrefix(p, q)
<1>1. p \in Seq(Names) /\ q \in Seq(Names)
  OBVIOUS
<1>2. p \in Parents[q] <=> IsPrefix(p, q) /\ p # q
  BY DEF Parents, IsStrictPrefix
<1>3. IsPrefix(p, p) /\ (IsPrefix(p, q) /\ IsPrefix(q, p) => p = q)
  BY <1>1, PrefixesBothWays, StrictIsShorter
<1>. QED
  BY <1>2, <1>3 DEF Subtree

LEMMA ParentsInPaths == \A q \in Paths : Parents[q] \subseteq Paths
BY DEF Parents

\* A file or a folder is put where nothing is and no file is in the way.
LEMMA WithKeepsTree ==
    ASSUME DiskTyped, NEW d \in Paths, NEW x \in Kinds, disk[d] = Absent, ~Blocked(d)
    PROVE  /\ With(d, x) \in [Paths -> Kinds] /\ InFolders(With(d, x))
           /\ \A q \in Paths : With(d, x)[q] # disk[q] =>
                q = d \/ (q \in Parents[d] /\ disk[q] = Absent /\ With(d, x)[q] = Folder)
<1>1. \A q \in Paths : With(d, x)[q] = IF q = d THEN x
                                       ELSE IF q \in Parents[d] THEN Folder ELSE disk[q]
  BY DEF With
<1>2. With(d, x) \in [Paths -> Kinds]
  BY DEF With, DiskTyped, Kinds
<1>3. \A q \in Parents[d] : q \in Paths /\ disk[q] \notin Files
  BY ParentsInPaths DEF Blocked
<1>4. ASSUME NEW q \in Paths, With(d, x)[q] # Absent, NEW p \in Parents[q]
      PROVE  With(d, x)[p] = Folder
  <2>1. p \in Paths
    BY ParentsInPaths
  <2>2. CASE p \in Parents[d]
    <3>1. p # d
      BY <2>1, <2>2, ParentsAre
    <3>. QED
      BY <1>1, <2>1, <2>2, <3>1
  <2>3. CASE p \notin Parents[d]
    <3>1. q # d
      BY <2>3
    <3>2. q \notin Parents[d]
      BY <2>1, <2>3, ParentsAre, PrefixesCompose
    <3>3. disk[q] # Absent
      BY <1>1, <1>4, <3>1, <3>2
    <3>4. disk[p] = Folder
      BY <3>3 DEF DiskTyped, InFolders
    <3>. QED
      BY <1>1, <2>1, <2>3, <3>4 DEF Absent, Folder
  <2>. QED
    BY <2>2, <2>3
<1>. QED
  BY <1>1, <1>2, <1>3, <1>4 DEF InFolders, DiskTyped, Kinds

\* What has nothing below it is taken away.
LEMMA WithoutKeepsTree ==
    ASSUME DiskTyped, NEW d \in Paths, disk[d] # Absent,
           \A q \in Paths : d \in Parents[q] => disk[q] = Absent
    PROVE  /\ With(d, Absent) \in [Paths -> Kinds] /\ InFolders(With(d, Absent))
           /\ \A q \in Paths : q # d => With(d, Absent)[q] = disk[q]
<1>1. With(d, Absent) \in [Paths -> Kinds]
  BY DEF With, DiskTyped, Kinds
<1>2. \A q \in Parents[d] : disk[q] = Folder
  BY DEF DiskTyped, InFolders
<1>3. \A q \in Paths : With(d, Absent)[q] = IF q = d THEN Absent ELSE disk[q]
  BY <1>2 DEF With
<1>4. ASSUME NEW q \in Paths, With(d, Absent)[q] # Absent, NEW p \in Parents[q]
      PROVE  With(d, Absent)[p] = Folder
  <2>1. p \in Paths /\ q # d /\ disk[q] # Absent
    BY <1>3, <1>4, ParentsInPaths
  <2>2. p # d /\ disk[p] = Folder
    BY <2>1 DEF DiskTyped, InFolders
  <2>. QED
    BY <1>3, <2>1, <2>2
<1>. QED
  BY <1>1, <1>3, <1>4 DEF InFolders

\* An empty folder has nothing anywhere below it.
LEMMA EmptyFolder ==
    ASSUME DiskTyped, NEW d \in Paths, OnDisk(d) = {}, NEW q \in Paths, d \in Parents[q]
    PROVE  disk[q] = Absent
<1>1. /\ d \in Seq(Names) /\ q \in Seq(Names) /\ IsStrictPrefix(d, q)
      /\ Len(d) < Len(q)
  BY ParentsAre, StrictIsShorter DEF IsStrictPrefix
<1>. DEFINE n == q[Len(d) + 1]
            c == Append(d, n)
<1>2. n \in Names
  BY <1>1
<1>3. c \in Seq(Names) /\ IsPrefix(c, q)
  BY <1>1, <1>2, AppendIs
<1>4. c \in Paths
  BY <1>3, PathsAre
<1>5. disk[c] = Absent
  BY <1>2, <1>4 DEF OnDisk
<1>6. c = q \/ c \in Parents[q]
  BY <1>3, <1>4, ParentsAre
<1>. QED
  BY <1>5, <1>6 DEF DiskTyped, InFolders, Absent, Folder

\* Where something in the tree at dst is taken from.
From(src, dst, p) == src \o Rest(p, dst)

LEMMA FromIs ==
    ASSUME NEW src \in Paths, NEW dst \in Paths,
           NEW p \in Paths, NEW q \in Paths, p \in Subtree[dst], IsPrefix(p, q)
    PROVE  /\ q \in Subtree[dst]
           /\ From(src, dst, p) \in Seq(Names) /\ From(src, dst, q) \in Seq(Names)
           /\ IsPrefix(From(src, dst, p), From(src, dst, q))
           /\ p # q => From(src, dst, p) # From(src, dst, q)
<1>1. /\ src \in Seq(Names) /\ dst \in Seq(Names) /\ p \in Seq(Names) /\ q \in Seq(Names)
      /\ IsPrefix(dst, p) /\ IsPrefix(dst, q)
  BY ParentsAre, PrefixesCompose
<1>. DEFINE f == Rest(p, dst)
            g == Rest(q, dst)
<1>2. /\ f \in Seq(Names) /\ g \in Seq(Names) /\ IsPrefix(f, g)
      /\ dst \o f = p /\ dst \o g = q
  BY <1>1, RestIs, PrefixOfRest
<1>. HIDE DEF f, g
<1>3. /\ src \o f \in Seq(Names) /\ IsPrefix(src, src \o f) /\ Rest(src \o f, src) = f
      /\ src \o g \in Seq(Names) /\ IsPrefix(src, src \o g) /\ Rest(src \o g, src) = g
  BY <1>1, <1>2, AfterPrefix
<1>4. IsPrefix(src \o f, src \o g)
  <2>. DEFINE x == src \o f
              y == src \o g
  <2>1. /\ x \in Seq(Names) /\ IsPrefix(src, x) /\ Rest(x, src) = f
        /\ y \in Seq(Names) /\ IsPrefix(src, y) /\ Rest(y, src) = g
    BY <1>3
  <2>. HIDE DEF x, y
  <2>2. IsPrefix(x, y)
    BY <1>1, <1>2, <2>1, PrefixOfRest
  <2>. QED
    BY <2>2 DEF x, y
<1>5. p # q => src \o f # src \o g
  BY <1>2, <1>3
<1>. QED
  BY <1>1, <1>3, <1>4, <1>5, ParentsAre DEF From, f, g

\* A tree is copied or moved to where no file is in the way, and no folder is
\* in a file's place or the other way round.
LEMMA CopyKeepsTree ==
    ASSUME DiskTyped, NEW src \in Paths, NEW dst \in Paths, NEW moved \in BOOLEAN,
           ~Blocked(dst), ~Clash(src, dst),
           moved => ~IsPrefix(src, dst) /\ ~IsPrefix(dst, src)
    PROVE  /\ Copy(src, dst, moved) \in [Paths -> Kinds]
           /\ InFolders(Copy(src, dst, moved))
           /\ \A q \in Paths : Copy(src, dst, moved)[q] # disk[q] =>
                /\ Copy(src, dst, moved)[q] \in {Absent, Folder, "unchecked"}
                /\ \/ q \in Subtree[dst]
                   \/ moved /\ q \in Subtree[src]
                   \/ q \in Parents[dst] /\ disk[q] = Absent
                        /\ Copy(src, dst, moved)[q] = Folder
<1>. DEFINE D == Copy(src, dst, moved)
            Taken(p) == /\ p \in Subtree[dst]
                        /\ From(src, dst, p) \in Paths /\ disk[From(src, dst, p)] # Absent
            Gone(p) == moved /\ p \in Subtree[src]
<1>1. ASSUME NEW p \in Paths
      PROVE  /\ p \in Parents[dst] => ~Taken(p) /\ ~Gone(p)
             /\ Gone(p) => ~Taken(p)
  <2>1. p \in Parents[dst] => p \notin Subtree[dst]
    BY ParentsAre
  <2>2. p \in Parents[dst] => ~Gone(p)
    BY ParentsAre, PrefixesCompose
  <2>3. p \in Subtree[dst] => ~Gone(p)
    BY ParentsAre, PrefixesOfOne
  <2>. QED
    BY <2>1, <2>2, <2>3
<1>2. \A p \in Paths :
        D[p] = CASE Taken(p) -> IF disk[From(src, dst, p)] = Folder THEN Folder
                                                                   ELSE "unchecked"
                 [] p \in Parents[dst] -> Folder
                 [] Gone(p) -> Absent
                 [] OTHER -> disk[p]
  BY DEF Copy, From
<1>3. ASSUME NEW p \in Paths
      PROVE  /\ Taken(p) => D[p] = IF disk[From(src, dst, p)] = Folder THEN Folder
                                                                       ELSE "unchecked"
             /\ p \in Parents[dst] => D[p] = Folder
             /\ Gone(p) => D[p] = Absent
             /\ ~Taken(p) /\ p \notin Parents[dst] /\ ~Gone(p) => D[p] = disk[p]
  BY <1>1, <1>2
<1>. HIDE DEF Gone
<1>4. \A p \in Paths : D[p] \in Kinds
  <2>. SUFFICES ASSUME NEW p \in Paths PROVE D[p] \in Kinds
    OBVIOUS
  <2>. QED
    BY <1>3 DEF DiskTyped, Kinds, Files, Folder, Absent
<1>5. D \in [Paths -> Kinds]
  <2>1. D = [p \in Paths |-> D[p]]
    BY DEF Copy
  <2>. QED
    BY <1>4, <2>1
<1>6. \A p \in Parents[dst] : p \in Paths /\ disk[p] \notin Files
  BY ParentsInPaths DEF Blocked
<1>7. ASSUME NEW q \in Paths, D[q] # disk[q]
      PROVE  /\ D[q] \in {Absent, Folder, "unchecked"}
             /\ \/ q \in Subtree[dst]
                \/ moved /\ q \in Subtree[src]
                \/ q \in Parents[dst] /\ disk[q] = Absent /\ D[q] = Folder
  <2>1. CASE Taken(q)
    BY <1>3, <2>1
  <2>2. CASE Gone(q)
    BY <1>3, <2>2 DEF Gone
  <2>3. CASE q \in Parents[dst]
    BY <1>3, <1>6, <1>7, <2>3 DEF DiskTyped, Kinds
  <2>. QED
    BY <1>3, <1>7, <2>1, <2>2, <2>3
<1>. HIDE DEF D
<1>8. ASSUME NEW q \in Paths, D[q] # Absent, NEW p \in Parents[q]
      PROVE  D[p] = Folder
  <2>1. p \in Paths /\ IsPrefix(p, q) /\ p # q
    BY ParentsInPaths, ParentsAre
  <2>2. CASE Taken(q)
    <3>1. CASE p \in Subtree[dst]
      <4>1. From(src, dst, p) \in Paths
        BY <2>1, <2>2, <3>1, FromIs, PathsAre
      <4>2. From(src, dst, p) \in Parents[From(src, dst, q)]
        BY <2>1, <2>2, <3>1, <4>1, FromIs, ParentsAre
      <4>3. disk[From(src, dst, p)] = Folder
        BY <2>2, <4>2 DEF DiskTyped, InFolders
      <4>. QED
        BY <1>3, <2>1, <3>1, <4>1, <4>3 DEF Folder, Absent
    <3>2. CASE p \notin Subtree[dst]
      <4>1. p \in Parents[dst]
        BY <2>1, <2>2, <3>2, ParentsAre, PrefixesOfOne
      <4>. QED
        BY <1>3, <2>1, <4>1
    <3>. QED
      BY <3>1, <3>2
  <2>3. CASE q \in Parents[dst]
    <3>1. p \in Parents[dst]
      BY <2>1, <2>3, ParentsAre, PrefixesCompose
    <3>. QED
      BY <1>3, <2>1, <3>1
  <2>4. CASE ~Taken(q) /\ q \notin Parents[dst]
    <3>1. ~Gone(q) /\ D[q] = disk[q] /\ disk[p] = Folder
      BY <1>3, <1>8, <2>4 DEF DiskTyped, InFolders
    <3>2. ~Gone(p)
      BY <2>1, <3>1, ParentsAre, PrefixesCompose DEF Gone
    <3>3. CASE Taken(p)
      <4>1. disk[From(src, dst, p)] \notin Files
        BY <2>1, <3>1, <3>3 DEF Clash, From
      <4>2. disk[From(src, dst, p)] = Folder
        BY <3>3, <4>1 DEF DiskTyped, Kinds
      <4>. QED
        BY <1>3, <2>1, <3>3, <4>2
    <3>4. CASE ~Taken(p)
      BY <1>3, <2>1, <3>1, <3>2, <3>4
    <3>. QED
      BY <3>3, <3>4
  <2>. QED
    BY <2>2, <2>3, <2>4
<1>9. InFolders(D)
  BY <1>8 DEF InFolders
<1>. QED
  BY <1>5, <1>7, <1>9 DEF D

-----------------------------------------------------------------------------
(* Shares and cachelinks *)

LEMMA WebPathsAre ==
    ASSUME NEW path \in WebPaths
    PROVE  /\ path \in Paths /\ ShareOf[path] \in Shares /\ At[path] \in Paths
           /\ IsPrefix(ShareOf[path].base, At[path])
           /\ Longest(path, ShareOf[path])
           /\ At[path] = ShareOf[path].base \o Rest(path, ShareOf[path].front)
<1>1. PICK s \in Shares : Longest(path, s) /\ s.base \o Rest(path, s.front) \in Paths
  BY DEF WebPaths
<1>2. path \in Paths
  BY DEF WebPaths
<1>3. ShareOf[path] \in Shares /\ Longest(path, ShareOf[path])
  BY <1>1 DEF ShareOf
<1>. DEFINE t == ShareOf[path]
<1>4. /\ s.front \in Seq(Names) /\ t.front \in Seq(Names) /\ path \in Seq(Names)
      /\ s.base \in Seq(Names)
      /\ IsPrefix(s.front, path) /\ IsPrefix(t.front, path)
      /\ Len(t.front) <= Len(s.front) /\ Len(s.front) <= Len(t.front)
  BY <1>1, <1>2, <1>3 DEF Longest
<1>. HIDE DEF t
<1>5. s.front = t.front
  <2>1. Len(s.front) = Len(t.front)
    BY <1>4
  <2>2. \A i \in 1..Len(s.front) : s.front[i] = path[i]
    BY <1>4, PrefixIs
  <2>3. \A i \in 1..Len(t.front) : t.front[i] = path[i]
    BY <1>4, PrefixIs
  <2>4. \A i \in 1..Len(s.front) : s.front[i] = t.front[i]
    BY <2>1, <2>2, <2>3
  <2>. DEFINE f == s.front
              g == t.front
  <2>5. /\ f \in Seq(Names) /\ g \in Seq(Names) /\ Len(f) = Len(g)
        /\ \A i \in 1..Len(f) : f[i] = g[i]
    BY <1>4, <2>1, <2>4
  <2>. HIDE DEF f, g
  <2>6. f = g
    BY <2>5, SeqEqual
  <2>. QED
    BY <2>6 DEF f, g
<1>6. s = t
  BY <1>3, <1>5 DEF t
<1>7. IsPrefix(t.base, t.base \o Rest(path, t.front))
  BY <1>4, <1>6, RestIs, AfterPrefix
<1>. QED
  BY <1>1, <1>2, <1>3, <1>6, <1>7 DEF At, t

LEMMA MountsAre ==
    /\ \A m \in Mounts : m \in Paths /\ m \in Seq(Names) /\ m \in Rows
    /\ \A l, m \in Mounts : IsPrefix(l, m) => l = m
BY DEF Mounts, IsStrictPrefix

\* There is at most one cachelink that a path is in.
LEMMA OneMountAbove ==
    ASSUME NEW s \in Shares, NEW d \in Paths, NEW m \in MountsAbove[s][d]
    PROVE  /\ m \in Mounts /\ IsPrefix(m, d)
           /\ \A l \in Mounts : IsPrefix(l, d) => l = m
           /\ MountsAbove[s][d] = {m} /\ (CHOOSE l \in MountsAbove[s][d] : TRUE) = m
<1>1. MountsAbove[s][d] = {l \in MountsOf(s) : IsPrefix(l, d)}
  BY DEF MountsAbove
<1>2. m \in Mounts /\ IsPrefix(m, d)
  BY <1>1 DEF MountsOf
<1>3. \A l \in Mounts : IsPrefix(l, d) => l = m
  BY <1>2, MountsAre, PrefixesOfOne
<1>4. MountsAbove[s][d] = {m}
  BY <1>1, <1>3 DEF MountsOf
<1>. QED
  BY <1>2, <1>3, <1>4

\* What OverlayKind is, in and outside cachelinks.
LEMMA OverlayKindIs ==
    ASSUME NEW s \in Shares, NEW d \in Paths
    PROVE  /\ MountsAbove[s][d] = {} =>
                OverlayKind(s, d) = IF MountsBelow[s][d] # {} THEN "folder" ELSE "nothing"
           /\ \A m \in MountsAbove[s][d] :
                OverlayKind(s, d) =
                    IF Rest(d, m) = <<>> THEN "folder"
                    ELSE IF Entry(m, Rest(d, m)) # {}
                         THEN IF \E e \in Entry(m, Rest(d, m)) : e.dir THEN "folder" ELSE "file"
                         ELSE IF Children(m, Rest(d, m)) # {} THEN "folder" ELSE "nothing"
<1>1. ASSUME NEW m \in MountsAbove[s][d]
      PROVE  OverlayKind(s, d) =
                 IF Rest(d, m) = <<>> THEN "folder"
                 ELSE IF Entry(m, Rest(d, m)) # {}
                      THEN IF \E e \in Entry(m, Rest(d, m)) : e.dir THEN "folder" ELSE "file"
                      ELSE IF Children(m, Rest(d, m)) # {} THEN "folder" ELSE "nothing"
  <2>1. (CHOOSE l \in MountsAbove[s][d] : TRUE) = m /\ MountsAbove[s][d] # {}
    BY OneMountAbove
  <2>. DEFINE sub == Rest(d, m)
              kind == IF \E e \in Entry(m, sub) : e.dir THEN "folder" ELSE "file"
              other == IF Children(m, sub) # {} THEN "folder" ELSE "nothing"
  <2>2. OverlayKind(s, d) =
            CASE sub = <<>> -> "folder"
              [] sub # <<>> /\ Entry(m, sub) # {} -> kind
              [] OTHER -> other
    BY <2>1 DEF OverlayKind
  <2>. HIDE DEF kind, other, sub
  <2>3. OverlayKind(s, d) = IF sub = <<>> THEN "folder"
                            ELSE IF Entry(m, sub) # {} THEN kind ELSE other
    BY <2>2
  <2>. QED
    BY <2>3 DEF kind, other, sub
<1>2. MountsAbove[s][d] = {} =>
        OverlayKind(s, d) = IF MountsBelow[s][d] # {} THEN "folder" ELSE "nothing"
  BY DEF OverlayKind
<1>. QED
  BY <1>1, <1>2

\* What a lookup that finds something has found.
LEMMA ResourceIs ==
    ASSUME NEW u, NEW path, NEW method, Resource(u, path, method) # "none"
    PROVE  /\ path \in WebPaths
           /\ Resource(u, path, method) \in FolderKinds \cup FileKinds
           /\ "read" \in Policy[ShareOf[path]][u]
           /\ method \in Changing => MayWrite(ShareOf[path], u)
BY DEF Resource, FolderKinds, FileKinds

-----------------------------------------------------------------------------
(* The inductive invariant *)

Calls == [op : Changing \cup {"GET"}, at : Paths, to : Paths, checked : BOOLEAN,
          kind : FolderKinds \cup FileKinds]

Typed ==
    /\ DiskTyped
    /\ listing \in [Mounts -> SUBSET Entries]
    /\ \A m \in Mounts : listing[m] \in Listings[m]
    /\ relisted \subseteq Paths
    /\ req \in [Requests -> {Idle} \cup Calls]

\* Who changes something may write where it is, and where it goes to.
Granted ==
    \A r \in Requests :
        req[r].op \in Changing => ~WriteProtected(req[r].at) /\ ~WriteProtected(req[r].to)

\* Where a file is in no cachelink's way but for what was listed later on.
OutOfTheWay ==
    {d \in Paths : \A m \in Mounts :
        /\ ~IsPrefix(d, m)
        /\ IsPrefix(m, d) /\ Rest(d, m) \in FolderPaths(listing[m]) => d \in relisted}

FilesAreChecked ==
    \A d \in Paths : disk[d] \in {"fetched", "uploaded"} => d \in OutOfTheWay

CallsAreChecked ==
    \A r \in Requests :
        req[r].op = "GET" \/ (req[r].op = "PUT" /\ req[r].checked)
            => req[r].at \in OutOfTheWay

TreeInv == Typed /\ Granted /\ FilesAreChecked /\ CallsAreChecked

\* A step of ProtectedOnlyFills.
OnlyFills ==
    \A d \in Paths :
        WriteProtected(d) /\ disk'[d] # disk[d]
            => disk[d] = Absent /\ disk'[d] \in {"fetched", Folder}

LEMMA TreeInit == Init => TreeInv
<1>. SUFFICES ASSUME Init PROVE TreeInv
  OBVIOUS
<1>1. disk = [d \in Paths |-> IF d = <<>> THEN Folder ELSE Absent]
  BY DEF Init
<1>2. ASSUME NEW d \in Paths, disk[d] # Absent, NEW p \in Parents[d] PROVE disk[p] = Folder
  <2>1. d = <<>>
    BY <1>1, <1>2
  <2>2. p \in Paths /\ p \in Seq(Names) /\ IsPrefix(p, <<>>) /\ p # <<>>
    BY <2>1, ParentsInPaths, ParentsAre
  <2>3. <<>> \in Seq(Names) /\ Len(<<>>) = 0
    OBVIOUS
  <2>4. Len(p) <= 0
    BY <2>2, <2>3, PrefixIs
  <2>5. p = <<>>
    BY <2>2, <2>4
  <2>. QED
    BY <2>2, <2>5
<1>3. DiskTyped
  BY <1>1, <1>2 DEF DiskTyped, InFolders, Kinds
<1>4. listing \in [Mounts -> SUBSET Entries] /\ \A m \in Mounts : listing[m] \in Listings[m]
  <2>1. \A m \in Mounts : Listings[m] \subseteq SUBSET Entries
    BY MountsAre
  <2>2. listing \in [Mounts -> UNION {Listings[m] : m \in Mounts}]
        /\ \A m \in Mounts : listing[m] \in Listings[m]
    BY DEF Init
  <2>. QED
    BY <2>1, <2>2
<1>5. Typed
  BY <1>3, <1>4 DEF Init, Typed
<1>6. \A d \in Paths : disk[d] \notin {"fetched", "uploaded"}
  BY <1>1 DEF Folder, Absent
<1>7. \A r \in Requests : req[r].op = "none"
  BY DEF Init, Idle
<1>. QED
  BY <1>5, <1>6, <1>7
  DEF TreeInv, Granted, FilesAreChecked, CallsAreChecked, Changing, Creating

-----------------------------------------------------------------------------
(* Lookups *)

\* The names a cachelink's entries imply, and what has to be a folder for them.
LEMMA NeededFolders ==
    ASSUME Typed, NEW m \in Mounts, NEW sub, sub \in FolderPaths(listing[m])
    PROVE  Children(m, sub) # {} \/ \E e \in Entry(m, sub) : e.dir
<1>1. PICK e \in listing[m] : IsStrictPrefix(sub, e.path) \/ (e.dir /\ e.path = sub)
  BY DEF FolderPaths
<1>2. CASE IsStrictPrefix(sub, e.path)
  <2>1. e \in {f \in listing[m] : IsStrictPrefix(sub, f.path)}
    BY <1>2
  <2>2. e.path[Len(sub) + 1] \in Children(m, sub)
    BY <2>1 DEF Children
  <2>. QED
    BY <2>2
<1>3. CASE e.dir /\ e.path = sub
  BY <1>3 DEF Entry
<1>. QED
  BY <1>1, <1>2, <1>3

\* Where the overlay has a file nothing else has to be.
LEMMA ListedFileIsOutOfTheWay ==
    ASSUME Typed, NEW s \in Shares, NEW d \in Paths, OverlayKind(s, d) = "file"
    PROVE  d \in OutOfTheWay
<1>1. MountsAbove[s][d] # {}
  BY OverlayKindIs
<1>2. PICK m \in MountsAbove[s][d] : TRUE
  BY <1>1
<1>. DEFINE sub == Rest(d, m)
<1>3. /\ m \in Mounts /\ IsPrefix(m, d) /\ (\A l \in Mounts : IsPrefix(l, d) => l = m)
      /\ m \in Seq(Names) /\ d \in Seq(Names)
  BY OneMountAbove, MountsAre
<1>4. sub # <<>> /\ Entry(m, sub) # {} /\ \A e \in Entry(m, sub) : ~e.dir
  BY OverlayKindIs
<1>5. PICK f \in listing[m] : f.path = sub /\ ~f.dir
  BY <1>4 DEF Entry
<1>6. sub \notin FolderPaths(listing[m])
  <2>1. IsTree(listing[m])
    BY <1>3, MountsAre DEF Typed
  <2>2. \A e \in listing[m] : ~IsStrictPrefix(sub, e.path) /\ (e.path = sub => ~e.dir)
    BY <1>5, <2>1 DEF IsTree
  <2>. QED
    BY <2>2 DEF FolderPaths
<1>7. d # m
  BY <1>3, <1>4, RestOfSelf
<1>8. ASSUME NEW l \in Mounts, IsPrefix(d, l) PROVE FALSE
  <2>1. l \in Seq(Names)
    BY MountsAre
  <2>2. IsPrefix(m, l)
    BY <1>3, <1>8, <2>1, PrefixesCompose
  <2>3. l = m
    BY <1>3, <2>2, MountsAre
  <2>. QED
    BY <1>3, <1>7, <1>8, <2>3, PrefixesBothWays
<1>. QED
  BY <1>3, <1>6, <1>8 DEF OutOfTheWay

\* Where a share that has all the cachelinks there finds no folder neither.
LEMMA CheckedIsOutOfTheWay ==
    ASSUME Typed, NEW s \in Shares, NEW d \in Paths, OverlayKind(s, d) # "folder",
           \A m \in Mounts : IsPrefix(m, d) \/ IsPrefix(d, m) => m \in MountsOf(s)
    PROVE  d \in OutOfTheWay
<1>1. d \in Seq(Names)
  OBVIOUS
<1>2. /\ MountsAbove[s][d] = {m \in MountsOf(s) : IsPrefix(m, d)}
      /\ MountsBelow[s][d] = {m \in MountsOf(s) : IsStrictPrefix(d, m)}
  BY DEF MountsAbove, MountsBelow
<1>3. CASE MountsAbove[s][d] = {}
  <2>1. MountsBelow[s][d] = {}
    BY <1>3, OverlayKindIs
  <2>2. \A m \in Mounts : ~IsPrefix(m, d)
    BY <1>2, <1>3
  <2>3. ASSUME NEW m \in Mounts, IsPrefix(d, m) PROVE FALSE
    <3>1. m \in Seq(Names) /\ m \in MountsOf(s)
      BY <2>3, MountsAre
    <3>2. d = m \/ IsStrictPrefix(d, m)
      BY <1>1, <2>3, <3>1, StrictIsShorter
    <3>3. IsPrefix(m, m)
      BY <3>1, StrictIsShorter
    <3>. QED
      BY <1>2, <2>1, <2>2, <3>1, <3>2, <3>3
  <2>. QED
    BY <2>2, <2>3 DEF OutOfTheWay
<1>4. CASE MountsAbove[s][d] # {}
  <2>1. PICK m \in MountsAbove[s][d] : TRUE
    BY <1>4
  <2>. DEFINE sub == Rest(d, m)
  <2>2. /\ m \in Mounts /\ IsPrefix(m, d) /\ (\A l \in Mounts : IsPrefix(l, d) => l = m)
        /\ m \in Seq(Names)
    BY OneMountAbove, MountsAre
  <2>3. sub # <<>> /\ (Entry(m, sub) # {} => \A e \in Entry(m, sub) : ~e.dir)
        /\ (Entry(m, sub) = {} => Children(m, sub) = {})
    BY OverlayKindIs
  <2>4. CASE Entry(m, sub) # {}
    BY <2>3, <2>4, OverlayKindIs, ListedFileIsOutOfTheWay
  <2>5. CASE Entry(m, sub) = {}
    <3>1. sub \notin FolderPaths(listing[m])
      BY <2>2, <2>3, <2>5, NeededFolders
    <3>2. d # m
      BY <2>2, <2>3, RestOfSelf
    <3>3. ASSUME NEW l \in Mounts, IsPrefix(d, l) PROVE FALSE
      <4>1. l \in Seq(Names) /\ IsPrefix(m, l)
        BY <1>1, <2>2, <3>3, MountsAre, PrefixesCompose
      <4>2. l = m
        BY <2>2, <4>1, MountsAre
      <4>. QED
        BY <1>1, <2>2, <3>2, <3>3, <4>2, PrefixesBothWays
    <3>. QED
      BY <2>2, <3>1, <3>3 DEF OutOfTheWay
  <2>. QED
    BY <2>4, <2>5
<1>. QED
  BY <1>3, <1>4

\* A lookup that finds a file only the cachelink has.
LEMMA FoundInTheOverlay ==
    ASSUME NEW u, NEW path, NEW method, Resource(u, path, method) = "cachelink_file"
    PROVE  OverlayKind(ShareOf[path], At[path]) = "file"
BY DEF Resource

\* A lookup that asks all cachelinks there are finds no folder of theirs.
LEMMA CheckFindsNoFolder ==
    ASSUME NEW u, NEW path, NEW d, Checks(u, path, d),
           Resource(u, path, "PUT") \notin FolderKinds
    PROVE  OverlayKind(ShareOf[path], d) # "folder"
BY DEF Checks, Resource, FolderKinds, Changing, Creating

LEMMA CheckedUploadIsOutOfTheWay ==
    ASSUME Typed, NEW u, NEW path, NEW d, Checks(u, path, d),
           Resource(u, path, "PUT") \notin FolderKinds
    PROVE  d \in OutOfTheWay
<1>1. path \in WebPaths /\ At[path] = d
      /\ \A m \in Mounts : IsPrefix(m, d) \/ IsPrefix(d, m) => m \in MountsOf(ShareOf[path])
  BY DEF Checks
<1>. QED
  BY <1>1, CheckFindsNoFolder, CheckedIsOutOfTheWay, WebPathsAre

\* At and below what a user may write to nothing is protected.
LEMMA WritableIs ==
    ASSUME NEW u \in Users, NEW path \in WebPaths, MayWrite(ShareOf[path], u),
           NEW d \in Paths, IsPrefix(At[path], d)
    PROVE  ~WriteProtected(d)
<1>1. /\ ShareOf[path] \in Shares /\ IsPrefix(ShareOf[path].base, At[path])
      /\ ShareOf[path].base \in Seq(Names) /\ At[path] \in Seq(Names) /\ d \in Seq(Names)
  BY WebPathsAre
<1>2. IsPrefix(ShareOf[path].base, d)
  BY <1>1, PrefixesCompose
<1>. QED
  BY <1>1, <1>2 DEF WriteProtected

LEMMA WritableBelow ==
    ASSUME NEW p \in Paths, NEW q \in Paths, IsPrefix(p, q), ~WriteProtected(p)
    PROVE  ~WriteProtected(q)
<1>1. PICK s \in Shares, u \in Users : IsPrefix(s.base, p) /\ MayWrite(s, u)
  BY DEF WriteProtected
<1>2. IsPrefix(s.base, q)
  BY <1>1, PrefixesCompose
<1>. QED
  BY <1>1, <1>2 DEF WriteProtected

\* A request is received after a lookup.
LEMMA ReceiveKeeps ==
    ASSUME TreeInv, NEW r \in Requests, NEW op \in Changing \cup {"GET"},
           NEW d \in Paths, NEW to \in Paths, NEW kind \in FolderKinds \cup FileKinds,
           NEW checked \in BOOLEAN, Receive(r, op, d, to, kind, checked),
           op \in Changing => ~WriteProtected(d) /\ ~WriteProtected(to),
           op = "GET" \/ (op = "PUT" /\ checked) => d \in OutOfTheWay
    PROVE  TreeInv' /\ disk' = disk
<1>. DEFINE call == [op |-> op, at |-> d, to |-> to, kind |-> kind, checked |-> checked]
<1>1. /\ call \in Calls /\ call.op = op /\ call.at = d /\ call.to = to
      /\ call.checked = checked
  BY DEF Calls
<1>2. req' = [req EXCEPT ![r] = call]
      /\ disk' = disk /\ listing' = listing /\ relisted' = relisted
  BY DEF Receive
<1>. HIDE DEF call
<1>3. Typed'
  <2>1. req' \in [Requests -> {Idle} \cup Calls]
    BY <1>1, <1>2 DEF TreeInv, Typed
  <2>. QED
    BY <1>2, <2>1 DEF TreeInv, Typed, DiskTyped, InFolders
<1>4. \A t \in Requests : req'[t] = IF t = r THEN call ELSE req[t]
  BY <1>2 DEF TreeInv, Typed
<1>5. Granted'
  BY <1>1, <1>4 DEF TreeInv, Granted, WriteProtected
<1>6. OutOfTheWay \subseteq OutOfTheWay'
  BY <1>2 DEF OutOfTheWay
<1>7. FilesAreChecked'
  BY <1>2, <1>6 DEF TreeInv, FilesAreChecked
<1>8. \A t \in Requests : req[t].op \in {"GET", "PUT"} => req[t].at \in Paths
  BY DEF TreeInv, Typed, Calls, Idle
<1>9. CallsAreChecked'
  <2>. SUFFICES ASSUME NEW t \in Requests,
                       req'[t].op = "GET" \/ (req'[t].op = "PUT" /\ req'[t].checked)
                PROVE  req'[t].at \in OutOfTheWay'
    BY DEF CallsAreChecked
  <2>1. CASE t = r
    BY <1>1, <1>4, <1>6, <2>1
  <2>2. CASE t # r
    BY <1>4, <1>6, <1>8, <2>2 DEF TreeInv, CallsAreChecked
  <2>. QED
    BY <2>1, <2>2
<1>. QED
  BY <1>2, <1>3, <1>5, <1>7, <1>9 DEF TreeInv

LEMMA ResolveKeeps ==
    ASSUME TreeInv, NEW r \in Requests, Resolve(r)
    PROVE  TreeInv' /\ disk' = disk
<1>1. PICK u \in Users, path \in WebPaths, op \in {"GET", "PUT", "DELETE"} :
        /\ op = "GET" => Resource(u, path, op) = "cachelink_file"
        /\ op = "PUT" => Resource(u, path, op) \in FileKinds
        /\ Receive(r, op, At[path], At[path], Resource(u, path, op),
                   Checks(u, path, At[path]))
  BY DEF Resolve
<1>. DEFINE d == At[path]
            kind == Resource(u, path, op)
            checked == Checks(u, path, d)
<1>2. d \in Paths /\ IsPrefix(d, d)
  BY WebPathsAre, PathsAre
<1>3. kind # "none"
  BY <1>1 DEF Receive
<1>4. kind \in FolderKinds \cup FileKinds
      /\ (op \in Changing => MayWrite(ShareOf[path], u))
  BY <1>3, ResourceIs
<1>5. op \in Changing => ~WriteProtected(d)
  BY <1>2, <1>4, WritableIs
<1>6. checked \in BOOLEAN
  BY DEF Checks
<1>7. op = "GET" => d \in OutOfTheWay
  BY <1>1, FoundInTheOverlay, ListedFileIsOutOfTheWay, WebPathsAre DEF TreeInv
<1>8. op = "PUT" /\ checked => d \in OutOfTheWay
  <2>. SUFFICES ASSUME op = "PUT", checked PROVE d \in OutOfTheWay
    OBVIOUS
  <2>1. Resource(u, path, "PUT") \notin FolderKinds
    BY <1>1 DEF FileKinds, FolderKinds
  <2>. QED
    BY <2>1, CheckedUploadIsOutOfTheWay DEF TreeInv
<1>9. op \in Changing \cup {"GET"}
  BY DEF Changing, Creating
<1>. HIDE DEF d, kind, checked
<1>10. Receive(r, op, d, d, kind, checked)
  BY <1>1 DEF d, kind, checked
<1>. QED
  BY <1>2, <1>4, <1>5, <1>6, <1>7, <1>8, <1>9, <1>10, ReceiveKeeps

LEMMA ResolveParentKeeps ==
    ASSUME TreeInv, NEW r \in Requests, ResolveParent(r)
    PROVE  TreeInv' /\ disk' = disk
<1>1. PICK u \in Users, path \in WebPaths, n \in Names, op \in Creating :
        /\ op = "PUT" => Resource(u, Append(path, n), op) = "none"
        /\ Append(At[path], n) \in Paths
        /\ Resource(u, path, op) \in FolderKinds
        /\ Receive(r, op, Append(At[path], n), At[path], Resource(u, path, op),
                   Checks(u, Append(path, n), Append(At[path], n)))
  BY DEF ResolveParent
<1>. DEFINE d == At[path]
            c == Append(d, n)
            kind == Resource(u, path, op)
            checked == Checks(u, Append(path, n), c)
<1>2. d \in Paths /\ d \in Seq(Names) /\ IsPrefix(d, d) /\ c \in Paths /\ IsPrefix(d, c)
  <2>1. d \in Paths /\ d \in Seq(Names) /\ IsPrefix(d, d)
    BY WebPathsAre, PathsAre
  <2>2. IsStrictPrefix(d, c)
    BY <2>1, AppendIs
  <2>. QED
    BY <1>1, <2>1, <2>2 DEF IsStrictPrefix
<1>3. kind \in FolderKinds \cup FileKinds /\ kind # "none"
  BY <1>1 DEF FolderKinds
<1>4. op \in Changing /\ op \in Changing \cup {"GET"} /\ op # "GET"
  BY DEF Changing, Creating
<1>5. MayWrite(ShareOf[path], u)
  BY <1>3, <1>4, ResourceIs
<1>6. ~WriteProtected(d) /\ ~WriteProtected(c)
  BY <1>2, <1>5, WritableIs
<1>7. checked \in BOOLEAN
  BY DEF Checks
<1>8. op = "PUT" /\ checked => c \in OutOfTheWay
  <2>. SUFFICES ASSUME op = "PUT", checked PROVE c \in OutOfTheWay
    OBVIOUS
  <2>1. Resource(u, Append(path, n), "PUT") \notin FolderKinds
    BY <1>1 DEF FolderKinds
  <2>. QED
    BY <2>1, CheckedUploadIsOutOfTheWay DEF TreeInv
<1>. HIDE DEF d, c, kind, checked
<1>9. Receive(r, op, c, d, kind, checked)
  BY <1>1 DEF d, c, kind, checked
<1>. QED
  BY <1>2, <1>3, <1>4, <1>6, <1>7, <1>8, <1>9, ReceiveKeeps

LEMMA ResolveBothKeeps ==
    ASSUME TreeInv, NEW r \in Requests, ResolveBoth(r)
    PROVE  TreeInv' /\ disk' = disk
<1>1. PICK u \in Users, path \in WebPaths, dest \in Targets \cap WebPaths,
           op \in {"COPY", "MOVE"} :
        /\ MayWrite(ShareOf[dest], u)
        /\ Receive(r, op, At[path], At[dest], Resource(u, path, op), FALSE)
  BY DEF ResolveBoth
<1>. DEFINE kind == Resource(u, path, op)
<1>2. At[path] \in Paths /\ At[dest] \in Paths
      /\ IsPrefix(At[path], At[path]) /\ IsPrefix(At[dest], At[dest])
  BY WebPathsAre, PathsAre
<1>3. op \in Changing /\ op \in Changing \cup {"GET"} /\ op # "GET"
  BY DEF Changing
<1>4. kind # "none"
  BY <1>1 DEF Receive
<1>5. kind \in FolderKinds \cup FileKinds /\ MayWrite(ShareOf[path], u)
  BY <1>3, <1>4, ResourceIs
<1>6. ~WriteProtected(At[path]) /\ ~WriteProtected(At[dest])
  BY <1>1, <1>2, <1>5, WritableIs
<1>. HIDE DEF kind
<1>7. Receive(r, op, At[path], At[dest], kind, FALSE)
  BY <1>1 DEF kind
<1>. QED
  BY <1>2, <1>3, <1>5, <1>6, <1>7, ReceiveKeeps

-----------------------------------------------------------------------------
(* Calls *)

\* A call ends that keeps the tree and stores no file in a cachelink's way.
LEMMA DiskStep ==
    ASSUME TreeInv, NEW r \in Requests, NEW op, NEW kinds, Step(r, op, kinds),
           disk' \in [Paths -> Kinds], InFolders(disk'),
           \A q \in Paths : disk'[q] # disk[q] /\ disk'[q] \in {"fetched", "uploaded"}
                => q \in OutOfTheWay
    PROVE  TreeInv'
<1>1. req' = [req EXCEPT ![r] = Idle] /\ listing' = listing /\ relisted' = relisted
  BY DEF Step
<1>2. Typed'
  BY <1>1 DEF TreeInv, Typed, DiskTyped, InFolders
<1>3. \A t \in Requests : req'[t] = IF t = r THEN Idle ELSE req[t]
  BY <1>1 DEF TreeInv, Typed
<1>4. Granted'
  BY <1>3 DEF TreeInv, Granted, WriteProtected, Idle, Changing, Creating
<1>5. OutOfTheWay \subseteq OutOfTheWay'
  BY <1>1 DEF OutOfTheWay
<1>6. FilesAreChecked'
  BY <1>5 DEF TreeInv, FilesAreChecked
<1>7. \A t \in Requests : req[t].op \in {"GET", "PUT"} => req[t].at \in Paths
  BY DEF TreeInv, Typed, Calls, Idle
<1>8. CallsAreChecked'
  <2>. SUFFICES ASSUME NEW t \in Requests,
                       req'[t].op = "GET" \/ (req'[t].op = "PUT" /\ req'[t].checked)
                PROVE  req'[t].at \in OutOfTheWay'
    BY DEF CallsAreChecked
  <2>1. t # r
    BY <1>3 DEF Idle
  <2>. QED
    BY <1>3, <1>5, <1>7, <2>1 DEF TreeInv, CallsAreChecked
<1>. QED
  BY <1>2, <1>4, <1>6, <1>8 DEF TreeInv

\* What is under way when a call is made.
LEMMA CallIs ==
    ASSUME TreeInv, NEW r \in Requests, NEW op \in Changing \cup {"GET"}, NEW kinds,
           Step(r, op, kinds)
    PROVE  /\ req[r] \in Calls /\ req[r].op = op
           /\ req[r].at \in Paths /\ req[r].to \in Paths
           /\ op \in Changing => ~WriteProtected(req[r].at) /\ ~WriteProtected(req[r].to)
           /\ op = "GET" \/ (op = "PUT" /\ req[r].checked) => req[r].at \in OutOfTheWay
<1>1. req[r].op = op
  BY DEF Step
<1>2. req[r] \in {Idle} \cup Calls
  BY DEF TreeInv, Typed
<1>3. req[r] # Idle
  BY <1>1 DEF Idle, Changing, Creating
<1>. QED
  BY <1>1, <1>2, <1>3 DEF Calls, TreeInv, Granted, CallsAreChecked

LEMMA GetContentKeeps ==
    ASSUME TreeInv, NEW r \in Requests, GetContent(r)
    PROVE  TreeInv' /\ OnlyFills
<1>. DEFINE d == req[r].at
<1>1. Step(r, "GET", {"cachelink_file"})
      /\ disk' = IF disk[d] = Absent /\ ~Blocked(d) THEN With(d, "fetched") ELSE disk
  BY DEF GetContent
<1>2. d \in Paths /\ d \in OutOfTheWay
  BY <1>1, CallIs
<1>3. DiskTyped
  BY DEF TreeInv, Typed
<1>. HIDE DEF d
<1>4. /\ disk' \in [Paths -> Kinds] /\ InFolders(disk')
      /\ \A q \in Paths : disk'[q] # disk[q] =>
            \/ q = d /\ disk[q] = Absent /\ disk'[q] = "fetched"
            \/ disk[q] = Absent /\ disk'[q] = Folder
  <2>1. CASE disk[d] = Absent /\ ~Blocked(d)
    <3>1. "fetched" \in Kinds
      BY DEF Kinds, Files
    <3>2. With(d, "fetched")[d] = "fetched"
      BY <1>2 DEF With
    <3>. QED
      BY <1>1, <1>2, <1>3, <2>1, <3>1, <3>2, WithKeepsTree
  <2>2. CASE ~(disk[d] = Absent /\ ~Blocked(d))
    BY <1>1, <1>3, <2>2 DEF DiskTyped
  <2>. QED
    BY <2>1, <2>2
<1>5. TreeInv'
  BY <1>1, <1>2, <1>4, DiskStep DEF Folder
<1>. QED
  BY <1>4, <1>5 DEF OnlyFills

LEMMA WriteKeeps ==
    ASSUME TreeInv, NEW r \in Requests, Write(r)
    PROVE  TreeInv' /\ OnlyFills
<1>. DEFINE d == req[r].at
            x == IF req[r].checked THEN "uploaded" ELSE "unchecked"
<1>1. Step(r, "PUT", FileKinds \cup FolderKinds)
      /\ disk' = CASE disk[d] = Absent /\ ~Blocked(d) -> With(d, x)
                   [] disk[d] # Absent \/ Blocked(d) -> disk
  BY DEF Write
<1>2. d \in Paths /\ ~WriteProtected(d) /\ (req[r].checked => d \in OutOfTheWay)
  BY <1>1, CallIs DEF Changing, Creating
<1>3. DiskTyped
  BY DEF TreeInv, Typed
<1>4. x \in Kinds /\ (x = "uploaded" => d \in OutOfTheWay)
  BY <1>2 DEF Kinds, Files
<1>. HIDE DEF d, x
<1>5. /\ disk' \in [Paths -> Kinds] /\ InFolders(disk')
      /\ \A q \in Paths : disk'[q] # disk[q] =>
            q = d \/ (disk[q] = Absent /\ disk'[q] = Folder)
  <2>1. CASE disk[d] = Absent /\ ~Blocked(d)
    BY <1>1, <1>2, <1>3, <1>4, <2>1, WithKeepsTree
  <2>2. CASE ~(disk[d] = Absent /\ ~Blocked(d))
    BY <1>1, <1>3, <2>2 DEF DiskTyped
  <2>. QED
    BY <2>1, <2>2
<1>6. disk'[d] \in {"fetched", "uploaded"} /\ disk'[d] # disk[d] => d \in OutOfTheWay
  <2>1. CASE disk[d] = Absent /\ ~Blocked(d)
    <3>1. disk'[d] = x
      BY <1>1, <1>2, <2>1 DEF With
    <3>. QED
      BY <1>4, <3>1 DEF x
  <2>2. CASE ~(disk[d] = Absent /\ ~Blocked(d))
    BY <1>1, <2>2
  <2>. QED
    BY <2>1, <2>2
<1>7. TreeInv'
  BY <1>1, <1>5, <1>6, DiskStep DEF Folder
<1>. QED
  BY <1>2, <1>5, <1>7 DEF OnlyFills

LEMMA CreateCollectionKeeps ==
    ASSUME TreeInv, NEW r \in Requests, CreateCollection(r)
    PROVE  TreeInv' /\ OnlyFills
<1>. DEFINE d == req[r].at
<1>1. Step(r, "MKCOL", FolderKinds)
      /\ disk' = IF disk[d] # Absent \/ Blocked(d) THEN disk ELSE With(d, Folder)
  BY DEF CreateCollection
<1>2. d \in Paths /\ ~WriteProtected(d)
  BY <1>1, CallIs DEF Changing, Creating
<1>3. DiskTyped /\ Folder \in Kinds
  BY DEF TreeInv, Typed, Kinds
<1>. HIDE DEF d
<1>4. /\ disk' \in [Paths -> Kinds] /\ InFolders(disk')
      /\ \A q \in Paths : disk'[q] # disk[q] =>
            disk'[q] = Folder /\ (q = d \/ disk[q] = Absent)
  <2>1. CASE disk[d] = Absent /\ ~Blocked(d)
    <3>1. With(d, Folder)[d] = Folder
      BY <1>2 DEF With
    <3>. QED
      BY <1>1, <1>2, <1>3, <2>1, <3>1, WithKeepsTree
  <2>2. CASE ~(disk[d] = Absent /\ ~Blocked(d))
    BY <1>1, <1>3, <2>2 DEF DiskTyped
  <2>. QED
    BY <2>1, <2>2
<1>5. TreeInv'
  BY <1>1, <1>4, DiskStep DEF Folder
<1>. QED
  BY <1>2, <1>4, <1>5 DEF OnlyFills

LEMMA DeleteKeeps ==
    ASSUME TreeInv, NEW r \in Requests, DeleteFile(r) \/ DeleteFolder(r)
    PROVE  TreeInv' /\ OnlyFills
<1>. DEFINE d == req[r].at
<1>1. PICK kinds : Step(r, "DELETE", kinds)
  BY DEF DeleteFile, DeleteFolder
<1>2. d \in Paths /\ ~WriteProtected(d)
  BY <1>1, CallIs DEF Changing, Creating
<1>3. DiskTyped
  BY DEF TreeInv, Typed
<1>4. \/ disk' = disk
      \/ disk' = With(d, Absent) /\ (disk[d] \in Files \/ (disk[d] = Folder /\ OnDisk(d) = {}))
  <2>1. CASE DeleteFile(r)
    <3>1. disk' = IF disk[d] \in Files THEN With(d, Absent) ELSE disk
      BY <2>1 DEF DeleteFile
    <3>. HIDE DEF d
    <3>. QED
      BY <3>1
  <2>2. CASE DeleteFolder(r)
    <3>1. disk' = IF disk[d] = Folder /\ OnDisk(d) = {} /\ d # <<>>
                  THEN With(d, Absent) ELSE disk
      BY <2>2 DEF DeleteFolder
    <3>. HIDE DEF d
    <3>. QED
      BY <3>1
  <2>. QED
    BY <2>1, <2>2
<1>. HIDE DEF d
<1>5. /\ disk' \in [Paths -> Kinds] /\ InFolders(disk')
      /\ \A q \in Paths : disk'[q] # disk[q] => q = d /\ disk'[q] = Absent
  <2>1. CASE disk' = disk
    BY <1>3, <2>1 DEF DiskTyped
  <2>2. CASE /\ disk' = With(d, Absent)
             /\ disk[d] \in Files \/ (disk[d] = Folder /\ OnDisk(d) = {})
    <3>1. \A q \in Paths : d \in Parents[q] => disk[q] = Absent
      <4>1. CASE disk[d] \in Files
        BY <1>3, <4>1 DEF DiskTyped, InFolders, Files, Folder
      <4>2. CASE OnDisk(d) = {}
        BY <1>2, <1>3, <4>2, EmptyFolder
      <4>. QED
        BY <2>2, <4>1, <4>2
    <3>2. disk[d] # Absent
      BY <2>2 DEF Files, Folder, Absent
    <3>3. With(d, Absent)[d] = Absent
      BY <1>2 DEF With
    <3>. QED
      BY <1>2, <1>3, <2>2, <3>1, <3>2, <3>3, WithoutKeepsTree
  <2>. QED
    BY <1>4, <2>1, <2>2
<1>6. TreeInv'
  BY <1>1, <1>5, DiskStep DEF Absent
<1>. QED
  BY <1>2, <1>5, <1>6 DEF OnlyFills

\* Where shutil puts what is sent to a path is at that path or in it.
LEMMA LandingIs ==
    ASSUME NEW d \in Paths, NEW n, Landing(d, n) \in Paths
    PROVE  /\ IsPrefix(d, Landing(d, n))
           /\ Landing(d, n) = d => disk[d] # Folder
<1>1. CASE disk[d] # Folder
  BY <1>1, PathsAre DEF Landing
<1>2. CASE disk[d] = Folder
  <2>1. d \in Seq(Names \cup {n})
    OBVIOUS
  <2>. DEFINE q == Append(d, n)
  <2>2. Len(q) = Len(d) + 1 /\ \A i \in 1..Len(d) : q[i] = d[i]
    BY <2>1, AppendProperties
  <2>3. q = Landing(d, n) /\ q \in Seq(Names) /\ d \in Seq(Names)
    BY <1>2 DEF Landing
  <2>. HIDE DEF q
  <2>4. Len(d) \in Nat /\ Len(d) <= Len(q) /\ Len(q) # Len(d)
    BY <2>2, <2>3
  <2>5. IsPrefix(d, q)
    BY <2>2, <2>3, <2>4, PrefixIs
  <2>. QED
    BY <2>3, <2>4, <2>5
<1>. QED
  BY <1>1, <1>2

\* A copy or a move that goes through ends as the copied tree and its source say.
LEMMA CopyStep ==
    ASSUME TreeInv, NEW r \in Requests, NEW op, NEW kinds, Step(r, op, kinds),
           NEW src \in Paths, NEW dst \in Paths, NEW moved \in BOOLEAN,
           ~WriteProtected(src), ~WriteProtected(dst),
           ~Blocked(dst), ~Clash(src, dst),
           moved => ~IsPrefix(src, dst) /\ ~IsPrefix(dst, src),
           disk' = Copy(src, dst, moved)
    PROVE  TreeInv' /\ OnlyFills
<1>1. DiskTyped
  BY DEF TreeInv, Typed
<1>2. /\ disk' \in [Paths -> Kinds] /\ InFolders(disk')
      /\ \A q \in Paths : disk'[q] # disk[q] =>
            /\ disk'[q] \in {Absent, Folder, "unchecked"}
            /\ \/ q \in Subtree[dst]
               \/ moved /\ q \in Subtree[src]
               \/ q \in Parents[dst] /\ disk[q] = Absent /\ disk'[q] = Folder
  BY <1>1, CopyKeepsTree
<1>3. TreeInv'
  BY <1>2, DiskStep DEF Absent, Folder
<1>4. \A q \in Paths : q \in Subtree[dst] \/ q \in Subtree[src] => ~WriteProtected(q)
  BY ParentsAre, WritableBelow
<1>. QED
  BY <1>2, <1>3, <1>4 DEF OnlyFills

LEMMA SameDiskStep ==
    ASSUME TreeInv, NEW r \in Requests, NEW op, NEW kinds, Step(r, op, kinds), disk' = disk
    PROVE  TreeInv' /\ OnlyFills
<1>1. disk' \in [Paths -> Kinds] /\ InFolders(disk')
  BY DEF TreeInv, Typed, DiskTyped
<1>. QED
  BY <1>1, DiskStep DEF OnlyFills

LEMMA CopyRecursiveKeeps ==
    ASSUME TreeInv, NEW r \in Requests, CopyRecursive(r)
    PROVE  TreeInv' /\ OnlyFills
<1>. DEFINE src == req[r].at
            to == req[r].to
            dst == IF req[r].kind \in FileKinds THEN Landing(to, Last(src)) ELSE to
<1>1. /\ Step(r, "COPY", FileKinds \cup FolderKinds)
      /\ dst \in Paths
      /\ disk' = disk \/ (~Blocked(dst) /\ ~Clash(src, dst) /\ disk' = Copy(src, dst, FALSE))
  BY DEF CopyRecursive
<1>2. src \in Paths /\ to \in Paths /\ ~WriteProtected(src) /\ ~WriteProtected(to)
  BY <1>1, CallIs DEF Changing
<1>. HIDE DEF src, to
<1>3. IsPrefix(to, dst)
  BY <1>1, <1>2, LandingIs, PathsAre
<1>4. ~WriteProtected(dst)
  BY <1>1, <1>2, <1>3, WritableBelow
<1>. HIDE DEF dst
<1>. QED
  BY <1>1, <1>2, <1>4, CopyStep, SameDiskStep

LEMMA MoveRecursiveKeeps ==
    ASSUME TreeInv, NEW r \in Requests, MoveRecursive(r)
    PROVE  TreeInv' /\ OnlyFills
<1>. DEFINE src == req[r].at
            to == req[r].to
            dst == Landing(to, Last(src))
<1>1. /\ Step(r, "MOVE", FileKinds \cup FolderKinds)
      /\ dst \in Paths
      /\ \/ disk' = disk
         \/ /\ disk[src] # Absent
            /\ disk[dst] # Absent => dst = to /\ disk[src] # Folder
            /\ ~Blocked(dst) /\ ~IsPrefix(src, dst)
            /\ disk' = Copy(src, dst, TRUE)
  BY DEF MoveRecursive
<1>2. src \in Paths /\ to \in Paths /\ ~WriteProtected(src) /\ ~WriteProtected(to)
  BY <1>1, CallIs DEF Changing
<1>3. IsPrefix(to, dst) /\ (dst = to => disk[to] # Folder)
  BY <1>1, <1>2, LandingIs
<1>. HIDE DEF src, to, dst
<1>4. ~WriteProtected(dst)
  BY <1>1, <1>2, <1>3, WritableBelow
<1>5. CASE disk' = disk
  BY <1>1, <1>5, SameDiskStep
<1>6. CASE /\ disk[src] # Absent
           /\ disk[dst] # Absent => dst = to /\ disk[src] # Folder
           /\ ~Blocked(dst) /\ ~IsPrefix(src, dst)
           /\ disk' = Copy(src, dst, TRUE)
  <2>1. disk[dst] # Folder
    BY <1>3, <1>6 DEF Absent, Folder
  <2>2. DiskTyped
    BY DEF TreeInv, Typed
  <2>3. \A q \in Paths : dst \in Parents[q] => disk[q] = Absent
    BY <2>1, <2>2 DEF DiskTyped, InFolders
  <2>4. ~IsPrefix(dst, src)
    BY <1>1, <1>2, <1>6, <2>3, ParentsAre
  <2>5. ~Clash(src, dst)
    <3>. SUFFICES ASSUME NEW p \in Subtree[dst], From(src, dst, p) \in Paths,
                         \/ disk[From(src, dst, p)] = Folder /\ disk[p] \in Files
                         \/ disk[From(src, dst, p)] \in Files /\ disk[p] = Folder
                  PROVE  FALSE
      BY DEF Clash, From
    <3>1. p \in Paths /\ disk[p] # Absent /\ (p = dst \/ dst \in Parents[p])
      BY <1>1, ParentsAre DEF Subtree, Files, Folder, Absent
    <3>2. p = dst
      BY <2>3, <3>1
    <3>3. From(src, dst, dst) = src
      <4>1. dst \in Seq(Names) /\ src \in Seq(Names) /\ <<>> \in Seq(Names)
        BY <1>1, <1>2
      <4>2. dst \o <<>> = dst /\ src \o <<>> = src
        BY <4>1, ConcatEmptySeq
      <4>3. Rest(dst, dst) = <<>>
        BY <4>1, RestOfSelf
      <4>. QED
        BY <4>2, <4>3 DEF From
    <3>. QED
      BY <1>6, <2>1, <3>1, <3>2, <3>3
  <2>. QED
    BY <1>1, <1>2, <1>4, <1>6, <2>4, <2>5, CopyStep
<1>. QED
  BY <1>1, <1>5, <1>6

\* What a new listing makes a folder of is remembered.
LEMMA ReindexKeeps ==
    ASSUME TreeInv, NEW m \in Mounts, Reindex(m)
    PROVE  TreeInv' /\ disk' = disk
<1>. DEFINE New(l) == {d \in Paths : \E sub \in FolderPaths(l) \ FolderPaths(listing[m]) :
                                        d = m \o sub}
<1>1. PICK l \in Listings[m] :
        /\ listing' = [listing EXCEPT ![m] = l] /\ relisted' = relisted \cup New(l)
        /\ disk' = disk /\ req' = req
  BY DEF Reindex
<1>2. l \in SUBSET Entries
  BY MountsAre
<1>3. Typed'
  BY <1>1, <1>2 DEF TreeInv, Typed, DiskTyped, InFolders
<1>4. ASSUME NEW d \in OutOfTheWay PROVE d \in OutOfTheWay'
  <2>1. d \in Paths
    BY DEF OutOfTheWay
  <2>2. ASSUME NEW k \in Mounts, IsPrefix(k, d), Rest(d, k) \in FolderPaths(listing'[k])
        PROVE  d \in relisted'
    <3>1. Rest(d, k) \in FolderPaths(listing[k]) => d \in relisted'
      BY <1>1, <2>2 DEF OutOfTheWay
    <3>2. CASE k # m
      <4>1. listing'[k] = listing[k]
        BY <1>1, <3>2 DEF TreeInv, Typed
      <4>. QED
        BY <2>2, <3>1, <4>1
    <3>3. CASE k = m
      <4>1. listing'[m] = l
        BY <1>1 DEF TreeInv, Typed
      <4>2. d = m \o Rest(d, m)
        BY <2>1, <2>2, <3>3, RestIs, MountsAre
      <4>3. Rest(d, m) \notin FolderPaths(listing[m]) => d \in New(l)
        BY <2>1, <2>2, <3>3, <4>1, <4>2
      <4>. QED
        BY <1>1, <3>1, <3>3, <4>3
    <3>. QED
      BY <3>2, <3>3
  <2>. QED
    BY <2>1, <2>2 DEF OutOfTheWay
<1>5. Granted' /\ FilesAreChecked' /\ CallsAreChecked'
  BY <1>1, <1>4
  DEF TreeInv, Granted, WriteProtected, FilesAreChecked, CallsAreChecked
<1>. QED
  BY <1>1, <1>3, <1>5 DEF TreeInv

LEMMA TreeStep ==
    ASSUME TreeInv, [Next]_vars
    PROVE  TreeInv' /\ OnlyFills
<1>1. CASE UNCHANGED vars
  BY <1>1 DEF vars, TreeInv, Typed, DiskTyped, InFolders, Granted, WriteProtected,
              FilesAreChecked, CallsAreChecked, OutOfTheWay, OnlyFills
<1>2. ASSUME NEW r \in Requests, Resolve(r) \/ ResolveParent(r) \/ ResolveBoth(r)
      PROVE  TreeInv' /\ OnlyFills
  BY <1>2, ResolveKeeps, ResolveParentKeeps, ResolveBothKeeps DEF OnlyFills
<1>3. ASSUME NEW r \in Requests, GetContent(r) \/ Write(r) \/ CreateCollection(r)
      PROVE  TreeInv' /\ OnlyFills
  BY <1>3, GetContentKeeps, WriteKeeps, CreateCollectionKeeps
<1>4. ASSUME NEW r \in Requests, \/ DeleteFile(r) \/ DeleteFolder(r)
                                 \/ CopyRecursive(r) \/ MoveRecursive(r)
      PROVE  TreeInv' /\ OnlyFills
  BY <1>4, DeleteKeeps, CopyRecursiveKeeps, MoveRecursiveKeeps
<1>5. ASSUME NEW m \in Mounts, Reindex(m) PROVE TreeInv' /\ OnlyFills
  BY <1>5, ReindexKeeps DEF OnlyFills
<1>. QED
  BY <1>1, <1>2, <1>3, <1>4, <1>5 DEF Next

LEMMA TreeInvariant == Spec => []TreeInv
BY TreeInit, TreeStep, PTL DEF Spec

-----------------------------------------------------------------------------
(* Theorems *)

\* TypeOK: above everything in the datadir are folders, whatever calls end
\* between the lookup and the end of others.
THEOREM TreeTypeCorrect == Spec => []TypeOK
<1>1. TreeInv => TypeOK
  BY DEF TreeInv, Typed, DiskTyped, InFolders, Kinds, TypeOK, Calls
<1>. QED
  BY <1>1, TreeInvariant, PTL

\* ProtectedOnlyFills: where no share lets anybody write, the calls (GetContent
\* to MoveRecursive) add folders and cached files and change nothing.
THEOREM ProtectedFoldersOnlyFill == Spec => ProtectedOnlyFills
<1>1. TreeInv /\ [Next]_vars => [OnlyFills]_vars
  BY TreeStep
<1>. QED
  BY <1>1, TreeInvariant, PTL DEF Spec, ProtectedOnlyFills, OnlyFills

-----------------------------------------------------------------------------
(* What is listed and what is in the way *)

LEMMA NoFileInTheWay == TreeInv => BlockedOnlyByConflict
<1>. SUFFICES ASSUME TreeInv, NEW u \in Users, NEW path \in WebPaths,
                     Resource(u, path, "GET") = "cachelink_file",
                     NEW p \in Parents[At[path]], disk[p] \in Files, disk[p] # "unchecked"
              PROVE  p \in relisted
  BY DEF BlockedOnlyByConflict
<1>. DEFINE s == ShareOf[path]
            d == At[path]
<1>1. s \in Shares /\ d \in Paths /\ OverlayKind(s, d) = "file"
  BY WebPathsAre, FoundInTheOverlay
<1>2. /\ p \in Paths /\ p \in Seq(Names) /\ d \in Seq(Names)
      /\ IsPrefix(p, d) /\ p # d /\ p \in OutOfTheWay
  BY <1>1, ParentsInPaths, ParentsAre DEF TreeInv, FilesAreChecked, Files
<1>. HIDE DEF s, d
<1>3. PICK m \in MountsAbove[s][d] : TRUE
  <2>1. MountsAbove[s][d] # {}
    BY <1>1, OverlayKindIs
  <2>. QED
    BY <2>1
<1>4. /\ m \in Mounts /\ m \in Seq(Names) /\ IsPrefix(m, d)
      /\ Entry(m, Rest(d, m)) # {}
  <2>1. m \in Mounts /\ IsPrefix(m, d)
    BY <1>1, <1>3, OneMountAbove
  <2>2. Entry(m, Rest(d, m)) # {}
    BY <1>1, <1>3, OverlayKindIs
  <2>. QED
    BY <2>1, <2>2, MountsAre
<1>5. PICK e \in listing[m] : e.path = Rest(d, m)
  BY <1>4 DEF Entry
<1>6. e.path \in Paths
  BY <1>4 DEF TreeInv, Typed, Entries
<1>7. IsPrefix(m, p) /\ (Rest(p, m) \in FolderPaths(listing[m]) => p \in relisted)
  BY <1>2, <1>4, PrefixesOfOne DEF OutOfTheWay
<1>8. IsPrefix(Rest(p, m), e.path)
  BY <1>2, <1>4, <1>5, <1>7, PrefixOfRest
<1>9. Rest(p, m) \in Paths /\ Rest(p, m) # e.path
  <2>1. Rest(p, m) \in Seq(Names) /\ m \o Rest(p, m) = p /\ m \o Rest(d, m) = d
    BY <1>2, <1>4, <1>7, RestIs
  <2>. QED
    BY <1>2, <1>5, <1>6, <1>8, <2>1, PathsAre
<1>10. Rest(p, m) \in FolderPaths(listing[m])
  BY <1>5, <1>8, <1>9 DEF FolderPaths, IsStrictPrefix
<1>. QED
  BY <1>7, <1>10

\* The place of what is in a folder of a share.
LEMMA ChildIsAt ==
    ASSUME NEW path \in WebPaths, NEW n \in Names, Append(path, n) \in WebPaths,
           ShareOf[Append(path, n)] = ShareOf[path]
    PROVE  At[Append(path, n)] = Append(At[path], n)
<1>. DEFINE f == ShareOf[path].front
            b == ShareOf[path].base
            r == Rest(path, f)
            c == Append(path, n)
<1>1. /\ f \in Seq(Names) /\ b \in Seq(Names) /\ path \in Seq(Names)
      /\ IsPrefix(f, path)
      /\ At[path] = b \o r /\ At[c] = b \o Rest(c, f)
  BY WebPathsAre DEF Longest
<1>2. c \in Seq(Names) /\ IsPrefix(path, c)
  BY <1>1, AppendIs DEF IsStrictPrefix
<1>3. IsPrefix(f, c)
  BY <1>1, <1>2, PrefixesCompose
<1>. HIDE DEF f, b
<1>4. r \in Seq(Names) /\ f \o r = path
  BY <1>1, RestIs
<1>. HIDE DEF r
<1>5. Rest(c, f) = Append(r, n) /\ b \o Append(r, n) = Append(b \o r, n)
  BY <1>1, <1>4, AppendAfter
<1>. QED
  BY <1>1, <1>5 DEF c

\* Within a cachelink: a name is listed if the overlay has something there.
LEMMA ListedInside ==
    ASSUME Typed, NEW s \in Shares, NEW d \in Paths, NEW n \in Names, Append(d, n) \in Paths,
           NEW m \in MountsAbove[s][d]
    PROVE  /\ OverlayKind(s, Append(d, n)) # "nothing" <=> n \in Children(m, Rest(d, m))
           /\ CachelinkMembers(s, d) = Children(m, Rest(d, m))
<1>. DEFINE c == Append(d, n)
            sub == Rest(d, m)
<1>1. /\ m \in Mounts /\ IsPrefix(m, d) /\ MountsAbove[s][d] = {m}
      /\ m \in Seq(Names) /\ d \in Seq(Names) /\ m \in MountsOf(s)
  <2>1. m \in MountsOf(s)
    BY DEF MountsAbove
  <2>. QED
    BY <2>1, OneMountAbove, MountsAre
<1>2. c \in Seq(Names) /\ IsPrefix(d, c) /\ c # d
  BY <1>1, AppendIs DEF IsStrictPrefix
<1>3. IsPrefix(m, c)
  BY <1>1, <1>2, PrefixesCompose
<1>4. m \in MountsAbove[s][c]
  BY <1>1, <1>3 DEF MountsAbove
<1>5. sub \in Seq(Names) /\ m \o sub = d
  BY <1>1, RestIs
<1>. HIDE DEF sub
<1>6. Rest(c, m) = Append(sub, n) /\ Append(sub, n) \in Seq(Names)
      /\ Append(sub, n) # <<>>
  BY <1>1, RestOfAppend DEF sub
<1>7. OverlayKind(s, c) # "nothing"
        <=> Entry(m, Append(sub, n)) # {} \/ Children(m, Append(sub, n)) # {}
  <2>. DEFINE k == OverlayKind(s, c)
              a == Append(sub, n)
  <2>0. c \in Paths
    OBVIOUS
  <2>. HIDE DEF c
  <2>1. a = Rest(c, m) /\ a # <<>>
    BY <1>6
  <2>. HIDE DEF a
  <2>2. k = IF a = <<>> THEN "folder"
            ELSE IF Entry(m, a) # {}
                 THEN IF \E e \in Entry(m, a) : e.dir THEN "folder" ELSE "file"
                 ELSE IF Children(m, a) # {} THEN "folder" ELSE "nothing"
    BY <1>4, <2>0, <2>1, OverlayKindIs
  <2>. HIDE DEF k
  <2>3. k # "nothing" <=> Entry(m, a) # {} \/ Children(m, a) # {}
    BY <2>1, <2>2
  <2>. QED
    BY <2>3 DEF k, a
<1>8. \A f \in listing[m] : f.path \in Seq(Names)
  BY <1>1 DEF Typed, Entries
<1>9. Entry(m, Append(sub, n)) # {} \/ Children(m, Append(sub, n)) # {}
        <=> \E f \in listing[m] : IsPrefix(Append(sub, n), f.path)
  <2>1. \A f \in listing[m] : IsPrefix(Append(sub, n), f.path)
            <=> f.path = Append(sub, n) \/ IsStrictPrefix(Append(sub, n), f.path)
    BY <1>6, <1>8, StrictIsShorter DEF IsStrictPrefix
  <2>2. Entry(m, Append(sub, n)) # {} <=> \E f \in listing[m] : f.path = Append(sub, n)
    BY DEF Entry
  <2>3. Children(m, Append(sub, n)) # {}
            <=> \E f \in listing[m] : IsStrictPrefix(Append(sub, n), f.path)
    <3>. DEFINE a == Append(sub, n)
                below == {f \in listing[m] : IsStrictPrefix(a, f.path)}
    <3>1. Children(m, a) = {e.path[Len(a) + 1] : e \in below}
      BY DEF Children
    <3>2. below # {} <=> \E f \in listing[m] : IsStrictPrefix(a, f.path)
      OBVIOUS
    <3>. HIDE DEF a, below
    <3>3. Children(m, a) # {} <=> below # {}
      BY <3>1
    <3>. QED
      BY <3>2, <3>3 DEF a
  <2>. QED
    BY <2>1, <2>2, <2>3
<1>10. (\E f \in listing[m] : IsPrefix(Append(sub, n), f.path)) <=> n \in Children(m, sub)
  <2>1. \A f \in listing[m] : IsPrefix(Append(sub, n), f.path)
            <=> IsStrictPrefix(sub, f.path) /\ f.path[Len(sub) + 1] = n
    BY <1>5, <1>8, AppendIs
  <2>2. n \in Children(m, sub) <=>
            \E f \in listing[m] : IsStrictPrefix(sub, f.path) /\ f.path[Len(sub) + 1] = n
    BY DEF Children
  <2>. QED
    BY <2>1, <2>2
<1>11. MountsBelow[s][d] = {}
  <2>1. ASSUME NEW l \in MountsOf(s), IsStrictPrefix(d, l) PROVE FALSE
    <3>1. l \in Mounts /\ l \in Seq(Names) /\ IsPrefix(d, l) /\ d # l
      BY <2>1, MountsAre DEF MountsOf, IsStrictPrefix
    <3>2. l = m
      BY <1>1, <3>1, MountsAre, PrefixesCompose
    <3>. QED
      BY <1>1, <3>1, <3>2, PrefixesBothWays
  <2>. QED
    BY <2>1 DEF MountsBelow
<1>12. CachelinkMembers(s, d) = Children(m, sub)
  BY <1>1, <1>11 DEF CachelinkMembers, sub
<1>. QED
  BY <1>7, <1>9, <1>10, <1>12 DEF sub

\* Above the cachelinks: a name is listed if it leads to one.
LEMMA ListedAbove ==
    ASSUME Typed, NEW s \in Shares, NEW d \in Paths, NEW n \in Names, Append(d, n) \in Paths,
           MountsAbove[s][d] = {}
    PROVE  OverlayKind(s, Append(d, n)) # "nothing" <=> n \in CachelinkMembers(s, d)
<1>. DEFINE c == Append(d, n)
<1>1. d \in Seq(Names) /\ c \in Seq(Names) /\ IsStrictPrefix(d, c)
  BY AppendIs
<1>2. MountsOf(s) \subseteq Mounts /\ MountsOf(s) \subseteq Seq(Names)
  BY MountsAre DEF MountsOf
<1>3. /\ \A m \in MountsOf(s) : ~IsPrefix(m, d)
      /\ MountsAbove[s][c] = {m \in MountsOf(s) : IsPrefix(m, c)}
      /\ MountsBelow[s][c] = {m \in MountsOf(s) : IsStrictPrefix(c, m)}
      /\ MountsBelow[s][d] = {m \in MountsOf(s) : IsStrictPrefix(d, m)}
  BY DEF MountsAbove, MountsBelow
<1>4. n \in CachelinkMembers(s, d) <=>
        \E m \in MountsOf(s) : IsStrictPrefix(d, m) /\ m[Len(d) + 1] = n
  BY <1>3 DEF CachelinkMembers
<1>5. \A m \in MountsOf(s) : IsPrefix(c, m) <=> IsStrictPrefix(d, m) /\ m[Len(d) + 1] = n
  BY <1>1, <1>2, AppendIs
<1>6. CASE c \in MountsOf(s)
  <2>1. IsPrefix(c, c) /\ c \in MountsAbove[s][c]
    BY <1>1, <1>3, <1>6, StrictIsShorter
  <2>2. Rest(c, c) = <<>>
    BY <1>1, RestOfSelf
  <2>3. OverlayKind(s, c) = "folder"
    BY <2>1, <2>2, OverlayKindIs
  <2>. QED
    BY <1>4, <1>5, <1>6, <2>1, <2>3
<1>7. CASE c \notin MountsOf(s)
  <2>1. MountsAbove[s][c] = {}
    <3>1. \A m \in MountsOf(s) : IsPrefix(m, c) => m = c \/ IsPrefix(m, d)
      BY <1>1, <1>2, AppendIs
    <3>. QED
      BY <1>3, <1>7, <3>1
  <2>2. OverlayKind(s, c) # "nothing" <=> MountsBelow[s][c] # {}
    BY <2>1, OverlayKindIs
  <2>3. \A m \in MountsOf(s) : IsPrefix(c, m) <=> IsStrictPrefix(c, m)
    BY <1>7 DEF IsStrictPrefix
  <2>. QED
    BY <1>3, <1>4, <1>5, <2>2, <2>3
<1>. QED
  BY <1>6, <1>7

LEMMA ListedIsThere == TreeInv => ListingAgrees
<1>. SUFFICES ASSUME TreeInv, NEW u \in Users, NEW path \in WebPaths, NEW n \in Names,
                     Append(path, n) \in WebPaths, ShareOf[Append(path, n)] = ShareOf[path],
                     Resource(u, path, "PROPFIND") \in FolderKinds
              PROVE  n \in MemberNames(u, path)
                        <=> Resource(u, Append(path, n), "PROPFIND") # "none"
  BY DEF ListingAgrees
<1>. DEFINE s == ShareOf[path]
            d == At[path]
            c == Append(d, n)
<1>1. /\ s \in Shares /\ d \in Paths /\ At[Append(path, n)] = c /\ c \in Paths
  BY WebPathsAre, ChildIsAt
<1>2. disk \in [Paths -> Kinds] /\ Typed
  BY DEF TreeInv, Typed, DiskTyped
<1>3. "PROPFIND" \notin Changing /\ "PROPFIND" \notin Creating
  BY DEF Changing, Creating
<1>4. Resource(u, path, "PROPFIND") # "none"
  BY DEF FolderKinds
<1>5. "read" \in Policy[s][u] /\ disk[d] \notin Files
  <2>1. "read" \in Policy[s][u]
    BY <1>4, ResourceIs
  <2>2. disk[d] \in Files => Resource(u, path, "PROPFIND") = "datadir_file"
    BY <1>3, <2>1 DEF Resource
  <2>. QED
    BY <2>1, <2>2 DEF FolderKinds
<1>. DEFINE there == Overlays(s, u) /\ OverlayKind(s, c) # "nothing"
<1>6. Resource(u, Append(path, n), "PROPFIND") # "none" <=> disk[c] # Absent \/ there
  <2>1. OverlayKind(s, c) \in {"folder", "file", "nothing"}
    <3>1. CASE MountsAbove[s][c] = {}
      BY <1>1, <3>1, OverlayKindIs
    <3>2. CASE MountsAbove[s][c] # {}
      <4>1. PICK m \in MountsAbove[s][c] : TRUE
        BY <3>2
      <4>. QED
        BY <1>1, <4>1, OverlayKindIs
    <3>. QED
      BY <3>1, <3>2
  <2>2. Resource(u, Append(path, n), "PROPFIND") =
            IF disk[c] \in Files THEN "datadir_file"
            ELSE IF disk[c] = Folder THEN "datadir_folder"
            ELSE IF ~Overlays(s, u) THEN "none"
            ELSE IF OverlayKind(s, c) = "folder" THEN "cachelink_folder"
            ELSE IF OverlayKind(s, c) = "file" THEN "cachelink_file"
            ELSE "none"
    BY <1>1, <1>3, <1>5 DEF Resource
  <2>3. disk[c] \in Files \/ disk[c] = Folder <=> disk[c] # Absent
    BY <1>1, <1>2 DEF Kinds, Files, Folder, Absent
  <2>. HIDE DEF s, d, c
  <2>. QED
    BY <2>1, <2>2, <2>3
<1>7. n \in OnDisk(d) <=> disk[c] # Absent
  BY <1>1 DEF OnDisk
<1>. DEFINE above == MountsAbove[s][d]
            one == Children(CHOOSE m \in above : TRUE, Rest(d, CHOOSE m \in above : TRUE))
            listed == CASE ~Overlays(s, u) -> {}
                        [] Overlays(s, u) /\ disk[d] = Folder -> CachelinkMembers(s, d)
                        [] Overlays(s, u) /\ disk[d] # Folder ->
                             IF above # {} THEN one ELSE CachelinkMembers(s, d)
<1>8. MemberNames(u, path) = OnDisk(d) \cup listed
  BY DEF MemberNames
<1>9. n \in listed <=> there
  <2>. HIDE DEF one, s, d, c
  <2>1. CASE above = {}
    <3>1. OverlayKind(s, c) # "nothing" <=> n \in CachelinkMembers(s, d)
      BY <1>1, <1>2, <2>1, ListedAbove DEF c
    <3>. QED
      BY <2>1, <3>1
  <2>2. CASE above # {}
    <3>1. PICK m \in above : TRUE
      BY <2>2
    <3>2. /\ OverlayKind(s, c) # "nothing" <=> n \in Children(m, Rest(d, m))
          /\ CachelinkMembers(s, d) = Children(m, Rest(d, m))
      BY <1>1, <1>2, <3>1, ListedInside DEF c
    <3>3. one = Children(m, Rest(d, m))
      BY <1>1, <3>1, OneMountAbove DEF one
    <3>. QED
      BY <2>2, <3>2, <3>3
  <2>. QED
    BY <2>1, <2>2
<1>. QED
  BY <1>6, <1>7, <1>8, <1>9

\* BlockedOnlyByConflict: no file that a fetch or a checked upload left stands
\* where a cachelink needs a folder, but for what became one in a later listing.
THEOREM ConflictsHaveCauses == Spec => []BlockedOnlyByConflict
BY NoFileInTheWay, TreeInvariant, PTL

\* ListingAgrees: get_member_names and get_resource_inst tell of the same names.
THEOREM ListingAndLookupAgree == Spec => []ListingAgrees
BY ListedIsThere, TreeInvariant, PTL

-----------------------------------------------------------------------------
(* The host keys *)

HIDE ShareTreeAssumption
USE SshKeysAssumption

HostTyped ==
    /\ host \in [HostNames -> 0..made] /\ served \in [HostNames -> 0..made]
    /\ made \in Nat
    /\ loading \in [todo : Seq(HostNames), at : {"look", "make", "again"}]

\* What clients know and nobody has renewed is what the table has.
KnownIsStored ==
    \A t \in HostNames : served[t] # 0 /\ t \notin renewed => host[t] = served[t]

\* A key is made only for a type that clients know no key of, or that is noted.
MakesNone ==
    loading.todo # <<>> /\ loading.at # "look" =>
        (served[Head(loading.todo)] # 0 => Head(loading.todo) \in renewed)

HInv == HostTyped /\ KnownIsStored /\ MakesNone

\* A step of HostKeysStable.
KeepsKnown ==
    \A t \in HostNames : served'[t] # served[t] =>
        served'[t] = host'[t] /\ (served[t] # 0 => t \in renewed)

LEMMA HostTypesTyped == HostTypes \in Seq(HostNames)
BY DEF HostNames

LEMMA HostInit == SshInit => HInv
<1>. SUFFICES ASSUME SshInit PROVE HInv
  OBVIOUS
<1>1. HostTyped
  BY DEF SshInit, HostTyped
<1>2. KnownIsStored /\ MakesNone
  BY DEF SshInit, KnownIsStored, MakesNone
<1>. QED
  BY <1>1, <1>2 DEF HInv

\* save_host_key leaves the types, and every other key as it was.
LEMMA SaveHostKeeps ==
    ASSUME HostTyped, NEW t, SaveHost(t)
    PROVE  /\ made' \in Nat /\ made' >= made
           /\ host' \in [HostNames -> 0..made']
           /\ \A u \in HostNames : u # t => host'[u] = host[u]
<1>1. made' = made + 1 /\ (host' = [host EXCEPT ![t] = made'] \/ host' = host)
  BY DEF SaveHost
<1>2. made \in Nat /\ 0..made \subseteq 0..made' /\ made' \in 0..made'
  BY <1>1 DEF HostTyped
<1>3. host \in [HostNames -> 0..made']
  BY <1>2 DEF HostTyped
<1>4. host' \in [HostNames -> 0..made']
  BY <1>1, <1>2, <1>3
<1>. QED
  BY <1>1, <1>2, <1>4 DEF HostTyped

\* Steps of administrators: what they change of the table they note.
LEMMA AdminSteps ==
    ASSUME HInv, NEW a \in Admins,
           GenerateHost(a) \/ DeleteHost(a) \/ RotateNext(a)
    PROVE  HInv' /\ KeepsKnown
<1>1. PICK t : /\ \A u \in HostNames : u # t => host'[u] = host[u]
               /\ renewed' = renewed \cup {t}
               /\ made' \in Nat /\ made' >= made
               /\ host' \in [HostNames -> 0..made']
  <2>1. CASE GenerateHost(a)
    BY <2>1, SaveHostKeeps DEF GenerateHost, HInv
  <2>2. CASE DeleteHost(a)
    <3>1. made \in Nat /\ 0 \in 0..made /\ made' = made
      BY <2>2 DEF DeleteHost, HInv, HostTyped
    <3>2. PICK t \in HostNames :
             host' = [host EXCEPT ![t] = 0] /\ renewed' = renewed \cup {t}
      BY <2>2 DEF DeleteHost
    <3>3. host' \in [HostNames -> 0..made'] /\ \A u \in HostNames : u # t => host'[u] = host[u]
      BY <3>1, <3>2 DEF HInv, HostTyped
    <3>. QED
      BY <3>1, <3>2, <3>3
  <2>3. CASE RotateNext(a)
    BY <2>3, SaveHostKeeps DEF RotateNext, HInv
  <2>. QED
    BY <2>1, <2>2, <2>3
<1>2. UNCHANGED <<loading, served>>
  BY DEF GenerateHost, DeleteHost, RotateNext
<1>3. HostTyped'
  BY <1>1, <1>2 DEF HInv, HostTyped
<1>4. KnownIsStored'
  BY <1>1, <1>2 DEF HInv, KnownIsStored
<1>5. MakesNone'
  BY <1>1, <1>2 DEF HInv, MakesNone
<1>. QED
  BY <1>2, <1>3, <1>4, <1>5 DEF HInv, KeepsKnown

\* Loading the next key: what is served is what the table has.
LEMMA Serves ==
    ASSUME HInv, loading.todo # <<>>, Serve(Head(loading.todo)), NextHost,
           UNCHANGED <<host, made>>,
           served[Head(loading.todo)] # 0 /\ Head(loading.todo) \notin renewed
               => host[Head(loading.todo)] = served[Head(loading.todo)]
    PROVE  HInv' /\ KeepsKnown
<1>. DEFINE t == Head(loading.todo)
<1>1. t \in HostNames /\ Tail(loading.todo) \in Seq(HostNames)
  BY DEF HInv, HostTyped
<1>2. served' = [served EXCEPT ![t] = host[t]] /\ renewed' = renewed \ {t}
  BY DEF Serve
<1>3. HostTyped'
  BY <1>1, <1>2 DEF HInv, HostTyped, NextHost
<1>4. KnownIsStored'
  BY <1>1, <1>2 DEF HInv, HostTyped, KnownIsStored
<1>5. MakesNone'
  BY DEF NextHost, MakesNone
<1>6. KeepsKnown
  BY <1>1, <1>2 DEF HInv, HostTyped, KeepsKnown
<1>. QED
  BY <1>3, <1>4, <1>5, <1>6 DEF HInv

LEMMA LoadingSteps ==
    ASSUME HInv, BeginLoading \/ LookForHost \/ MakeHost \/ LookAgain
    PROVE  HInv' /\ KeepsKnown
<1>. DEFINE h == Head(loading.todo)
<1>1. CASE BeginLoading
  <2>1. HostTyped'
    BY <1>1, HostTypesTyped DEF BeginLoading, HInv, HostTyped
  <2>2. KnownIsStored' /\ MakesNone' /\ KeepsKnown
    BY <1>1 DEF BeginLoading, HInv, KnownIsStored, MakesNone, KeepsKnown
  <2>. QED
    BY <2>1, <2>2 DEF HInv
<1>2. ASSUME loading.todo # <<>>
      PROVE  h \in HostNames /\ Tail(loading.todo) \in Seq(HostNames)
  BY <1>2 DEF HInv, HostTyped
<1>3. CASE LookForHost
  <2>1. CASE Serve(h) /\ NextHost
    BY <1>2, <1>3, <2>1, Serves DEF LookForHost, HInv, KnownIsStored
  <2>2. CASE /\ \/ renewed' = renewed \cup {h}
                 \/ (host[h] = 0 /\ renewed' = renewed)
              /\ \/ NextHost
                 \/ loading' = [loading EXCEPT !.at = "make"]
              /\ served' = served /\ host' = host /\ made' = made
              /\ loading.todo # <<>>
    <3>1. HostTyped'
      <4>1. loading' \in [todo : Seq(HostNames), at : {"look", "make", "again"}]
        <5>1. CASE NextHost
          BY <1>2, <2>2, <5>1 DEF NextHost
        <5>2. CASE loading' = [loading EXCEPT !.at = "make"]
          BY <5>2 DEF HInv, HostTyped
        <5>. QED
          BY <2>2, <5>1, <5>2
      <4>. QED
        BY <2>2, <4>1 DEF HInv, HostTyped
    <3>2. KnownIsStored' /\ KeepsKnown
      BY <2>2 DEF HInv, KnownIsStored, KeepsKnown
    <3>3. MakesNone'
      <4>1. CASE NextHost
        BY <4>1 DEF NextHost, MakesNone
      <4>2. CASE loading' = [loading EXCEPT !.at = "make"]
        <5>1. loading'.todo = loading.todo /\ (served[h] # 0 => h \in renewed')
          BY <1>2, <2>2, <4>2 DEF HInv, HostTyped, KnownIsStored
        <5>. QED
          BY <2>2, <5>1 DEF MakesNone
      <4>. QED
        BY <2>2, <4>1, <4>2
    <3>. QED
      BY <3>1, <3>2, <3>3 DEF HInv
  <2>. QED
    BY <1>3, <2>1, <2>2 DEF LookForHost
<1>4. CASE MakeHost
  <2>1. /\ loading.todo # <<>> /\ SaveHost(h) /\ UNCHANGED <<served, renewed>>
        /\ loading' = [loading EXCEPT !.at = "again"]
        /\ served[h] # 0 => h \in renewed
    BY <1>4 DEF MakeHost, HInv, MakesNone
  <2>2. /\ made' \in Nat /\ made' >= made
        /\ host' \in [HostNames -> 0..made']
        /\ \A u \in HostNames : u # h => host'[u] = host[u]
    BY <2>1, SaveHostKeeps DEF HInv
  <2>3. HostTyped'
    <3>1. loading' \in [todo : Seq(HostNames), at : {"look", "make", "again"}]
      BY <2>1 DEF HInv, HostTyped
    <3>2. served' \in [HostNames -> 0..made']
      BY <2>1, <2>2 DEF HInv, HostTyped
    <3>. QED
      BY <2>2, <3>1, <3>2 DEF HostTyped
  <2>4. KnownIsStored'
    BY <2>1, <2>2 DEF HInv, KnownIsStored
  <2>5. MakesNone' /\ KeepsKnown
    BY <2>1 DEF HInv, HostTyped, MakesNone, KeepsKnown
  <2>. QED
    BY <2>3, <2>4, <2>5 DEF HInv
<1>5. CASE LookAgain
  <2>1. CASE Serve(h)
    BY <1>2, <1>5, <2>1, Serves DEF LookAgain, HInv, KnownIsStored
  <2>2. CASE renewed' = renewed \cup {h} /\ UNCHANGED served
    <3>1. NextHost /\ UNCHANGED <<host, made>> /\ loading.todo # <<>>
      BY <1>5 DEF LookAgain
    <3>2. HostTyped'
      BY <1>2, <2>2, <3>1 DEF HInv, HostTyped, NextHost
    <3>3. KnownIsStored' /\ MakesNone' /\ KeepsKnown
      BY <2>2, <3>1 DEF HInv, KnownIsStored, MakesNone, NextHost, KeepsKnown
    <3>. QED
      BY <3>2, <3>3 DEF HInv
  <2>. QED
    BY <1>5, <2>1, <2>2 DEF LookAgain
<1>. QED
  BY <1>1, <1>3, <1>4, <1>5

LEMMA HostNext ==
    ASSUME HInv, [SshNext]_sshVars
    PROVE  HInv' /\ KeepsKnown
<1>1. CASE UNCHANGED <<host, made, served, renewed>> /\ loading' = loading
  BY <1>1 DEF HInv, HostTyped, KnownIsStored, MakesNone, KeepsKnown
<1>2. CASE Restart
  <2>1. HostTyped'
    BY <1>2 DEF Restart, HInv, HostTyped
  <2>. QED
    BY <1>2, <2>1 DEF Restart, HInv, KnownIsStored, MakesNone, KeepsKnown
<1>3. ASSUME NEW a \in Admins, GenerateHost(a) \/ DeleteHost(a) \/ RotateNext(a)
      PROVE  HInv' /\ KeepsKnown
  BY <1>3, AdminSteps
<1>4. CASE BeginLoading \/ LookForHost \/ MakeHost \/ LookAgain
  BY <1>4, LoadingSteps
<1>5. CASE UNCHANGED sshVars
  BY <1>1, <1>5 DEF sshVars, hostVars
<1>6. ASSUME NEW t \in Threads, DeleteAll(t) \/ Save(t) \/ Finish(t)
      PROVE  HInv' /\ KeepsKnown
  BY <1>1, <1>6 DEF DeleteAll, Save, Finish, hostVars
<1>7. ASSUME NEW a \in Admins, AdminUpdate(a) \/ BeginRotation(a)
      PROVE  HInv' /\ KeepsKnown
  BY <1>1, <1>7 DEF AdminUpdate, BeginRotation, hostVars
<1>8. ASSUME NEW s \in Sessions,
             \/ BeginSession(s) \/ EndSession(s) \/ OpenKeys(s) \/ CloseKeys(s)
             \/ WriteKeys(s) \/ RemoveKeys(s)
      PROVE  HInv' /\ KeepsKnown
  <2>1. UNCHANGED hostVars
    BY <1>8 DEF BeginSession, EndSession, OpenKeys, CloseKeys, WriteKeys, RemoveKeys
  <2>. QED
    BY <1>1, <2>1 DEF hostVars
<1>. QED
  BY <1>2, <1>3, <1>4, <1>5, <1>6, <1>7, <1>8 DEF SshNext

\* The SFTP server shows its clients the host key they know until an
\* administrator renews it or the table cannot be read, and never a key that
\* is not in the table, for any number of starts (load_or_generate_host_keys).
THEOREM HostKeysAreStable == SshSpec => HostKeysStable
<1>1. HInv /\ [SshNext]_sshVars => HInv' /\ [KeepsKnown]_sshVars
  BY HostNext
<1>2. SshSpec => [][KeepsKnown]_sshVars
  BY HostInit, <1>1, PTL DEF SshSpec
<1>. QED
  BY <1>2 DEF HostKeysStable, KeepsKnown
-----------------------------------------------------------------------------
(* What an update leaves in the table *)

\* The beginning of a sequence grows by the next element.
LEMMA NextOfBeginning ==
    ASSUME NEW A, NEW w \in Seq(A), NEW n \in Nat, n < Len(w)
    PROVE  /\ SubSeq(w, 1, n) \in Seq(A)
           /\ SubSeq(w, 1, n + 1) = Append(SubSeq(w, 1, n), w[n + 1])
<1>. DEFINE b == SubSeq(w, 1, n)
            c == SubSeq(w, 1, n + 1)
<1>1. b \in Seq(A) /\ Len(b) = n /\ \A i \in 1..n : b[i] = w[i]
  OBVIOUS
<1>2. c \in Seq(A) /\ Len(c) = n + 1 /\ \A i \in 1..n + 1 : c[i] = w[i]
  OBVIOUS
<1>3. w[n + 1] \in A
  OBVIOUS
<1>. HIDE DEF b, c
<1>4. /\ Append(b, w[n + 1]) \in Seq(A) /\ Len(Append(b, w[n + 1])) = n + 1
      /\ \A i \in 1..n + 1 : Append(b, w[n + 1])[i] = w[i]
  BY <1>1, <1>3
<1>5. c = Append(b, w[n + 1])
  BY <1>2, <1>4, SeqEqual
<1>. QED
  BY <1>1, <1>5 DEF b, c

LEMMA StoredEmpty == Stored(<<>>) = [t \in Types |-> "none"]
<1>1. \A t \in Types : LastOfType(<<>>, t) = {}
  BY DEF LastOfType
<1>. QED
  BY <1>1, Zenon DEF Stored

\* The next key takes the place of the one of its type: the row of a user and a
\* type is replaced.
LEMMA StoredGrows ==
    ASSUME NEW doc \in Seq(Keys), NEW k \in Keys
    PROVE  Stored(Append(doc, k)) = [Stored(doc) EXCEPT ![k.type] = k.id]
<1>. DEFINE more == Append(doc, k)
            n == Len(doc) + 1
<1>1. /\ DOMAIN more = 1..n /\ Len(more) = n /\ more[n] = k
      /\ \A i \in DOMAIN doc : more[i] = doc[i]
      /\ DOMAIN doc = 1..Len(doc) /\ Len(doc) \in Nat
  OBVIOUS
<1>. HIDE DEF more
<1>2. LastOfType(more, k.type) = {n}
  <2>1. \A i \in 1..n : i \in LastOfType(more, k.type) <=> i = n
    BY <1>1 DEF LastOfType
  <2>2. LastOfType(more, k.type) \subseteq 1..n
    BY <1>1 DEF LastOfType
  <2>. QED
    BY <1>1, <2>1, <2>2
<1>3. ASSUME NEW t \in Types, t # k.type
      PROVE  /\ LastOfType(more, t) = LastOfType(doc, t)
             /\ LastOfType(doc, t) \subseteq DOMAIN doc
  <2>1. n \notin LastOfType(more, t) /\ n \notin LastOfType(doc, t)
    BY <1>1, <1>3 DEF LastOfType
  <2>3. ASSUME NEW i \in 1..Len(doc)
        PROVE  i \in LastOfType(more, t) <=> i \in LastOfType(doc, t)
    <3>1. /\ \A j \in i + 1..n : j = n \/ j \in i + 1..Len(doc)
          /\ \A j \in i + 1..Len(doc) : j \in i + 1..n /\ j \in DOMAIN doc
      <4>. DEFINE l == Len(doc)
      <4>1. l \in Nat /\ DOMAIN doc = 1..l /\ i \in 1..l
        BY <1>1
      <4>. HIDE DEF l
      <4>2. /\ \A j \in i + 1..l + 1 : j = l + 1 \/ j \in i + 1..l
            /\ \A j \in i + 1..l : j \in i + 1..l + 1 /\ j \in 1..l
        BY <4>1
      <4>. QED
        BY <4>1, <4>2 DEF l
    <3>2. /\ i \in LastOfType(doc, t)
              <=> doc[i].type = t /\ \A j \in i + 1..Len(doc) : doc[j].type # t
          /\ i \in LastOfType(more, t)
              <=> more[i].type = t /\ \A j \in i + 1..n : more[j].type # t
      BY <1>1 DEF LastOfType
    <3>. QED
      BY <1>1, <1>3, <3>1, <3>2
  <2>2. LastOfType(more, t) \subseteq 1..n /\ LastOfType(doc, t) \subseteq 1..n
    BY <1>1 DEF LastOfType
  <2>. QED
    <3>1. 1..n = (1..Len(doc)) \cup {n}
      BY <1>1
    <3>2. LastOfType(doc, t) \subseteq DOMAIN doc
      BY DEF LastOfType
    <3>. DEFINE a == LastOfType(more, t)
                b == LastOfType(doc, t)
    <3>3. \A i \in 1..n : i \in a <=> i \in b
      BY <2>1, <2>3, <3>1
    <3>4. a \subseteq 1..n /\ b \subseteq 1..n
      BY <2>2
    <3>. HIDE DEF a, b
    <3>5. a = b
      BY <3>3, <3>4
    <3>. QED
      BY <3>2, <3>5 DEF a, b
<1>4. Stored(more)[k.type] = k.id
  <2>1. k.type \in Types
    BY DEF Keys
  <2>2. (CHOOSE i \in {n} : TRUE) = n
    OBVIOUS
  <2>. QED
    BY <1>1, <1>2, <2>1, <2>2 DEF Stored
<1>5. ASSUME NEW t \in Types, t # k.type
      PROVE  Stored(more)[t] = Stored(doc)[t]
  <2>. DEFINE i == CHOOSE j \in LastOfType(doc, t) : TRUE
  <2>1. /\ Stored(more)[t] = IF LastOfType(doc, t) = {} THEN "none" ELSE more[i].id
        /\ Stored(doc)[t] = IF LastOfType(doc, t) = {} THEN "none" ELSE doc[i].id
    <3>. DEFINE j == CHOOSE x \in LastOfType(more, t) : TRUE
    <3>1. /\ Stored(more)[t] = IF LastOfType(more, t) = {} THEN "none" ELSE more[j].id
          /\ Stored(doc)[t] = IF LastOfType(doc, t) = {} THEN "none" ELSE doc[i].id
      BY <1>5 DEF Stored
    <3>2. LastOfType(more, t) = LastOfType(doc, t) /\ i = j
      BY <1>3, <1>5
    <3>. HIDE DEF i, j
    <3>. QED
      BY <3>1, <3>2
  <2>2. LastOfType(doc, t) # {} => i \in DOMAIN doc
    BY <1>3, <1>5
  <2>. HIDE DEF i
  <2>. QED
    BY <1>1, <2>1, <2>2
<1>6. /\ Stored(more) = [t \in Types |-> Stored(more)[t]]
      /\ Stored(doc) = [t \in Types |-> Stored(doc)[t]]
  BY DEF Stored
<1>. QED
  <2>. DEFINE a == Stored(more)
              b == Stored(doc)
  <2>1. a = [t \in Types |-> a[t]] /\ b = [t \in Types |-> b[t]]
    BY <1>6
  <2>2. a[k.type] = k.id /\ \A t \in Types : t # k.type => a[t] = b[t]
    BY <1>4, <1>5
  <2>. HIDE DEF a, b
  <2>3. a = [b EXCEPT ![k.type] = k.id]
    BY <2>1, <2>2
  <2>. QED
    BY <2>3 DEF a, b, more

-----------------------------------------------------------------------------
(* The texts that are sent and written *)

Lines == Keys \cup {Comment, Junk}

LEMMA ParsedIs == \A text \in Seq(Lines) : Parsed(text) \in Seq(Keys)
BY KeptIs DEF Parsed

LEMMA RenderedIs ==
    ASSUME keys \in [Types -> Ids \cup {"none"}]
    PROVE  Rendered \in Seq(Lines)
<1>. DEFINE has == {t \in Types : keys[t] # "none"}
            stored == Kept(TypeOrder, has)
<1>1. stored \in Seq(has)
  <2>1. TypeOrder \in Seq(STRING)
    OBVIOUS
  <2>. HIDE DEF has
  <2>. QED
    BY <2>1, KeptIs
<1>2. \A t \in has : [type |-> t, id |-> keys[t]] \in Lines
  BY DEF Lines, Keys
<1>3. Rendered = [i \in DOMAIN stored |-> [type |-> stored[i], id |-> keys[stored[i]]]]
  BY DEF Rendered
<1>. HIDE DEF has, stored
<1>4. \A i \in 1..Len(stored) : [type |-> stored[i], id |-> keys[stored[i]]] \in Lines
  BY <1>1, <1>2
<1>5. DOMAIN stored = 1..Len(stored) /\ Len(stored) \in Nat
  BY <1>1
<1>6. Rendered \in [1..Len(stored) -> Lines]
  BY <1>3, <1>4, <1>5
<1>. HIDE DEF Rendered
<1>. QED
  BY <1>5, <1>6

LEMMA ApplyWriteIs ==
    ASSUME NEW old \in Seq(Lines), NEW new \in Seq(Lines),
           NEW offset \in Nat, NEW cut \in BOOLEAN
    PROVE  ApplyWrite(old, new, offset, cut) \in Seq(Lines)
<1>. DEFINE tail == SubSeq(old, offset + Len(new) + 1, Len(old))
            rest == IF cut /\ tail # <<>> THEN <<Junk>> \o Tail(tail) ELSE tail
<1>1. Junk \in Lines
  BY DEF Lines
<1>2. Before(old, offset) \in Seq(Lines)
  <2>. DEFINE b == Before(old, offset)
  <2>1. b \in [1..offset -> Lines]
    BY <1>1 DEF Before
  <2>. HIDE DEF b
  <2>2. b \in Seq(Lines)
    BY <2>1
  <2>. QED
    BY <2>2 DEF b
<1>3. tail \in Seq(Lines)
  <2>1. offset + Len(new) + 1 \in 1..Len(old) + 1 \/ tail = <<>>
    OBVIOUS
  <2>2. \A m \in 1..Len(old) + 1 : SubSeq(old, m, Len(old)) \in Seq(Lines)
    OBVIOUS
  <2>. QED
    BY <2>1, <2>2
<1>. HIDE DEF tail
<1>4. rest \in Seq(Lines)
  BY <1>1, <1>3
<1>5. ApplyWrite(old, new, offset, cut) = Before(old, offset) \o new \o rest
  BY DEF ApplyWrite, tail
<1>. HIDE DEF rest
<1>. QED
  BY <1>2, <1>4, <1>5
-----------------------------------------------------------------------------
(* The updates of the user's keys *)

Updates == [op : {"delete", "save"}, todo : Seq(Keys), whole : Seq(Keys), clean : BOOLEAN]
Rotations ==
    [op : {"rotate"}, todo : Seq(HostNames) \ {<<>>}, whole : {<<>>}, clean : {TRUE}]

UserTyped ==
    /\ keys \in [Types -> Ids \cup {"none"}]
    /\ editable \in BOOLEAN
    /\ session \in [Sessions -> [in : BOOLEAN, reads : BOOLEAN, open : BOOLEAN]]
    /\ job \in [Threads -> {NoJob} \cup Rotations \cup Updates]
    /\ accepted \in Seq(Keys) \cup {Mixed}
    /\ failures \in 0..MaxFailures
    /\ made <= MaxMade
    /\ renewed \subseteq HostNames

Updating == {t \in Threads : job[t].op \in {"delete", "save"}}

\* An update is clean only while there is no other one.
Alone == \A t, u \in Updating : job[t].clean => t = u

\* What an update still does is the end of what it was to do.
IsEnd(e, w) ==
    Len(e) <= Len(w) /\ \A i \in 1..Len(e) : e[i] = w[Len(w) - Len(e) + i]
EndsIt ==
    \A t \in Updating : /\ IsEnd(job[t].todo, job[t].whole)
                        /\ job[t].op = "delete" => job[t].todo = job[t].whole

\* What a clean update has done is all that is in the table.
Done(j) == SubSeq(j.whole, 1, Len(j.whole) - Len(j.todo))
DoneIsStored ==
    \A t \in Updating : job[t].op = "save" /\ job[t].clean => keys = Stored(Done(job[t]))

UserInv == UserTyped /\ Alone /\ EndsIt /\ DoneIsStored /\ KeysAreOneUpdate

LEMMA BusyIs == Busy <=> Updating # {}
BY DEF Busy, Updating

LEMMA UpdateIs == UserTyped => \A t \in Updating : job[t] \in Updates
<1>. SUFFICES ASSUME UserTyped, NEW t \in Updating PROVE job[t] \in Updates
  OBVIOUS
<1>1. job[t] \in {NoJob} \cup Rotations \cup Updates /\ job[t].op \in {"delete", "save"}
  BY DEF UserTyped, Updating
<1>2. job[t] # NoJob
  BY <1>1 DEF NoJob
<1>3. job[t] \notin Rotations
  BY <1>1 DEF Rotations
<1>. QED
  BY <1>1, <1>2, <1>3

LEMMA RotationIs ==
    UserTyped => \A t \in Threads : job[t].op = "rotate" => job[t] \in Rotations
<1>. SUFFICES ASSUME UserTyped, NEW t \in Threads, job[t].op = "rotate"
              PROVE  job[t] \in Rotations
  OBVIOUS
<1>1. job[t] \in {NoJob} \cup Rotations \cup Updates
  BY DEF UserTyped
<1>2. job[t] # NoJob /\ job[t] \notin Updates
  BY DEF NoJob, Updates
<1>. QED
  BY <1>1, <1>2

LEMMA UserInit == SshInit => UserInv
<1>. SUFFICES ASSUME SshInit PROVE UserInv
  OBVIOUS
<1>1. UserTyped
  BY DEF SshInit, UserTyped, Out
<1>2. Updating = {}
  BY DEF SshInit, Updating, NoJob
<1>3. Alone /\ EndsIt /\ DoneIsStored
  BY <1>2, Zenon DEF Alone, EndsIt, DoneIsStored
<1>4. KeysAreOneUpdate
  BY StoredEmpty DEF SshInit, KeysAreOneUpdate
<1>. QED
  BY <1>1, <1>2, <1>3, <1>4 DEF UserInv

\* A step that touches neither the keys nor an update leaves what is said of them.
LEMMA OtherSteps ==
    ASSUME UserInv, UserTyped', UNCHANGED <<keys, accepted>>,
           Updating' = Updating, \A t \in Updating : job'[t] = job[t]
    PROVE  UserInv'
<1>1. Alone'
  BY DEF UserInv, Alone
<1>2. EndsIt'
  BY DEF UserInv, EndsIt
<1>3. DoneIsStored'
  BY DEF UserInv, DoneIsStored
<1>4. Busy' <=> Busy
  BY BusyIs DEF Busy, Updating
<1>5. \A d : Stored(d)' = Stored(d)
  BY DEF Stored, LastOfType
<1>6. KeysAreOneUpdate'
  BY <1>4 DEF UserInv, KeysAreOneUpdate
<1>. QED
  BY <1>1, <1>2, <1>3, <1>6 DEF UserInv

\* An update begins: it and the others are not clean.
LEMMA BeginKeeps ==
    ASSUME UserInv, NEW t \in Threads, NEW doc \in Seq(Keys), job[t] = NoJob,
           Begin(t, doc), UNCHANGED <<userVars, hostVars, failures>>
    PROVE  UserInv'
<1>1. /\ job'[t] = [op |-> "delete", todo |-> doc, whole |-> doc, clean |-> ~Busy]
      /\ \A u \in Threads \ {t} :
            job'[u] = IF u \in Updating THEN [job[u] EXCEPT !.clean = FALSE] ELSE job[u]
      /\ DOMAIN job' = Threads
      /\ job' = [u \in Threads |-> job'[u]]
  BY DEF Begin, Updating
<1>2. \A u \in Updating : job[u] \in Updates
  BY UpdateIs DEF UserInv
<1>3. \A u \in Updating \ {t} :
        /\ job'[u] \in Updates /\ ~job'[u].clean /\ job'[u].op = job[u].op
        /\ job'[u].todo = job[u].todo /\ job'[u].whole = job[u].whole
  <2>. SUFFICES ASSUME NEW u \in Updating \ {t}
                PROVE  /\ job'[u] \in Updates /\ ~job'[u].clean /\ job'[u].op = job[u].op
                       /\ job'[u].todo = job[u].todo /\ job'[u].whole = job[u].whole
    OBVIOUS
  <2>1. job'[u] = [job[u] EXCEPT !.clean = FALSE]
    BY <1>1 DEF Updating
  <2>. QED
    BY <1>2, <2>1 DEF Updates
<1>4. job'[t] \in Updates
  BY <1>1 DEF Updates, Busy
<1>5. t \notin Updating
  BY DEF Updating, NoJob
<1>6. Updating' = Updating \cup {t}
  BY <1>1, <1>3 DEF Updating
<1>7. UserTyped'
  <2>1. \A u \in Threads : job'[u] \in {NoJob} \cup Rotations \cup Updates
    <3>. SUFFICES ASSUME NEW u \in Threads
                  PROVE  job'[u] \in {NoJob} \cup Rotations \cup Updates
      OBVIOUS
    <3>1. job[u] \in {NoJob} \cup Rotations \cup Updates
      BY DEF UserInv, UserTyped
    <3>. QED
      BY <1>1, <1>3, <1>4, <3>1
  <2>2. job' \in [Threads -> {NoJob} \cup Rotations \cup Updates]
    BY <1>1, <2>1
  <2>. QED
    BY <2>2 DEF UserInv, UserTyped, userVars, hostVars
<1>8. Alone'
  <2>1. Updating # {} => ~job'[t].clean
    <3>. DEFINE b == ~Busy
    <3>1. job'[t].clean = b
      <4>. HIDE DEF b
      <4>. QED
        BY <1>1 DEF b
    <3>. QED
      BY <3>1, BusyIs
  <2>. QED
    BY <1>3, <1>6, <2>1 DEF Alone
<1>9. EndsIt'
  <2>1. \A u \in Updating \ {t} : /\ IsEnd(job'[u].todo, job'[u].whole)
                                  /\ job'[u].op = "delete" => job'[u].todo = job'[u].whole
    BY <1>3 DEF UserInv, EndsIt
  <2>2. IsEnd(doc, doc)
    BY DEF IsEnd
  <2>3. IsEnd(job'[t].todo, job'[t].whole) /\ job'[t].todo = job'[t].whole
    BY <1>1, <2>2
  <2>. QED
    BY <1>6, <2>1, <2>3 DEF EndsIt
<1>10. DoneIsStored'
  BY <1>1, <1>3, <1>6 DEF DoneIsStored
<1>11. KeysAreOneUpdate'
  <2>1. Busy'
    BY <1>6 DEF Busy, Updating
  <2>. QED
    BY <2>1 DEF KeysAreOneUpdate
<1>. QED
  BY <1>7, <1>8, <1>9, <1>10, <1>11 DEF UserInv

\* The keys are all deleted.
LEMMA DeleteAllKeeps ==
    ASSUME UserInv, NEW t \in Threads, DeleteAll(t)
    PROVE  UserInv'
<1>1. t \in Updating /\ job[t].op = "delete"
  BY DEF DeleteAll, Updating
<1>2. \A u \in Updating : job[u] \in Updates
  BY UpdateIs DEF UserInv
<1>3. /\ job'[t] = [job[t] EXCEPT !.op = "save", !.clean = @ /\ failures' = failures]
      /\ \A u \in Threads \ {t} : job'[u] = job[u]
      /\ job' = [u \in Threads |-> job'[u]]
  BY DEF DeleteAll, UserInv, UserTyped
<1>4. /\ job'[t] \in Updates /\ job'[t].op = "save"
      /\ job'[t].todo = job[t].todo /\ job'[t].whole = job[t].whole
      /\ job'[t].clean => job[t].clean /\ failures' = failures
  BY <1>1, <1>2, <1>3 DEF Updates
<1>5. Updating' = Updating
  BY <1>1, <1>3, <1>4 DEF Updating
<1>6. failures \in Nat /\ failures' \in 0..MaxFailures
  BY DEF UserInv, UserTyped, DeleteAll, Succeeds, Fails
<1>7. keys' \in [Types -> Ids \cup {"none"}]
  BY DEF UserInv, UserTyped, DeleteAll
<1>8. UserTyped'
  <2>1. \A u \in Threads : job'[u] \in {NoJob} \cup Rotations \cup Updates
    BY <1>3, <1>4 DEF UserInv, UserTyped
  <2>2. job' \in [Threads -> {NoJob} \cup Rotations \cup Updates]
    BY <1>3, <2>1
  <2>. QED
    BY <1>6, <1>7, <2>2 DEF UserInv, UserTyped, DeleteAll, hostVars
<1>9. Alone'
  BY <1>3, <1>4, <1>5 DEF UserInv, Alone, Updating
<1>10. job[t].todo = job[t].whole /\ job[t].whole \in Seq(Keys)
  BY <1>1, <1>2 DEF UserInv, EndsIt, Updates
<1>11. EndsIt'
  <2>1. \A u \in Updating \ {t} : /\ IsEnd(job'[u].todo, job'[u].whole)
                                  /\ job'[u].op = "delete" => job'[u].todo = job'[u].whole
    BY <1>3 DEF UserInv, EndsIt, Updating
  <2>2. IsEnd(job'[t].todo, job'[t].whole) /\ job'[t].op # "delete"
    BY <1>1, <1>4 DEF UserInv, EndsIt
  <2>. QED
    BY <1>5, <2>1, <2>2 DEF EndsIt
<1>12. DoneIsStored'
  <2>. SUFFICES ASSUME NEW u \in Updating', job'[u].op = "save", job'[u].clean
                PROVE  keys' = Stored(Done(job'[u]))
    BY DEF DoneIsStored
  <2>1. u = t
    BY <1>9, <1>5, <1>1 DEF Alone
  <2>2. keys' = [x \in Types |-> "none"]
    BY <1>4, <1>6, <2>1 DEF DeleteAll, Fails
  <2>3. Done(job'[t]) = <<>>
    <3>. DEFINE w == job[t].whole
    <3>1. job'[t].whole = w /\ job'[t].todo = w /\ w \in Seq(Keys)
      BY <1>4, <1>10
    <3>. HIDE DEF w
    <3>2. SubSeq(w, 1, Len(w) - Len(w)) = <<>>
      BY <3>1
    <3>. QED
      BY <3>1, <3>2 DEF Done
  <2>. QED
    BY <2>1, <2>2, <2>3, StoredEmpty
<1>13. KeysAreOneUpdate'
  <2>1. Busy'
    BY <1>1, <1>5 DEF Busy, Updating
  <2>. QED
    BY <2>1 DEF KeysAreOneUpdate
<1>. QED
  BY <1>8, <1>9, <1>11, <1>12, <1>13 DEF UserInv

\* The next key takes the place of the one of its type.
LEMMA SaveKeeps ==
    ASSUME UserInv, NEW t \in Threads, Save(t)
    PROVE  UserInv'
<1>1. t \in Updating /\ job[t].op = "save" /\ job[t].todo # <<>>
  BY DEF Save, Updating
<1>2. job[t] \in Updates
  BY <1>1, UpdateIs DEF UserInv
<1>. DEFINE k == Head(job[t].todo)
<1>3. k \in Keys /\ Tail(job[t].todo) \in Seq(Keys)
  BY <1>1, <1>2 DEF Updates
<1>4. /\ job'[t] = [job[t] EXCEPT !.todo = Tail(@), !.clean = @ /\ failures' = failures]
      /\ \A u \in Threads \ {t} : job'[u] = job[u]
      /\ job' = [u \in Threads |-> job'[u]]
  BY DEF Save, UserInv, UserTyped
<1>5. /\ job'[t] \in Updates /\ job'[t].op = "save"
      /\ job'[t].todo = Tail(job[t].todo) /\ job'[t].whole = job[t].whole
      /\ job'[t].clean => job[t].clean /\ failures' = failures
  BY <1>1, <1>2, <1>3, <1>4 DEF Updates
<1>6. Updating' = Updating
  BY <1>1, <1>4, <1>5 DEF Updating
<1>7. failures \in Nat /\ failures' \in 0..MaxFailures
  BY DEF UserInv, UserTyped, Save, Succeeds, Fails
<1>8. keys' \in [Types -> Ids \cup {"none"}]
  <2>1. k.type \in Types /\ k.id \in Ids
    BY <1>3 DEF Keys
  <2>2. keys' = [keys EXCEPT ![k.type] = k.id] \/ keys' = keys
    BY DEF Save
  <2>. QED
    BY <2>1, <2>2 DEF UserInv, UserTyped
<1>9. UserTyped'
  <2>1. \A u \in Threads : job'[u] \in {NoJob} \cup Rotations \cup Updates
    BY <1>4, <1>5 DEF UserInv, UserTyped
  <2>2. job' \in [Threads -> {NoJob} \cup Rotations \cup Updates]
    BY <1>4, <2>1
  <2>. QED
    BY <1>7, <1>8, <2>2 DEF UserInv, UserTyped, Save, hostVars
<1>10. Alone'
  BY <1>4, <1>5, <1>6 DEF UserInv, Alone, Updating
<1>. DEFINE e == job[t].todo
            w == job[t].whole
            n == Len(w) - Len(e)
<1>11. /\ e \in Seq(Keys) /\ w \in Seq(Keys) /\ Len(e) \in Nat \ {0} /\ Len(w) \in Nat
       /\ IsEnd(e, w) /\ Len(Tail(e)) = Len(e) - 1
       /\ \A i \in 1..Len(e) - 1 : Tail(e)[i] = e[i + 1]
  BY <1>1, <1>2 DEF Updates, UserInv, EndsIt
<1>12. n \in Nat /\ n < Len(w) /\ w[n + 1] = k
  <2>1. k = e[1]
    BY <1>11
  <2>. HIDE DEF e, w, k
  <2>2. Len(e) <= Len(w) /\ e[1] = w[Len(w) - Len(e) + 1]
    BY <1>11 DEF IsEnd
  <2>3. n \in Nat /\ n < Len(w)
    BY <1>11, <2>2
  <2>. QED
    BY <2>1, <2>2, <2>3
<1>13. IsEnd(Tail(e), w)
  <2>. HIDE DEF e, w
  <2>1. \A i \in 1..Len(e) - 1 : e[i + 1] = w[Len(w) - Len(e) + (i + 1)]
    BY <1>11 DEF IsEnd
  <2>2. \A i \in 1..Len(e) - 1 : Tail(e)[i] = w[Len(w) - (Len(e) - 1) + i]
    <3>. SUFFICES ASSUME NEW i \in 1..Len(e) - 1
                  PROVE  Tail(e)[i] = w[Len(w) - (Len(e) - 1) + i]
      OBVIOUS
    <3>1. Len(w) - Len(e) + (i + 1) = Len(w) - (Len(e) - 1) + i
      BY <1>11
    <3>. QED
      BY <1>11, <2>1, <3>1
  <2>. QED
    BY <1>11, <2>2 DEF IsEnd
<1>14. EndsIt'
  <2>1. \A u \in Updating \ {t} : /\ IsEnd(job'[u].todo, job'[u].whole)
                                  /\ job'[u].op = "delete" => job'[u].todo = job'[u].whole
    BY <1>4 DEF UserInv, EndsIt, Updating
  <2>2. IsEnd(job'[t].todo, job'[t].whole) /\ job'[t].op # "delete"
    BY <1>5, <1>13
  <2>. QED
    BY <1>6, <2>1, <2>2 DEF EndsIt
<1>15. DoneIsStored'
  <2>. SUFFICES ASSUME NEW u \in Updating', job'[u].op = "save", job'[u].clean
                PROVE  keys' = Stored(Done(job'[u]))
    BY DEF DoneIsStored
  <2>1. u = t
    BY <1>10, <1>6, <1>1 DEF Alone
  <2>2. keys' = [keys EXCEPT ![k.type] = k.id]
    BY <1>5, <1>7, <2>1 DEF Save, Fails
  <2>3. keys = Stored(Done(job[t]))
    BY <1>1, <1>5, <2>1 DEF UserInv, DoneIsStored
  <2>4. Done(job[t]) = SubSeq(w, 1, n)
    BY DEF Done
  <2>5. Done(job'[t]) = SubSeq(w, 1, n + 1)
    <3>1. Len(w) - Len(Tail(e)) = n + 1
      <4>. HIDE DEF e, w
      <4>. QED
        BY <1>11
    <3>. QED
      BY <1>5, <3>1, Zenon DEF Done
  <2>. HIDE DEF w, n, k
  <2>6. SubSeq(w, 1, n) \in Seq(Keys) /\ SubSeq(w, 1, n + 1) = Append(SubSeq(w, 1, n), k)
    BY <1>11, <1>12, NextOfBeginning
  <2>7. Stored(Append(SubSeq(w, 1, n), k)) = [Stored(SubSeq(w, 1, n)) EXCEPT ![k.type] = k.id]
    BY <1>3, <2>6, StoredGrows
  <2>. QED
    BY <2>1, <2>2, <2>3, <2>4, <2>5, <2>6, <2>7, Zenon
<1>16. KeysAreOneUpdate'
  <2>1. Busy'
    BY <1>1, <1>6 DEF Busy, Updating
  <2>. QED
    BY <2>1 DEF KeysAreOneUpdate
<1>. QED
  BY <1>9, <1>10, <1>14, <1>15, <1>16 DEF UserInv

\* An update ends: if it was clean its text is what the table has.
LEMMA FinishKeeps ==
    ASSUME UserInv, NEW t \in Threads, Finish(t)
    PROVE  UserInv'
<1>1. t \in Updating /\ job[t].op = "save" /\ job[t].todo = <<>>
  BY DEF Finish, Updating
<1>2. job[t] \in Updates
  BY <1>1, UpdateIs DEF UserInv
<1>3. /\ job'[t] = NoJob
      /\ \A u \in Threads \ {t} : job'[u] = job[u]
      /\ job' = [u \in Threads |-> job'[u]]
  BY DEF Finish, UserInv, UserTyped
<1>4. Updating' = Updating \ {t}
  BY <1>3 DEF Updating, NoJob
<1>5. accepted' \in Seq(Keys) \cup {Mixed}
  BY <1>2 DEF Finish, Updates
<1>6. UserTyped'
  <2>1. \A u \in Threads : job'[u] \in {NoJob} \cup Rotations \cup Updates
    BY <1>3 DEF UserInv, UserTyped
  <2>2. job' \in [Threads -> {NoJob} \cup Rotations \cup Updates]
    BY <1>3, <2>1
  <2>. QED
    BY <1>5, <2>2 DEF UserInv, UserTyped, Finish, hostVars
<1>7. \A u \in Updating' : u \in Updating /\ job'[u] = job[u]
  BY <1>3, <1>4 DEF Updating
<1>8. Alone' /\ EndsIt'
  BY <1>7 DEF UserInv, Alone, EndsIt
<1>9. DoneIsStored'
  BY <1>7 DEF UserInv, DoneIsStored, Finish
<1>10. KeysAreOneUpdate'
  <2>. SUFFICES ASSUME accepted' # Mixed
                PROVE  keys' = Stored(accepted')
    BY DEF KeysAreOneUpdate
  <2>1. job[t].clean /\ accepted' = job[t].whole
    BY DEF Finish
  <2>2. keys = Stored(Done(job[t]))
    BY <1>1, <2>1 DEF UserInv, DoneIsStored
  <2>. DEFINE w == job[t].whole
  <2>3. Done(job[t]) = w
    <3>1. Len(job[t].todo) = 0 /\ w \in Seq(Keys)
      BY <1>1, <1>2 DEF Updates
    <3>. HIDE DEF w
    <3>2. SubSeq(w, 1, Len(w) - 0) = w
      <4>1. Len(w) \in Nat /\ Len(w) - 0 = Len(w)
        BY <3>1
      <4>2. SubSeq(w, 1, Len(w)) = w
        BY <3>1, SubSeqFull
      <4>. QED
        BY <4>1, <4>2
    <3>. QED
      BY <3>1, <3>2 DEF Done, w
  <2>. QED
    BY <2>1, <2>2, <2>3 DEF Finish
<1>. QED
  BY <1>6, <1>8, <1>9, <1>10 DEF UserInv

\* The process ends, with the updates under way.
LEMMA RestartKeeps ==
    ASSUME UserInv, Restart
    PROVE  UserInv'
<1>1. \A t \in Threads : job'[t] = NoJob
  BY DEF Restart
<1>2. Updating' = {}
  BY <1>1 DEF Updating, NoJob
<1>3. accepted' = IF Busy THEN Mixed ELSE accepted
  BY DEF Restart
<1>4. UserTyped'
  BY <1>3 DEF UserInv, UserTyped, Restart, Out
<1>5. Alone' /\ EndsIt' /\ DoneIsStored'
  BY <1>2, Zenon DEF Alone, EndsIt, DoneIsStored
<1>6. KeysAreOneUpdate'
  BY <1>3 DEF UserInv, KeysAreOneUpdate, Restart
<1>. QED
  BY <1>4, <1>5, <1>6 DEF UserInv

\* Requests for an update of the user's keys.
LEMMA UpdateSteps ==
    ASSUME UserInv,
           \/ \E a \in Admins : AdminUpdate(a)
           \/ \E s \in Sessions : WriteKeys(s) \/ RemoveKeys(s)
    PROVE  UserInv'
<1>1. ASSUME NEW a \in Admins, AdminUpdate(a) PROVE UserInv'
  <2>1. PICK text \in Documents : job[a] = NoJob /\ Begin(a, Parsed(text))
    BY <1>1 DEF AdminUpdate
  <2>2. Parsed(text) \in Seq(Keys)
    BY ParsedIs DEF Lines
  <2>3. a \in Threads /\ UNCHANGED <<userVars, hostVars, failures>>
    BY <1>1 DEF AdminUpdate, Threads
  <2>. QED
    BY <2>1, <2>2, <2>3, BeginKeeps
<1>2. ASSUME NEW s \in Sessions, WriteKeys(s) PROVE UserInv'
  <2>1. PICK new \in Documents, offset \in 0..MaxLines, cut \in BOOLEAN :
            Begin(Loop, Parsed(ApplyWrite(Rendered, new, offset, cut)))
    BY <1>2, Zenon DEF WriteKeys
  <2>2. job[Loop] = NoJob /\ UNCHANGED <<userVars, hostVars, failures>>
    BY <1>2 DEF WriteKeys, LoopFree
  <2>3. new \in Seq(Lines) /\ offset \in Nat
    BY DEF Lines
  <2>4. Rendered \in Seq(Lines)
    BY RenderedIs DEF UserInv, UserTyped
  <2>. DEFINE doc == Parsed(ApplyWrite(Rendered, new, offset, cut))
  <2>5. doc \in Seq(Keys)
    BY <2>3, <2>4, ApplyWriteIs, ParsedIs
  <2>6. Loop \in Threads
    BY DEF Threads
  <2>. HIDE DEF doc
  <2>7. Begin(Loop, doc)
    BY <2>1, Zenon DEF doc
  <2>. QED
    BY <2>2, <2>5, <2>6, <2>7, BeginKeeps
<1>3. ASSUME NEW s \in Sessions, RemoveKeys(s) PROVE UserInv'
  <2>1. /\ job[Loop] = NoJob /\ Begin(Loop, <<>>)
        /\ UNCHANGED <<userVars, hostVars, failures>>
    BY <1>3 DEF RemoveKeys, LoopFree
  <2>2. Loop \in Threads /\ <<>> \in Seq(Keys)
    BY DEF Threads
  <2>. QED
    BY <2>1, <2>2, BeginKeeps
<1>. QED
  BY <1>1, <1>2, <1>3

\* Sessions, and what is done to the host keys.
LEMMA SessionSteps ==
    ASSUME UserInv, NEW s \in Sessions,
           BeginSession(s) \/ EndSession(s) \/ OpenKeys(s) \/ CloseKeys(s)
    PROVE  UserInv'
<1>1. PICK new \in [in : BOOLEAN, reads : BOOLEAN, open : BOOLEAN] :
        session' = [session EXCEPT ![s] = new]
  <2>1. session[s] \in [in : BOOLEAN, reads : BOOLEAN, open : BOOLEAN]
    BY DEF UserInv, UserTyped
  <2>2. CASE BeginSession(s)
    BY <2>2 DEF BeginSession, MayReadKeys
  <2>3. CASE EndSession(s)
    BY <2>3 DEF EndSession, Out
  <2>4. CASE OpenKeys(s) \/ CloseKeys(s)
    <3>1. PICK b \in BOOLEAN : session' = [session EXCEPT ![s].open = b]
      BY <2>4 DEF OpenKeys, CloseKeys
    <3>. QED
      BY <2>1, <3>1
  <2>. QED
    BY <2>2, <2>3, <2>4
<1>2. UNCHANGED <<keys, editable, accepted, job, hostVars, failures>>
  BY DEF BeginSession, EndSession, OpenKeys, CloseKeys
<1>3. UserTyped'
  BY <1>1, <1>2 DEF UserInv, UserTyped, hostVars
<1>. QED
  BY <1>2, <1>3, OtherSteps DEF Updating

LEMMA MadeIs == ASSUME NEW t, SaveHost(t), UserTyped, HInv
                PROVE  made' <= MaxMade /\ failures' \in 0..MaxFailures
BY DEF SaveHost, Succeeds, Fails, UserTyped, HInv, HostTyped

LEMMA HostSteps ==
    ASSUME UserInv, HInv,
           \/ \E a \in Admins :
                GenerateHost(a) \/ DeleteHost(a) \/ BeginRotation(a) \/ RotateNext(a)
           \/ BeginLoading \/ LookForHost \/ MakeHost \/ LookAgain
    PROVE  UserInv'
<1>0. UserTyped /\ job \in [Threads -> {NoJob} \cup Rotations \cup Updates]
  BY DEF UserInv, UserTyped
<1>1. UNCHANGED userVars
  BY DEF GenerateHost, DeleteHost, BeginRotation, RotateNext,
         BeginLoading, LookForHost, MakeHost, LookAgain
<1>2. made' <= MaxMade /\ failures' \in 0..MaxFailures
  <2>1. UserTyped /\ made <= MaxMade /\ failures \in 0..MaxFailures
    BY DEF UserInv, UserTyped
  <2>2. ASSUME Succeeds \/ Fails PROVE failures' \in 0..MaxFailures
    BY <2>1, <2>2 DEF Succeeds, Fails
  <2>3. ASSUME NEW a \in Admins, GenerateHost(a) \/ RotateNext(a)
        PROVE  \E t : SaveHost(t)
    BY <2>3, Zenon DEF GenerateHost, RotateNext
  <2>4. CASE \E t : SaveHost(t)
    BY <2>1, <2>4, MadeIs
  <2>5. ASSUME NEW a \in Admins, DeleteHost(a) \/ BeginRotation(a)
        PROVE  UNCHANGED <<made, failures>>
    BY <2>5 DEF DeleteHost, BeginRotation, hostVars
  <2>6. CASE BeginLoading
    BY <2>1, <2>6 DEF BeginLoading
  <2>7. CASE LookForHost
    BY <2>1, <2>2, <2>7 DEF LookForHost
  <2>8. CASE MakeHost
    BY <2>4, <2>8 DEF MakeHost
  <2>9. CASE LookAgain
    BY <2>1, <2>2, <2>9 DEF LookAgain
  <2>. QED
    BY <2>1, <2>3, <2>4, <2>5, <2>6, <2>7, <2>8, <2>9
<1>3. renewed' \subseteq HostNames
  <2>1. renewed \subseteq HostNames
    BY DEF UserInv, UserTyped
  <2>2. CASE (loading.todo # <<>> /\ LookForHost) \/ LookAgain
    <3>1. Head(loading.todo) \in HostNames
      BY <2>2 DEF LookAgain, HInv, HostTyped
    <3>2. \/ renewed' = renewed
          \/ renewed' = renewed \cup {Head(loading.todo)}
          \/ renewed' = renewed \ {Head(loading.todo)}
      BY <2>2 DEF LookForHost, LookAgain, Serve
    <3>. QED
      BY <2>1, <3>1, <3>2
  <2>3. CASE BeginLoading \/ MakeHost
    BY <2>1, <2>3 DEF BeginLoading, MakeHost
  <2>4. ASSUME NEW a \in Admins, GenerateHost(a) \/ DeleteHost(a) \/ BeginRotation(a)
        PROVE  renewed' \subseteq HostNames
    BY <2>1, <2>4 DEF GenerateHost, DeleteHost, BeginRotation, hostVars
  <2>5. ASSUME NEW a \in Admins, RotateNext(a)
        PROVE  renewed' \subseteq HostNames
    <3>1. a \in Threads /\ job[a].op = "rotate"
      BY <2>5 DEF RotateNext, Threads
    <3>2. job[a] \in Rotations
      BY <1>0, <3>1, RotationIs, Zenon
    <3>. DEFINE todo == job[a].todo
    <3>3. Head(todo) \in HostNames
      <4>1. todo \in Seq(HostNames) /\ todo # <<>>
        BY <3>2 DEF Rotations
      <4>. HIDE DEF todo
      <4>. QED
        BY <4>1
    <3>. QED
      BY <2>1, <2>5, <3>3 DEF RotateNext
  <2>. QED
    BY <2>2, <2>3, <2>4, <2>5 DEF LookForHost
<1>4. \/ job' = job
      \/ \E a \in Threads, j \in {NoJob} \cup Rotations :
            a \notin Updating /\ job' = [job EXCEPT ![a] = j]
  <2>1. ASSUME NEW a \in Admins, BeginRotation(a)
        PROVE  /\ a \in Threads /\ a \notin Updating
               /\ \E j \in {NoJob} \cup Rotations : job' = [job EXCEPT ![a] = j]
    <3>. DEFINE j == [NoJob EXCEPT !.op = "rotate", !.todo = HostTypes]
    <3>1. job' = [job EXCEPT ![a] = j] /\ job[a] = NoJob
      BY <2>1 DEF BeginRotation
    <3>2. j \in Rotations
      BY HostTypesTyped DEF NoJob, Rotations
    <3>. HIDE DEF j
    <3>3. a \in Threads /\ a \notin Updating
      BY <3>1 DEF Threads, Updating, NoJob
    <3>. QED
      BY <3>1, <3>2, <3>3
  <2>2. ASSUME NEW a \in Admins, RotateNext(a)
        PROVE  /\ a \in Threads /\ a \notin Updating
               /\ \E j \in {NoJob} \cup Rotations : job' = [job EXCEPT ![a] = j]
    <3>. DEFINE j == IF Tail(job[a].todo) = <<>> THEN NoJob
                     ELSE [job[a] EXCEPT !.todo = Tail(job[a].todo)]
    <3>1. a \in Threads /\ job[a].op = "rotate"
      BY <2>2 DEF RotateNext, Threads
    <3>2. job[a] \in Rotations
      BY <1>0, <3>1, RotationIs, Zenon
    <3>3. job' = [job EXCEPT ![a] = j]
      BY <1>0, <2>2, <3>1 DEF RotateNext
    <3>4. j \in {NoJob} \cup Rotations
      <4>. DEFINE r == job[a]
      <4>1. r \in Rotations
        BY <3>2
      <4>. HIDE DEF r
      <4>2. Tail(r.todo) # <<>> => [r EXCEPT !.todo = Tail(r.todo)] \in Rotations
        <5>1. r.todo \in Seq(HostNames) /\ r.todo # <<>>
          BY <4>1 DEF Rotations
        <5>2. Tail(r.todo) \in Seq(HostNames)
          BY <5>1
        <5>. QED
          BY <4>1, <5>2 DEF Rotations
      <4>. QED
        BY <4>2 DEF r
    <3>. HIDE DEF j
    <3>. QED
      BY <3>1, <3>3, <3>4 DEF Updating
  <2>. QED
    BY <2>1, <2>2 DEF GenerateHost, DeleteHost, BeginLoading, LookForHost, MakeHost, LookAgain
<1>5. \/ job' = job
      \/ \E a \in Threads : a \notin Updating /\ a \notin Updating'
                            /\ \A t \in Threads \ {a} : job'[t] = job[t]
  <2>. SUFFICES ASSUME NEW a \in Threads, NEW j \in {NoJob} \cup Rotations,
                       a \notin Updating, job' = [job EXCEPT ![a] = j]
                PROVE  /\ a \notin Updating'
                       /\ \A t \in Threads \ {a} : job'[t] = job[t]
    BY <1>4
  <2>1. job'[a] = j
    BY <1>0
  <2>2. j.op \notin {"delete", "save"}
    <3>1. NoJob.op \notin {"delete", "save"}
      BY DEF NoJob
    <3>2. \A r \in Rotations : r.op \notin {"delete", "save"}
      BY DEF Rotations
    <3>. QED
      BY <3>1, <3>2
  <2>. QED
    BY <1>0, <2>1, <2>2 DEF Updating
<1>6. Updating' = Updating /\ \A t \in Updating : job'[t] = job[t]
  BY <1>5 DEF Updating
<1>7. job' \in [Threads -> {NoJob} \cup Rotations \cup Updates]
  BY <1>4 DEF UserInv, UserTyped
<1>8. UserTyped'
  BY <1>1, <1>2, <1>3, <1>7 DEF UserInv, UserTyped, userVars
<1>. QED
  BY <1>1, <1>6, <1>8, OtherSteps DEF userVars

LEMMA UserNext ==
    ASSUME UserInv, HInv, [SshNext]_sshVars
    PROVE  UserInv'
<1>1. ASSUME NEW t \in Threads, DeleteAll(t) \/ Save(t) \/ Finish(t)
      PROVE  UserInv'
  BY <1>1, DeleteAllKeeps, SaveKeeps, FinishKeeps
<1>2. CASE \/ \E a \in Admins : AdminUpdate(a)
           \/ \E s \in Sessions : WriteKeys(s) \/ RemoveKeys(s)
  BY <1>2, UpdateSteps
<1>3. ASSUME NEW s \in Sessions,
             BeginSession(s) \/ EndSession(s) \/ OpenKeys(s) \/ CloseKeys(s)
      PROVE  UserInv'
  BY <1>3, SessionSteps
<1>4. CASE \/ \E a \in Admins :
                GenerateHost(a) \/ DeleteHost(a) \/ BeginRotation(a) \/ RotateNext(a)
           \/ BeginLoading \/ LookForHost \/ MakeHost \/ LookAgain
  BY <1>4, HostSteps
<1>5. CASE Restart
  BY <1>5, RestartKeeps
<1>6. CASE UNCHANGED sshVars
  <2>1. UserTyped'
    BY <1>6 DEF UserInv, UserTyped, sshVars, userVars, hostVars
  <2>. QED
    BY <1>6, <2>1, OtherSteps DEF sshVars, userVars, Updating
<1>. QED
  BY <1>1, <1>2, <1>3, <1>4, <1>5, <1>6 DEF SshNext

LEMMA UserInvariant == SshSpec => [](UserInv /\ HInv)
BY HostInit, UserInit, HostNext, UserNext, PTL DEF SshSpec

LEMMA SshTyped == UserInv /\ HInv => SshTypeOK
<1>. SUFFICES ASSUME UserInv, HInv PROVE SshTypeOK
  OBVIOUS
<1>1. ASSUME NEW t \in Threads
      PROVE  /\ job[t].op \in {"none", "delete", "save", "rotate"}
             /\ job[t].op = "rotate" => job[t].todo \in Seq(HostNames) /\ job[t].todo # <<>>
             /\ job[t].op # "rotate" => job[t].todo \in Seq(Keys) /\ job[t].whole \in Seq(Keys)
  <2>. DEFINE j == job[t]
  <2>1. j \in {NoJob} \cup Rotations \cup Updates
    BY DEF UserInv, UserTyped
  <2>. HIDE DEF j
  <2>2. CASE j = NoJob
    BY <2>2 DEF NoJob, j
  <2>3. CASE j \in Rotations
    <3>1. j.op = "rotate" /\ j.todo \in Seq(HostNames) /\ j.todo # <<>>
      BY <2>3 DEF Rotations
    <3>. QED
      BY <3>1 DEF j
  <2>4. CASE j \in Updates
    <3>1. j.op \in {"delete", "save"} /\ j.todo \in Seq(Keys) /\ j.whole \in Seq(Keys)
      BY <2>4 DEF Updates
    <3>. QED
      BY <3>1 DEF j
  <2>. QED
    BY <2>1, <2>2, <2>3, <2>4
<1>2. /\ keys \in [Types -> Ids \cup {"none"}]
      /\ editable \in BOOLEAN
      /\ session \in [Sessions -> [in : BOOLEAN, reads : BOOLEAN, open : BOOLEAN]]
      /\ accepted \in Seq(Keys) \cup {Mixed}
      /\ failures <= MaxFailures /\ made <= MaxMade
      /\ renewed \subseteq HostNames
  BY DEF UserInv, UserTyped
<1>3. /\ host \in [HostNames -> 0..made] /\ served \in [HostNames -> 0..made]
      /\ loading.todo \in Seq(HostNames)
  BY DEF HInv, HostTyped
<1>. QED
  BY <1>1, <1>2, <1>3, Zenon DEF SshTypeOK

\* The types of the SSH keys' state, over any number of administrators and
\* sessions (credentials.py, ftp.py).
THEOREM SshTypeCorrect == SshSpec => []SshTypeOK
BY UserInvariant, SshTyped, PTL

\* When no update is under way the table holds the keys of the last text that
\* was accepted, whatever texts are sent: only overlapping updates, a failed
\* statement or a crash inside one leave keys that nobody sent together
\* (update_authorized_keys_text, _update_authorized_keys_from_content).
THEOREM KeysAreFromOneUpdate == SshSpec => []KeysAreOneUpdate
<1>1. UserInv => KeysAreOneUpdate
  BY DEF UserInv
<1>. QED
  BY <1>1, UserInvariant, PTL
=============================================================================
