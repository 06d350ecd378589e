----------------------------- MODULE MailboxProofs -----------------------------
(***************************************************************************)
(* Theorems about the mailboxes of phase 2, for any number of processes,   *)
(* mailboxes, slots and messages.  The mail is kept in lists linked        *)
(* through the message slots, so the invariant, Slotted, says that there   *)
(* is a list of slots for every mailbox, that no slot is in two places,    *)
(* and what a process in the middle of a call knows of them.  It holds as  *)
(* long as no handler sends while a process is in a call (Uninterrupted):  *)
(* with such an interrupt two senders can be given one slot.  From it      *)
(* follow Accounting, PoolSound, and that the mailboxes are the queues of  *)
(* MailQueue.                                                              *)
(* The second half is about the processes that wait in the two queues of a *)
(* mailbox, when one receives, or one sends: NoLostReceiver, NoLostSender, *)
(* ReleaseWakesAll, SentinelKnows and NoCrash.  The steps are sorted by    *)
(* what they do to the queues (WaitStep), then come the invariants         *)
(* WaitSound, WaitExact and NeverCrashes, each over the one before.        *)
(***************************************************************************)
EXTENDS MailboxProperties, FiniteSetTheorems, SequenceTheorems,
        WellFoundedInduction, TLAPS

-----------------------------------------------------------------------------
(* Lists linked through the message slots *)

\* The lists of all mailboxes: L[b] is that of b, and begins at head[b].  No slot
\* is in two places.
Chains(L, head, next) ==
    /\ L \in [Mbs -> Seq(Slots)]
    /\ \A b \in Mbs : head[b] = IF L[b] = <<>> THEN NULL ELSE L[b][1]
    /\ \A b \in Mbs : \A i \in 1 .. Len(L[b]) :
            next[L[b][i]] = IF i = Len(L[b]) THEN NULL ELSE L[b][i + 1]
    /\ \A a, b \in Mbs : \A i \in 1 .. Len(L[a]), j \in 1 .. Len(L[b]) :
            L[a][i] = L[b][j] => a = b /\ i = j

InList(s, list) == \E i \in 1 .. Len(list) : list[i] = s

\* A set of natural numbers that is not empty has a least element.
LEMMA Least ==
    ASSUME NEW T \in SUBSET Nat, T # {}
    PROVE  \E x \in T : \A y \in T : x <= y
<1> DEFINE R == {r \in Nat \X Nat : r[1] < r[2]}
<1>1. R = OpToRel(<, Nat)
  BY DEF OpToRel
<1>2. IsWellFoundedOn(R, Nat)
  BY <1>1, NatLessThanWellFounded
<1>3. PICK x \in T : \A y \in T : ~ (<<y, x>> \in R)
  BY <1>2, WFMin
<1>4. ASSUME NEW y \in T, ~(x <= y)
      PROVE  <<y, x>> \in R
  BY <1>4
<1> QED
  BY <1>3, <1>4

\* There are as many slots as there are numbers up to MAXSLOTS.
LEMMA SlotsFinite ==
    /\ MAXSLOTS \in Nat \ {0} /\ NULL \notin Slots
    /\ IsFiniteSet(Slots) /\ Cardinality(Slots) = MAXSLOTS
<1>1. MAXSLOTS \in Nat \ {0} /\ 1 \in Int /\ MAXSLOTS \in Int
  BY MailboxAssumption
<1>2. IsFiniteSet(1 .. MAXSLOTS) /\ Cardinality(1 .. MAXSLOTS) = MAXSLOTS
  BY <1>1, FS_Interval
<1> QED
  BY <1>1, <1>2 DEF Slots, NULL

\* A list in which no slot comes twice is no longer than the table.
LEMMA ListFits ==
    ASSUME NEW list \in Seq(Slots),
           \A i, j \in 1 .. Len(list) : list[i] = list[j] => i = j
    PROVE  /\ Len(list) <= MAXSLOTS
           /\ Cardinality({list[i] : i \in 1 .. Len(list)}) = Len(list)
<1>1. /\ Len(list) \in Nat /\ list \in [1 .. Len(list) -> Slots]
  BY LenProperties
<1>2. IsFiniteSet(1 .. Len(list)) /\ Cardinality(1 .. Len(list)) = Len(list)
  BY <1>1, FS_Interval
<1>3. list \in Injection(1 .. Len(list), Slots)
  BY <1>1 DEF Injection, IsInjective
<1>4. Cardinality(1 .. Len(list)) <= Cardinality(Slots)
  BY <1>3, SlotsFinite, FS_Injection
<1> DEFINE T == {list[i] : i \in 1 .. Len(list)}
<1>5. list \in Bijection(1 .. Len(list), T)
  <2>1. list \in [1 .. Len(list) -> T]
    BY <1>1
  <2>2. \A t \in T : \E i \in 1 .. Len(list) : list[i] = t
    OBVIOUS
  <2> QED
    BY <2>1, <2>2 DEF Bijection, Injection, Surjection, IsInjective
<1>6. Cardinality(T) = Cardinality(1 .. Len(list))
  BY <1>2, <1>5, FS_Bijection DEF ExistsBijection
<1> QED
  BY <1>2, <1>4, <1>6, SlotsFinite

\* Where a walk along a list is after k steps.
LEMMA PathIs ==
    ASSUME NEW next \in [Slots -> Slots \cup {NULL}], NEW list \in Seq(Slots),
           Len(list) <= MAXSLOTS,
           \A i \in 1 .. Len(list) :
              next[list[i]] = IF i = Len(list) THEN NULL ELSE list[i + 1]
    PROVE  Path(next, IF list = <<>> THEN NULL ELSE list[1])
              = [k \in 0 .. MAXSLOTS |-> IF k < Len(list) THEN list[k + 1] ELSE NULL]
<1> DEFINE h == IF list = <<>> THEN NULL ELSE list[1]
           step == [x \in DOMAIN next \cup {NULL} |-> IF x = NULL THEN NULL ELSE next[x]]
           g == [k \in 0 .. MAXSLOTS |-> IF k < Len(list) THEN list[k + 1] ELSE NULL]
           Walks(f) == f = [k \in 0 .. MAXSLOTS |-> IF k = 0 THEN h ELSE step[f[k - 1]]]
<1>1. PICK n \in Nat : n = Len(list)
  BY LenProperties
<1>2. DOMAIN next = Slots /\ Cardinality(DOMAIN next) = MAXSLOTS
  BY SlotsFinite
<1>3. \A i \in 1 .. n : list[i] \in Slots /\ list[i] # NULL
  BY <1>1, ElementOfSeq, SlotsFinite
<1>4. list = <<>> <=> n = 0
  BY <1>1, EmptySeq
<1>5. ASSUME NEW k \in 0 .. MAXSLOTS
      PROVE  g[k] = IF k = 0 THEN h ELSE step[g[k - 1]]
  <2>1. CASE k = 0
    BY <1>1, <1>4, <2>1, SlotsFinite
  <2>2. CASE k # 0 /\ k < n
    <3>1. k \in 1 .. n /\ k - 1 < n /\ k - 1 \in 0 .. MAXSLOTS /\ k # n
      BY <1>1, <2>2, SlotsFinite
    <3>2. g[k - 1] = list[k] /\ g[k] = list[k + 1]
      BY <1>1, <2>2, <3>1
    <3>3. step[list[k]] = list[k + 1]
      BY <1>1, <1>2, <1>3, <3>1
    <3> QED
      BY <2>2, <3>2, <3>3
  <2>3. CASE k # 0 /\ k = n
    <3>1. k \in 1 .. n /\ k - 1 < n /\ k - 1 \in 0 .. MAXSLOTS
      BY <1>1, <2>3, SlotsFinite
    <3>2. g[k - 1] = list[k] /\ g[k] = NULL
      BY <1>1, <2>3, <3>1
    <3>3. step[list[k]] = NULL
      BY <1>1, <1>2, <1>3, <2>3, <3>1
    <3> QED
      BY <2>3, <3>2, <3>3
  <2>4. CASE k # 0 /\ k > n
    <3>1. k - 1 \in 0 .. MAXSLOTS /\ ~(k - 1 < n) /\ ~(k < n)
      BY <1>1, <2>4, SlotsFinite
    <3>2. g[k - 1] = NULL /\ g[k] = NULL
      BY <1>1, <3>1
    <3> QED
      BY <2>4, <3>2
  <2> QED
    BY <1>1, <2>1, <2>2, <2>3, <2>4
<1>6. Walks(g)
  BY <1>5
<1>7. ASSUME NEW f, Walks(f)
      PROVE  f = g
  <2> DEFINE Bad == {k \in 0 .. MAXSLOTS : f[k] # g[k]}
  <2>1. CASE Bad = {}
    BY <1>7, <2>1
  <2>2. CASE Bad # {}
    <3>1. PICK k \in Bad : \A j \in Bad : k <= j
      <4>1. Bad \in SUBSET Nat
        OBVIOUS
      <4> HIDE DEF Bad
      <4> QED
        BY <2>2, <4>1, Least
    <3>2. k \in 0 .. MAXSLOTS /\ f[k] # g[k]
      BY <3>1
    <3>3. f[k] = IF k = 0 THEN h ELSE step[f[k - 1]]
      BY <1>7, <3>2
    <3>4. CASE k = 0
      BY <1>5, <3>2, <3>3, <3>4
    <3>5. CASE k # 0
      <4>1. k - 1 \in 0 .. MAXSLOTS /\ ~(k <= k - 1)
        BY <3>2, <3>5, SlotsFinite
      <4>2. f[k - 1] = g[k - 1]
        BY <3>1, <4>1
      <4>3. g[k] = step[g[k - 1]]
        BY <1>5, <3>2, <3>5
      <4> HIDE DEF g, step
      <4> QED
        BY <3>2, <3>3, <3>5, <4>2, <4>3
    <3> QED
      BY <3>4, <3>5
  <2> QED
    BY <2>1, <2>2
<1>8. Path(next, h) = CHOOSE f : Walks(f)
  BY <1>2 DEF Path
<1>9. Walks(CHOOSE f : Walks(f))
  <2> HIDE DEF Walks
  <2> QED
    BY <1>6
<1>10. Path(next, h) = g
  <2> HIDE DEF Walks, g, h
  <2> QED
    BY <1>7, <1>8, <1>9
<1> QED
  BY <1>10

\* What the walks of the code along the lists find.
LEMMA ListsFound ==
    ASSUME NEW L, NEW head, NEW next \in [Slots -> Slots \cup {NULL}],
           Chains(L, head, next), NEW b \in Mbs
    PROVE  /\ Len(L[b]) \in 0 .. MAXSLOTS
           /\ \A k \in 0 .. MAXSLOTS : Path(next, head[b])[k]
                = IF k < Len(L[b]) THEN L[b][k + 1] ELSE NULL
           /\ \A x : x \in Reach(next, head[b]) <=> InList(x, L[b])
           /\ Cardinality(Reach(next, head[b])) = Len(L[b])
           /\ L[b] # <<>> => Tails(next, head[b]) = {L[b][Len(L[b])]}
<1> DEFINE list == L[b]
           path == [k \in 0 .. MAXSLOTS |-> IF k < Len(list) THEN list[k + 1] ELSE NULL]
<1>1. /\ list \in Seq(Slots)
      /\ head[b] = IF list = <<>> THEN NULL ELSE list[1]
      /\ \A i \in 1 .. Len(list) :
            next[list[i]] = IF i = Len(list) THEN NULL ELSE list[i + 1]
      /\ \A i, j \in 1 .. Len(list) : list[i] = list[j] => i = j
  BY DEF Chains
<1>2. /\ Len(list) <= MAXSLOTS
      /\ Cardinality({list[i] : i \in 1 .. Len(list)}) = Len(list)
  BY <1>1, ListFits
<1> HIDE DEF list
<1>3. Path(next, head[b]) = path
  <2>1. Path(next, IF list = <<>> THEN NULL ELSE list[1]) = path
    BY <1>1, <1>2, PathIs
  <2> QED
    BY <1>1, <2>1
<1>4. PICK n \in Nat : n = Len(list)
  BY <1>1, LenProperties
<1>5. \A i \in 1 .. n : list[i] \in Slots /\ list[i] # NULL
  BY <1>1, <1>4, ElementOfSeq, SlotsFinite
<1>6. Reach(next, head[b]) = {list[i] : i \in 1 .. Len(list)}
  <2>1. Reach(next, head[b]) = {path[k] : k \in 0 .. MAXSLOTS} \ {NULL}
    BY <1>3 DEF Reach
  <2>2. ASSUME NEW x \in {path[k] : k \in 0 .. MAXSLOTS} \ {NULL}
        PROVE  x \in {list[i] : i \in 1 .. Len(list)}
    <3>1. PICK k \in 0 .. MAXSLOTS : x = IF k < n THEN list[k + 1] ELSE NULL
      BY <1>4
    <3>2. k < n /\ x = list[k + 1] /\ k + 1 \in 1 .. n
      BY <1>4, <3>1
    <3> QED
      BY <1>4, <3>2
  <2>3. ASSUME NEW x \in {list[i] : i \in 1 .. Len(list)}
        PROVE  x \in {path[k] : k \in 0 .. MAXSLOTS} \ {NULL}
    <3>1. PICK i \in 1 .. n : x = list[i]
      BY <1>4
    <3>2. i - 1 \in 0 .. MAXSLOTS /\ i - 1 < n /\ (i - 1) + 1 = i
      <4>1. n <= MAXSLOTS /\ MAXSLOTS \in Nat
        BY <1>2, <1>4, SlotsFinite
      <4> QED
        BY <4>1
    <3>3. path[i - 1] = list[i]
      BY <1>4, <3>2
    <3> QED
      BY <1>5, <3>1, <3>2, <3>3
  <2> QED
    BY <2>1, <2>2, <2>3
<1>7. ASSUME list # <<>>
      PROVE  Tails(next, head[b]) = {list[Len(list)]}
  <2>1. n \in 1 .. n
    BY <1>1, <1>4, <1>7, EmptySeq
  <2>2. \A i \in 1 .. n : next[list[i]] = NULL <=> i = n
    <3>1. ASSUME NEW i \in 1 .. n, i # n
          PROVE  i + 1 \in 1 .. n
      BY <3>1
    <3> QED
      BY <1>1, <1>4, <1>5, <3>1
  <2> QED
    BY <1>4, <1>6, <2>1, <2>2 DEF Tails
<1>8. \A x : x \in Reach(next, head[b]) <=> InList(x, list)
  BY <1>6 DEF InList
<1>9. \A k \in 0 .. MAXSLOTS :
          Path(next, head[b])[k] = IF k < Len(list) THEN list[k + 1] ELSE NULL
  BY <1>3
<1>10. Len(list) \in 0 .. MAXSLOTS /\ Cardinality(Reach(next, head[b])) = Len(list)
  <2>1. Len(list) \in 0 .. MAXSLOTS
    <3>1. n <= MAXSLOTS /\ MAXSLOTS \in Nat
      BY <1>2, <1>4, SlotsFinite
    <3> QED
      BY <1>4, <3>1
  <2>2. Cardinality(Reach(next, head[b])) = Cardinality({list[i] : i \in 1 .. Len(list)})
    BY <1>6
  <2> QED
    BY <1>2, <2>1, <2>2
<1> QED
  BY <1>7, <1>8, <1>9, <1>10 DEF list

\* A slot that is in no list goes behind the tail of b's.
Appended(L, head, next, b, m, L1, head1, next1) ==
    /\ \A a \in Mbs : ~InList(m, L[a])
    /\ L1 = [L EXCEPT ![b] = Append(L[b], m)]
    /\ head1[b] = IF L[b] = <<>> THEN m ELSE head[b]
    /\ \A a \in Mbs \ {b} : head1[a] = head[a]
    /\ next1[m] = NULL
    /\ L[b] # <<>> => next1[L[b][Len(L[b])]] = m
    /\ \A s \in Slots \ {m} :
          L[b] = <<>> \/ s # L[b][Len(L[b])] => next1[s] = next[s]

\* A slot outside every list, linked behind the last of b's, lengthens that list
\* and no other.
LEMMA ChainsAppend ==
    ASSUME NEW L, NEW head, NEW next, Chains(L, head, next),
           NEW b \in Mbs, NEW m \in Slots, NEW L1, NEW head1, NEW next1,
           Appended(L, head, next, b, m, L1, head1, next1)
    PROVE  Chains(L1, head1, next1)
<1> USE DEF Appended
<1>1. L \in [Mbs -> Seq(Slots)]
  BY DEF Chains
<1>2. PICK n \in Nat : n = Len(L[b])
  BY <1>1, LenProperties
<1>3. L[b] = <<>> <=> n = 0
  BY <1>1, <1>2, EmptySeq
<1>4. /\ L1 \in [Mbs -> Seq(Slots)]
      /\ \A a \in Mbs \ {b} : L1[a] = L[a]
      /\ L1[b] # <<>> /\ Len(L1[b]) = n + 1
      /\ \A i \in 1 .. n : L1[b][i] = L[b][i]
      /\ L1[b][n + 1] = m
  BY <1>1, <1>2, AppendProperties
<1>5. \A a \in Mbs : \A i \in 1 .. Len(L[a]) : L[a][i] \in Slots \ {m}
  BY <1>1, ElementOfSeq DEF InList
<1>6. \A a \in Mbs : head1[a] = IF L1[a] = <<>> THEN NULL ELSE L1[a][1]
  <2>1. head1[b] = L1[b][1]
    <3>1. CASE n = 0
      BY <1>3, <1>4, <3>1
    <3>2. CASE n # 0
      BY <1>3, <1>4, <3>2 DEF Chains
    <3> QED
      BY <3>1, <3>2
  <2> QED
    BY <1>4, <2>1 DEF Chains
<1>7. ASSUME NEW a \in Mbs, NEW i \in 1 .. Len(L1[a])
      PROVE  next1[L1[a][i]] = IF i = Len(L1[a]) THEN NULL ELSE L1[a][i + 1]
  <2>1. CASE a # b
    <3>1. L[a][i] \in Slots \ {m} /\ i \in 1 .. Len(L[a])
      BY <1>4, <1>5, <2>1
    <3>2. L[b] = <<>> \/ L[a][i] # L[b][Len(L[b])]
      <4>1. n # 0 => Len(L[b]) \in 1 .. Len(L[b])
        BY <1>2
      <4> QED
        BY <1>3, <2>1, <3>1, <4>1 DEF Chains
    <3> QED
      BY <1>4, <2>1, <3>1, <3>2 DEF Chains
  <2>2. CASE a = b /\ i \in 1 .. n /\ i # n
    <3>1. /\ i \in 1 .. Len(L[b]) /\ i # Len(L[b]) /\ i + 1 \in 1 .. n
          /\ Len(L[b]) \in 1 .. Len(L[b]) /\ i # n + 1
      BY <1>2, <2>2
    <3>2. L[b][i] # L[b][Len(L[b])] /\ next[L[b][i]] = L[b][i + 1]
      BY <3>1 DEF Chains
    <3>3. next1[L[b][i]] = next[L[b][i]]
      BY <1>5, <3>1, <3>2
    <3> QED
      BY <1>4, <2>2, <3>1, <3>2, <3>3
  <2>3. CASE a = b /\ i = n /\ n # 0
    <3>1. i \in 1 .. n /\ i # n + 1
      BY <2>3
    <3> QED
      BY <1>2, <1>3, <1>4, <2>3, <3>1
  <2>4. CASE a = b /\ i = n + 1
    BY <1>4, <2>4
  <2> QED
    BY <1>4, <2>1, <2>2, <2>3, <2>4
<1>8. ASSUME NEW a \in Mbs, NEW c \in Mbs, NEW i \in 1 .. Len(L1[a]),
             NEW j \in 1 .. Len(L1[c]), L1[a][i] = L1[c][j]
      PROVE  a = c /\ i = j
  <2>1. ASSUME NEW x \in Mbs, NEW k \in 1 .. Len(L1[x])
        PROVE  \/ x = b /\ k = n + 1
               \/ k \in 1 .. Len(L[x]) /\ L1[x][k] = L[x][k]
    <3>1. CASE x # b
      BY <1>4, <3>1
    <3>2. CASE x = b
      <4>1. k \in 1 .. n + 1
        BY <1>4, <3>2
      <4> QED
        BY <1>2, <1>4, <3>2, <4>1
    <3> QED
      BY <3>1, <3>2
  <2>2. /\ (a = b /\ i = n + 1) \/ (i \in 1 .. Len(L[a]) /\ L1[a][i] = L[a][i])
        /\ (c = b /\ j = n + 1) \/ (j \in 1 .. Len(L[c]) /\ L1[c][j] = L[c][j])
    BY <2>1
  <2> QED
    BY <1>4, <1>5, <1>8, <2>2 DEF Chains
<1> QED
  BY <1>4, <1>6, <1>7, <1>8 DEF Chains

\* L1 is L without the first slot of b.
Shortened(L, b, L1) == L1 = [L EXCEPT ![b] = Tail(L[b])]

\* The first slot leaves the list of b.
LEMMA ChainsPop ==
    ASSUME NEW L, NEW head, NEW next, Chains(L, head, next),
           NEW b \in Mbs, L[b] # <<>>, NEW head1, head1[b] = next[L[b][1]],
           \A a \in Mbs \ {b} : head1[a] = head[a],
           NEW L1, Shortened(L, b, L1)
    PROVE  Chains(L1, head1, next)
<1> USE DEF Shortened
<1>1. L \in [Mbs -> Seq(Slots)]
  BY DEF Chains
<1>2. PICK n \in Nat : n = Len(L[b])
  BY <1>1, LenProperties
<1>3. n # 0 /\ n - 1 \in Nat
  BY <1>1, <1>2, EmptySeq
<1>4. /\ L1 \in [Mbs -> Seq(Slots)]
      /\ \A a \in Mbs \ {b} : L1[a] = L[a]
      /\ Len(L1[b]) = n - 1
      /\ \A i \in 1 .. n - 1 : L1[b][i] = L[b][i + 1]
  BY <1>1, <1>2, HeadTailProperties
<1>5. L1[b] = <<>> <=> n = 1
  <2>1. L1[b] \in Seq(Slots) /\ (n - 1 = 0 <=> n = 1)
    BY <1>3, <1>4
  <2> QED
    BY <1>4, <2>1, EmptySeq
<1>6. \A a \in Mbs : head1[a] = IF L1[a] = <<>> THEN NULL ELSE L1[a][1]
  <2>1. head1[b] = IF n = 1 THEN NULL ELSE L[b][2]
    BY <1>2, <1>3 DEF Chains
  <2>2. n # 1 => L1[b][1] = L[b][2]
    BY <1>3, <1>4
  <2> QED
    BY <1>4, <1>5, <2>1, <2>2 DEF Chains
<1>7. ASSUME NEW a \in Mbs, NEW i \in 1 .. Len(L1[a])
      PROVE  next[L1[a][i]] = IF i = Len(L1[a]) THEN NULL ELSE L1[a][i + 1]
  <2>1. CASE a # b
    BY <1>4, <2>1 DEF Chains
  <2>2. CASE a = b
    <3>1. /\ i \in 1 .. n - 1 /\ i + 1 \in 1 .. Len(L[b])
          /\ i = n - 1 <=> i + 1 = Len(L[b])
      BY <1>2, <1>3, <1>4, <2>2
    <3>2. next[L[b][i + 1]] = IF i + 1 = Len(L[b]) THEN NULL ELSE L[b][(i + 1) + 1]
      BY <3>1 DEF Chains
    <3>3. i # n - 1 => L1[b][i + 1] = L[b][(i + 1) + 1]
      <4>1. i # n - 1 => i + 1 \in 1 .. n - 1
        BY <1>3, <3>1
      <4> QED
        BY <1>4, <4>1
    <3> QED
      BY <1>4, <2>2, <3>1, <3>2, <3>3
  <2> QED
    BY <2>1, <2>2
<1>8. ASSUME NEW a \in Mbs, NEW c \in Mbs, NEW i \in 1 .. Len(L1[a]),
             NEW j \in 1 .. Len(L1[c]), L1[a][i] = L1[c][j]
      PROVE  a = c /\ i = j
  <2>1. ASSUME NEW x \in Mbs, NEW k \in 1 .. Len(L1[x])
        PROVE  \E l \in 1 .. Len(L[x]) :
                  L1[x][k] = L[x][l] /\ l = IF x = b THEN k + 1 ELSE k
    <3>1. CASE x # b
      BY <1>4, <3>1
    <3>2. CASE x = b
      <4>1. k \in 1 .. n - 1 /\ k + 1 \in 1 .. Len(L[b])
        BY <1>2, <1>3, <1>4, <3>2
      <4> QED
        BY <1>4, <3>2, <4>1
    <3> QED
      BY <3>1, <3>2
  <2>2. PICK k \in 1 .. Len(L[a]) : L1[a][i] = L[a][k] /\ k = IF a = b THEN i + 1 ELSE i
    BY <2>1
  <2>3. PICK l \in 1 .. Len(L[c]) : L1[c][j] = L[c][l] /\ l = IF c = b THEN j + 1 ELSE j
    BY <2>1
  <2>4. L[a][k] = L[c][l]
    BY <1>8, <2>2, <2>3
  <2>5. a = c /\ k = l
    BY <2>4 DEF Chains
  <2> QED
    BY <2>2, <2>3, <2>5
<1> QED
  BY <1>4, <1>6, <1>7, <1>8 DEF Chains

\* A list is emptied.
LEMMA ChainsClear ==
    ASSUME NEW L, NEW head, NEW next, Chains(L, head, next),
           NEW b \in Mbs, NEW head1, head1[b] = NULL,
           \A a \in Mbs \ {b} : head1[a] = head[a]
    PROVE  Chains([L EXCEPT ![b] = <<>>], head1, next)
<1> DEFINE L1 == [L EXCEPT ![b] = <<>>]
<1>1. /\ L1 \in [Mbs -> Seq(Slots)] /\ L1[b] = <<>> /\ Len(L1[b]) = 0
      /\ \A a \in Mbs \ {b} : L1[a] = L[a]
  BY EmptySeq DEF Chains
<1> HIDE DEF L1
<1>2. \A i \in 1 .. Len(L1[b]) : FALSE
  BY <1>1
<1> QED
  BY <1>1, <1>2 DEF Chains, L1

\* What is written into slots that are in no list changes no list.
LEMMA ChainsKeep ==
    ASSUME NEW L, NEW head, NEW next, Chains(L, head, next),
           NEW head1, NEW next1, \A b \in Mbs : head1[b] = head[b],
           \A s \in Slots : (\E b \in Mbs : InList(s, L[b])) => next1[s] = next[s]
    PROVE  Chains(L, head1, next1)
<1>1. \A b \in Mbs : \A i \in 1 .. Len(L[b]) : L[b][i] \in Slots /\ InList(L[b][i], L[b])
  BY ElementOfSeq DEF Chains, InList
<1>2. \A b \in Mbs : \A i \in 1 .. Len(L[b]) : next1[L[b][i]] = next[L[b][i]]
  BY <1>1
<1> QED
  BY <1>2 DEF Chains

-----------------------------------------------------------------------------
(* The types of the variables *)

MailTypes ==
    /\ mbTable \in [Mbs -> MB]
    /\ messageSlots \in [Slots -> Message]
    /\ messageIDCounter \in 0 .. MAXSLOTS - 1
    /\ shadowProcessTable \in [Procs -> Process]
    /\ buffer \in [Procs -> Messages \cup {Empty}]
    /\ frames \in [Procs -> Seq(Frame)]
    /\ status \in [Procs -> {"ready", "blocked"}]
    /\ current \in Node
    /\ fault \in BOOLEAN
    /\ calls \in Uses

\* The topmost call of p goes on as g.
GoesOn(p, g) ==
    /\ frames' \in [Procs -> Seq(Frame)]
    /\ frames'[p] # <<>> /\ Head(frames'[p]) = g /\ Tail(frames'[p]) = Tail(frames[p])
    /\ \A q \in Procs \ {p} : frames'[q] = frames[q]

\* A field of the topmost call is written.
LEMMA TopWritten ==
    ASSUME NEW p \in Procs, frames \in [Procs -> Seq(Frame)], frames[p] # <<>>,
           NEW g \in Frame, frames' = [frames EXCEPT ![p] = [@ EXCEPT ![1] = g]]
    PROVE  GoesOn(p, g)
<1>1. frames[p] \in Seq(Frame) /\ Len(frames[p]) \in Nat \ {0}
  BY EmptySeq
<1>2. 1 \in 1 .. Len(frames[p])
  BY <1>1
<1> DEFINE s == [frames[p] EXCEPT ![1] = g]
<1>3. /\ s \in Seq(Frame) /\ Len(s) = Len(frames[p])
      /\ \A j \in 1 .. Len(frames[p]) : s[j] = IF j = 1 THEN g ELSE frames[p][j]
  BY <1>1, <1>2, ExceptSeq
<1>4. frames' = [frames EXCEPT ![p] = s]
  OBVIOUS
<1> HIDE DEF s
<1>5. s # <<>> /\ Head(s) = g
  BY <1>1, <1>2, <1>3
<1>6. Tail(s) = Tail(frames[p])
  <2>1. /\ Tail(s) \in Seq(Frame) /\ Len(Tail(s)) = Len(s) - 1
        /\ \A i \in 1 .. Len(Tail(s)) : Tail(s)[i] = s[i + 1]
    BY <1>3, <1>5, HeadTailProperties
  <2>2. /\ Tail(frames[p]) \in Seq(Frame) /\ Len(Tail(frames[p])) = Len(frames[p]) - 1
        /\ \A i \in 1 .. Len(Tail(frames[p])) : Tail(frames[p])[i] = frames[p][i + 1]
    BY <1>1, HeadTailProperties
  <2>3. \A i \in 1 .. Len(Tail(s)) : Tail(s)[i] = Tail(frames[p])[i]
    <3>1. PICK n \in Nat : n = Len(frames[p])
      BY <1>1
    <3>2. ASSUME NEW i \in 1 .. n - 1
          PROVE  i + 1 \in 1 .. n /\ i + 1 # 1
      BY <3>2
    <3> QED
      BY <1>3, <2>1, <2>2, <3>1, <3>2
  <2> QED
    BY <1>3, <2>1, <2>2, <2>3, SeqEqual
<1> QED
  BY <1>3, <1>4, <1>5, <1>6 DEF GoesOn

\* The topmost call is of the type of calls.
LEMMA TopTyped ==
    ASSUME NEW p \in Procs, frames \in [Procs -> Seq(Frame)], frames[p] # <<>>
    PROVE  Top(p) \in Frame /\ Top(p) = frames[p][1] /\ Tail(frames[p]) \in Seq(Frame)
  BY HeadTailProperties DEF Top

\* Goto and BlockThen write fields of it.
LEMMA GotoEffect ==
    ASSUME NEW p \in Procs, frames \in [Procs -> Seq(Frame)], frames[p] # <<>>,
           NEW pc \in PCs, Goto(p, pc)
    PROVE  GoesOn(p, [Top(p) EXCEPT !.pc = pc])
<1>1. [Top(p) EXCEPT !.pc = pc] \in Frame
  BY TopTyped DEF Frame
<1>2. frames' = [frames EXCEPT ![p] = [@ EXCEPT ![1] = [Top(p) EXCEPT !.pc = pc]]]
  BY TopTyped DEF Goto
<1> QED
  BY <1>1, <1>2, TopWritten

\* A call that is to wait goes on at the blocking, and then at pc.
LEMMA BlockThenEffect ==
    ASSUME NEW p \in Procs, frames \in [Procs -> Seq(Frame)], frames[p] # <<>>,
           NEW pc \in PCs, BlockThen(p, pc)
    PROVE  GoesOn(p, [Top(p) EXCEPT !.pc = "block", !.then = pc])
<1>1. [Top(p) EXCEPT !.pc = "block", !.then = pc] \in Frame
  <2>1. Top(p) \in Frame /\ "block" \in PCs
    BY TopTyped DEF PCs
  <2> QED
    BY <2>1 DEF Frame
<1>2. frames' = [frames EXCEPT ![p] = [@ EXCEPT ![1] =
                    [Top(p) EXCEPT !.pc = "block", !.then = pc]]]
  BY TopTyped DEF BlockThen
<1> QED
  BY <1>1, <1>2, TopWritten

\* A call is over.
LEMMA ReturnEffect ==
    ASSUME NEW p \in Procs, frames \in [Procs -> Seq(Frame)], frames[p] # <<>>, Return(p)
    PROVE  /\ frames' \in [Procs -> Seq(Frame)]
           /\ frames'[p] = Tail(frames[p])
           /\ \A q \in Procs \ {p} : frames'[q] = frames[q]
  BY TopTyped DEF Return

\* A call begins, on top of those in progress.
Called(call, pc, b, m, max) ==
    [call |-> call, pc |-> pc, mb |-> b, slot |-> NULL, message |-> m, max |-> max,
     then |-> pc]

\* A call entered is a frame on top of the caller's.
LEMMA EnterEffect ==
    ASSUME NEW p \in Procs, frames \in [Procs -> Seq(Frame)],
           NEW call \in AllCalls, NEW pc \in PCs, NEW b \in Mbs,
           NEW m \in Messages \cup {Empty}, NEW max \in Nat,
           Enter(p, call, pc, b, m, max)
    PROVE  /\ frames' \in [Procs -> Seq(Frame)]
           /\ frames'[p] # <<>> /\ Head(frames'[p]) = Called(call, pc, b, m, max)
           /\ Tail(frames'[p]) = frames[p]
           /\ \A q \in Procs \ {p} : frames'[q] = frames[q]
<1> DEFINE g == Called(call, pc, b, m, max)
<1>1. g \in Frame
  BY DEF Called, Frame
<1>2. frames' = [frames EXCEPT ![p] = <<g>> \o frames[p]]
  BY DEF Enter, Called
<1> HIDE DEF g
<1>3. /\ <<g>> \in Seq(Frame) /\ Len(<<g>>) = 1 /\ frames[p] \in Seq(Frame)
      /\ Len(frames[p]) \in Nat
  BY <1>1
<1> DEFINE s == <<g>> \o frames[p]
<1>4. /\ s \in Seq(Frame) /\ Len(s) = 1 + Len(frames[p])
      /\ \A i \in 1 .. 1 + Len(frames[p]) :
              s[i] = IF i <= 1 THEN <<g>>[i] ELSE frames[p][i - 1]
  BY <1>3, ConcatProperties
<1> HIDE DEF s
<1>5. s # <<>> /\ Head(s) = g
  BY <1>3, <1>4
<1>6. Tail(s) = frames[p]
  <2>1. /\ Tail(s) \in Seq(Frame) /\ Len(Tail(s)) = Len(frames[p])
        /\ \A i \in 1 .. Len(Tail(s)) : Tail(s)[i] = s[i + 1]
    BY <1>3, <1>4, <1>5, HeadTailProperties
  <2>2. ASSUME NEW i \in 1 .. Len(Tail(s))
        PROVE  Tail(s)[i] = frames[p][i]
    <3>1. i + 1 \in 1 .. 1 + Len(frames[p]) /\ ~(i + 1 <= 1) /\ (i + 1) - 1 = i
      BY <1>3, <2>1
    <3> QED
      BY <1>4, <2>1, <3>1
  <2> QED
    BY <1>3, <2>1, <2>2, SeqEqual
<1> QED
  BY <1>2, <1>4, <1>5, <1>6 DEF s, g

\* Somebody has the CPU.
LEMMA DispatchEffect ==
    ASSUME NEW st \in [Procs -> {"ready", "blocked"}], Dispatch(st)
    PROVE  /\ status' \in [Procs -> {"ready", "blocked"}] /\ current' \in Node
           /\ UNCHANGED <<fault, calls>>
  BY DEF Dispatch, Runnable, Node

\* Unblocking a process changes who is ready and who runs, and nothing of the
\* mailboxes.
LEMMA UnblockEffect ==
    ASSUME NEW q \in Procs, status \in [Procs -> {"ready", "blocked"}], unblockProc(q)
    PROVE  /\ status' \in [Procs -> {"ready", "blocked"}] /\ current' \in Node
           /\ UNCHANGED <<fault, calls>>
<1> DEFINE st == IF shadowProcessTable[q].isCurrent
                 THEN [status EXCEPT ![q] = "ready"] ELSE status
<1>1. st \in [Procs -> {"ready", "blocked"}] /\ Dispatch(st)
  BY DEF unblockProc
<1> QED
  BY <1>1, DispatchEffect

\* The mailboxes as queues of messages: who waits for them is left out.
MailKept ==
    \A b \in Mbs :
        /\ mbTable'[b].isInitialized = mbTable[b].isInitialized
        /\ mbTable'[b].mailSlotLimit = mbTable[b].mailSlotLimit
        /\ mbTable'[b].mailSlotsAvailable = mbTable[b].mailSlotsAvailable
        /\ mbTable'[b].mailSlotQueueHead = mbTable[b].mailSlotQueueHead

Waiting == {"consumerQueueHead", "producerQueueHead"}

\* Writing the head of a queue of waiting processes keeps the mail.
LEMMA SetBoxEffect ==
    ASSUME NEW p \in Procs, mbTable \in [Mbs -> MB], Top(p).mb \in Mbs,
           NEW head \in Waiting, NEW v \in Node, SetBox(p, head, v)
    PROVE  mbTable' \in [Mbs -> MB] /\ MailKept
  BY DEF SetBox, MB, MailKept, Waiting

\* A process that fills its own shadow entry keeps the table typed.
LEMMA getProcessEffect ==
    ASSUME NEW p \in Procs, shadowProcessTable \in [Procs -> Process]
    PROVE  getProcess(shadowProcessTable, p) \in [Procs -> Process]
  BY DEF getProcess, Process, Node

\* A process that queues itself writes links of waiting processes only.
LEMMA EnqueueEffect ==
    ASSUME NEW p \in Procs, mbTable \in [Mbs -> MB], Top(p).mb \in Mbs,
           shadowProcessTable \in [Procs -> Process], NEW head \in Waiting,
           NEW link \in {"nextConsumerNode", "nextProducerNode"},
           Enqueue(p, head, link)
    PROVE  /\ mbTable' \in [Mbs -> MB] /\ MailKept
           /\ shadowProcessTable' \in [Procs -> Process]
<1> DEFINE table == getProcess(shadowProcessTable, p)
<1>1. table \in [Procs -> Process]
  BY getProcessEffect
<1> HIDE DEF table
<1>2. CASE Box(p)[head] = NULL
  <2>1. SetBox(p, head, p) /\ shadowProcessTable' = table
    BY <1>2 DEF Enqueue, table
  <2> QED
    BY <1>1, <2>1, SetBoxEffect DEF Node
<1>3. CASE Box(p)[head] # NULL
  <2>1. mbTable' = mbTable
    BY <1>3 DEF Enqueue
  <2>2. PICK t : shadowProcessTable' = [table EXCEPT ![t][link] = p]
    BY <1>3 DEF Enqueue, table
  <2>3. shadowProcessTable' \in [Procs -> Process]
    BY <1>1, <2>2 DEF Process, Node
  <2> QED
    BY <2>1, <2>3 DEF MailKept
<1> QED
  BY <1>2, <1>3

-----------------------------------------------------------------------------
(* What the calls in progress have in hand, while nothing interrupts them *)

Busy(p) == frames[p] # <<>>

\* A call with a message slot that is neither free nor in a mailbox.
Holding(f) ==
    \/ f.pc \in {"room", "mail", "hand"}
    \/ f.pc = "wake_consumer" /\ f.call = "MboxCondSend"
    \/ f.pc \in {"block", "resumed"} /\ f.then \in {"mail", "hand"}
Holds(p) == Busy(p) /\ Holding(Top(p))

\* Where nobody else has the CPU before the next step.
AtOnce == {"take", "pop", "look", "copy"}

FrameSound(p) ==
    Busy(p) =>
        /\ Tail(frames[p]) = <<>>
        /\ Top(p).pc \in AtOnce => current = p
        /\ Top(p).pc \in {"look", "copy"} => Box(p).isInitialized
        /\ Top(p).pc \in {"block", "resumed"} =>
                Top(p).then \in {"mail", "hand", "copy", "leave"}
        /\ Top(p).pc \in {"find", "take"} => Top(p).message \in Messages
        /\ Top(p).pc = "take" =>
                Top(p).slot \in Slots /\ ~messageSlots[Top(p).slot].isInitialized
        /\ Top(p).pc = "pop" =>
                /\ Top(p).slot \in Slots /\ ~messageSlots[Top(p).slot].isInitialized
                /\ Top(p).slot = Box(p).mailSlotQueueHead
        /\ Holding(Top(p)) =>
                /\ Top(p).slot \in Slots /\ messageSlots[Top(p).slot].isInitialized
                /\ messageSlots[Top(p).slot].message \in Messages

\* A step of p that leaves messages, their slots and their lists alone.  Its call, if
\* it is not over, goes on as g, with what it had in hand.
GoesOnSoundly(p, g) ==
    /\ g.pc # "pop"
    /\ g.pc \in AtOnce => current' = p
    /\ g.pc \in {"look", "copy"} => mbTable[g.mb].isInitialized
    /\ g.pc \in {"block", "resumed"} => g.then \in {"mail", "hand", "copy", "leave"}
    /\ g.pc \in {"find", "take"} => g.message \in Messages
    /\ g.pc = "take" => g.slot \in Slots /\ ~messageSlots[g.slot].isInitialized
    /\ Holding(g) => Holds(p) /\ g.slot = Top(p).slot

Quiet(p) ==
    /\ MailKept /\ UNCHANGED <<messageSlots, buffer>>
    /\ current = p
    /\ \A q \in Procs \ {p} : frames'[q] = frames[q]
    /\ Busy(p) => Top(p).pc # "pop"
    /\ frames'[p] # <<>> =>
            Tail(frames'[p]) = <<>> /\ GoesOnSoundly(p, Head(frames'[p]))

\* A step of a call under way is quiet when it keeps the mail and the call goes on
\* soundly.
LEMMA QuietGoesOn ==
    ASSUME NEW p \in Procs, NEW g, GoesOn(p, g), MailKept,
           UNCHANGED <<messageSlots, buffer>>, current = p, Busy(p), FrameSound(p),
           Top(p).pc # "pop", GoesOnSoundly(p, g)
    PROVE  Quiet(p)
  BY DEF Quiet, GoesOn, FrameSound

\* The return of a call that has no copied message to take off is quiet.
LEMMA QuietReturn ==
    ASSUME NEW p \in Procs, frames \in [Procs -> Seq(Frame)], Return(p), MailKept,
           UNCHANGED <<messageSlots, buffer>>, current = p, Busy(p), FrameSound(p),
           Top(p).pc # "pop"
    PROVE  Quiet(p)
  BY ReturnEffect DEF Quiet, FrameSound, Busy

-----------------------------------------------------------------------------
(* Sending *)

\* The slot that findOpenMessageSlot finds is free.
LEMMA FirstOpenIsFree ==
    ASSUME MailTypes, OpenSteps # {}
    PROVE  /\ FirstOpen \in 0 .. MAXSLOTS - 1 /\ 1 + FirstOpen \in Slots
           /\ ~messageSlots[1 + FirstOpen].isInitialized
<1> DEFINE k == CHOOSE k \in OpenSteps : \A j \in OpenSteps : k <= j
<1>1. k \in OpenSteps
  <2>1. OpenSteps \in SUBSET Nat
    BY DEF OpenSteps
  <2> HIDE DEF k
  <2>2. \E i \in OpenSteps : \A j \in OpenSteps : i <= j
    BY <2>1, Least
  <2> QED
    BY <2>2 DEF k
<1>2. FirstOpen = (messageIDCounter + k) % MAXSLOTS
  BY DEF FirstOpen
<1> HIDE DEF k
<1>3. k \in 0 .. MAXSLOTS - 1 /\ messageIDCounter + k \in Nat /\ MAXSLOTS \in Nat \ {0}
  BY <1>1, SlotsFinite DEF OpenSteps, MailTypes
<1>4. FirstOpen \in 0 .. MAXSLOTS - 1
  BY <1>2, <1>3
<1> QED
  BY <1>1, <1>2, <1>3, <1>4 DEF OpenSteps, Slots

\* A sender looks for a slot, and takes its number or returns: a quiet step.
LEMMA FindSlotSteps ==
    ASSUME MailTypes, NEW p \in Procs, FindSlot(p)
    PROVE  MailTypes' /\ (FrameSound(p) => Quiet(p))
<1>1. /\ Busy(p) /\ current = p /\ Top(p).pc = "find"
      /\ UNCHANGED <<mbTable, messageSlots, shadowProcessTable, buffer, cpuVars>>
      /\ frames \in [Procs -> Seq(Frame)] /\ Top(p) \in Frame /\ MailKept
  BY TopTyped DEF FindSlot, At, Busy, MailTypes, MailKept
<1>2. messageIDCounter' \in 0 .. MAXSLOTS - 1
  BY FirstOpenIsFree DEF FindSlot, MailTypes
<1>3. CASE Return(p)
  <2>1. frames' \in [Procs -> Seq(Frame)]
    BY <1>1, <1>3, ReturnEffect DEF Busy
  <2> QED
    BY <1>1, <1>2, <1>3, <2>1, QuietReturn DEF MailTypes, cpuVars
<1>4. CASE ~Return(p)
  <2> DEFINE g == [Top(p) EXCEPT !.slot = 1 + FirstOpen, !.pc = "take"]
  <2>1. OpenSteps # {} /\ frames' = [frames EXCEPT ![p][1].slot = 1 + FirstOpen,
                                                ![p][1].pc = "take"]
    BY <1>4 DEF FindSlot
  <2>2. 1 + FirstOpen \in Slots /\ ~messageSlots[1 + FirstOpen].isInitialized
    BY <2>1, FirstOpenIsFree
  <2>3. g \in Frame /\ g.pc = "take" /\ g.slot = 1 + FirstOpen
        /\ g.message = Top(p).message
    BY <1>1, <2>2 DEF Frame, PCs
  <2>4. frames' = [frames EXCEPT ![p] = [@ EXCEPT ![1] = g]]
    BY <1>1, <2>1, TopTyped DEF Busy
  <2> HIDE DEF g
  <2>5. GoesOn(p, g)
    BY <1>1, <2>3, <2>4, TopWritten DEF Busy
  <2>6. MailTypes'
    BY <1>1, <1>2, <2>5 DEF MailTypes, cpuVars, GoesOn
  <2>7. ASSUME FrameSound(p)
        PROVE  GoesOnSoundly(p, g)
    BY <1>1, <2>2, <2>3, <2>7 DEF GoesOnSoundly, FrameSound, Holding, cpuVars, AtOnce
  <2> QED
    BY <1>1, <2>5, <2>6, <2>7, QuietGoesOn
<1> QED
  BY <1>3, <1>4

\* MboxSend, MboxCondSend and the handler begin.
LEMMA SendBegins ==
    ASSUME MailTypes, NEW p \in Procs, current = p,
           NEW call \in AllCalls, NEW b \in Mbs, NEW m \in Messages,
           Enter(p, call, "find", b, m, 0), UNCHANGED <<memVars, cpuVars>>
    PROVE  MailTypes' /\ (frames[p] = <<>> => Quiet(p))
<1> DEFINE g == Called(call, "find", b, m, 0)
<1>1. /\ frames' \in [Procs -> Seq(Frame)]
      /\ frames'[p] # <<>> /\ Head(frames'[p]) = g /\ Tail(frames'[p]) = frames[p]
      /\ \A q \in Procs \ {p} : frames'[q] = frames[q]
  <2>1. frames \in [Procs -> Seq(Frame)] /\ "find" \in PCs /\ 0 \in Nat
    BY DEF MailTypes, PCs
  <2> QED
    BY <2>1, EnterEffect
<1>2. MailTypes'
  BY <1>1 DEF MailTypes, memVars, cpuVars
<1>3. GoesOnSoundly(p, g)
  BY DEF GoesOnSoundly, Called, Holding, AtOnce
<1> QED
  BY <1>1, <1>2, <1>3 DEF Quiet, memVars, MailKept, Busy

\* A process that calls MboxSend or MboxCondSend: a quiet step.
LEMMA SendsBegin ==
    ASSUME MailTypes, NEW p \in Procs, MboxSend(p) \/ MboxCondSend(p)
    PROVE  MailTypes' /\ Quiet(p)
<1>1. /\ current = p /\ frames[p] = <<>> /\ UNCHANGED <<memVars, cpuVars>>
      /\ \E call \in AllCalls, b \in Mbs, m \in Messages : Enter(p, call, "find", b, m, 0)
  BY DEF MboxSend, MboxCondSend, InUserCode, AllCalls
<1> QED
  BY <1>1, SendBegins

\* A handler only begins a call, too.
LEMMA HandlerTypes ==
    ASSUME MailTypes, NEW p \in Procs, Handler(p)
    PROVE  MailTypes'
<1>1. /\ current = p /\ UNCHANGED <<memVars, cpuVars>>
      /\ \E b \in Mbs, m \in Messages : Enter(p, "handler", "find", b, m, 0)
  BY MailboxAssumption DEF Handler, Mbs
<1> QED
  BY <1>1, SendBegins DEF AllCalls

\* The call in progress of p goes on as g, and changes nothing of the messages.
LEMMA CallGoesOn ==
    ASSUME MailTypes, NEW p \in Procs, Busy(p), current = p, Top(p).pc # "pop",
           NEW g, GoesOn(p, g),
           mbTable' \in [Mbs -> MB], MailKept,
           UNCHANGED <<messageSlots, messageIDCounter, buffer, calls>>,
           shadowProcessTable' \in [Procs -> Process],
           status' \in [Procs -> {"ready", "blocked"}], current' \in Node,
           fault' \in BOOLEAN,
           FrameSound(p) => GoesOnSoundly(p, g)
    PROVE  MailTypes' /\ (FrameSound(p) => Quiet(p))
<1>1. MailTypes'
  BY DEF MailTypes, GoesOn
<1> QED
  BY <1>1, QuietGoesOn

\* It is over.
LEMMA CallReturns ==
    ASSUME MailTypes, NEW p \in Procs, Busy(p), current = p, Top(p).pc # "pop",
           Return(p),
           mbTable' \in [Mbs -> MB], MailKept,
           UNCHANGED <<messageSlots, messageIDCounter, buffer, calls>>,
           shadowProcessTable' \in [Procs -> Process],
           status' \in [Procs -> {"ready", "blocked"}], current' \in Node,
           fault' \in BOOLEAN
    PROVE  MailTypes' /\ (FrameSound(p) => Quiet(p))
<1>1. frames \in [Procs -> Seq(Frame)]
  BY DEF MailTypes
<1>2. MailTypes'
  BY <1>1, ReturnEffect DEF MailTypes, Busy
<1> QED
  BY <1>1, <1>2, QuietReturn

\* A null pointer is followed, and nothing else happens.
LEMMA Crashes ==
    ASSUME MailTypes, NEW p \in Procs, Crash
    PROVE  MailTypes' /\ UNCHANGED <<memVars, frames, current, calls>>
  BY DEF Crash, MailTypes, memVars

\* The call in progress is at this pc.
LEMMA AtEffect ==
    ASSUME MailTypes, NEW p \in Procs, NEW pc, At(p, pc)
    PROVE  /\ Busy(p) /\ current = p /\ Top(p).pc = pc /\ frames[p] # <<>>
           /\ frames \in [Procs -> Seq(Frame)] /\ Top(p) \in Frame /\ Top(p).mb \in Mbs
           /\ Box(p) \in MB
  BY TopTyped DEF At, Busy, MailTypes, Frame, Box

\* A sender that finds room goes on; one that does not joins the producers, and
\* waits: a quiet step.
LEMMA addToProducerQueueSteps ==
    ASSUME MailTypes, NEW p \in Procs, addToProducerQueue(p)
    PROVE  MailTypes' /\ (FrameSound(p) => Quiet(p))
<1>1. /\ At(p, "room")
      /\ UNCHANGED <<messageSlots, messageIDCounter, buffer, cpuVars>>
  BY DEF addToProducerQueue
<1>2. /\ Busy(p) /\ current = p /\ Top(p).pc = "room" /\ frames[p] # <<>>
      /\ frames \in [Procs -> Seq(Frame)] /\ Top(p) \in Frame /\ Top(p).mb \in Mbs
  BY <1>1, AtEffect
<1>3. mbTable' \in [Mbs -> MB] /\ MailKept /\ shadowProcessTable' \in [Procs -> Process]
  <2>1. CASE UNCHANGED <<mbTable, shadowProcessTable>>
    BY <2>1 DEF MailTypes, MailKept
  <2>2. CASE Enqueue(p, "producerQueueHead", "nextProducerNode")
    BY <1>2, <2>2, EnqueueEffect DEF MailTypes, Waiting
  <2> QED
    BY <2>1, <2>2 DEF addToProducerQueue, Ring
<1>4. \/ \E pc \in {"mail", "hand", "loop"} : Goto(p, pc)
      \/ \E pc \in {"mail", "hand"} : BlockThen(p, pc)
  BY DEF addToProducerQueue, Ring
<1>5. \E g : GoesOn(p, g) /\ (FrameSound(p) => GoesOnSoundly(p, g))
  <2>1. CASE \E pc \in {"mail", "hand", "loop"} : Goto(p, pc)
    <3>1. PICK pc \in {"mail", "hand", "loop"} : Goto(p, pc)
      BY <2>1
    <3> DEFINE g == [Top(p) EXCEPT !.pc = pc]
    <3>2. GoesOn(p, g)
      BY <1>2, <3>1, GotoEffect DEF PCs
    <3>3. g.pc = pc /\ g.slot = Top(p).slot
      BY <1>2 DEF Frame
    <3>4. GoesOnSoundly(p, g)
      <4> HIDE DEF g
      <4> QED
        BY <1>2, <3>1, <3>3 DEF GoesOnSoundly, Holding, Holds, AtOnce
    <3> QED
      BY <3>2, <3>4
  <2>2. CASE \E pc \in {"mail", "hand"} : BlockThen(p, pc)
    <3>1. PICK pc \in {"mail", "hand"} : BlockThen(p, pc)
      BY <2>2
    <3> DEFINE g == [Top(p) EXCEPT !.pc = "block", !.then = pc]
    <3>2. GoesOn(p, g)
      BY <1>2, <3>1, BlockThenEffect DEF PCs
    <3>3. g.pc = "block" /\ g.slot = Top(p).slot /\ g.then = pc
      BY <1>2 DEF Frame
    <3>4. GoesOnSoundly(p, g)
      <4> HIDE DEF g
      <4> QED
        BY <1>2, <3>1, <3>3 DEF GoesOnSoundly, Holding, Holds, AtOnce
    <3> QED
      BY <3>2, <3>4
  <2> QED
    BY <1>4, <2>1, <2>2
<1> QED
  BY <1>1, <1>2, <1>3, <1>5, CallGoesOn DEF MailTypes, cpuVars

\* A process that waits is woken.
LEMMA WakesTyped ==
    ASSUME MailTypes, NEW q \in Procs, unblockProc(q)
    PROVE  /\ status' \in [Procs -> {"ready", "blocked"}] /\ current' \in Node
           /\ fault' \in BOOLEAN /\ UNCHANGED calls
  BY UnblockEffect DEF MailTypes

\* The rendezvous of a mailbox without slots, on the sender's side: a quiet step.
LEMMA HandOverSteps ==
    ASSUME MailTypes, NEW p \in Procs, HandOver(p), ~Crash
    PROVE  MailTypes' /\ (FrameSound(p) => Quiet(p))
<1>1. /\ Busy(p) /\ current = p /\ Top(p).pc = "hand" /\ Top(p).mb \in Mbs
      /\ Box(p) \in MB
  BY AtEffect DEF HandOver
<1> DEFINE producer == FirstProducer(p)
           consumer == FirstConsumer(p)
<1>2. /\ producer # NULL /\ consumer # NULL /\ Return(p) /\ unblockProc(consumer)
      /\ SetBox(p, "producerQueueHead", shadowProcessTable[producer].nextProducerNode)
      /\ UNCHANGED <<messageSlots, messageIDCounter, shadowProcessTable, buffer>>
  BY DEF HandOver
<1>3. producer \in Procs /\ consumer \in Procs
      /\ shadowProcessTable[producer].nextProducerNode \in Node
  BY <1>1, <1>2 DEF FirstProducer, FirstConsumer, MB, Node, MailTypes, Process
<1>4. mbTable' \in [Mbs -> MB] /\ MailKept
  BY <1>1, <1>2, <1>3, SetBoxEffect DEF MailTypes, Waiting
<1>5. /\ status' \in [Procs -> {"ready", "blocked"}] /\ current' \in Node
      /\ fault' \in BOOLEAN /\ UNCHANGED calls
  BY <1>2, <1>3, WakesTyped
<1> QED
  BY <1>1, <1>2, <1>4, <1>5, CallReturns DEF MailTypes

\* A sender wakes the first consumer, in MboxSend with its message in the list, in
\* MboxCondSend before that: a quiet step.
LEMMA WakeConsumerSteps ==
    ASSUME MailTypes, NEW p \in Procs, WakeConsumer(p)
    PROVE  MailTypes' /\ (FrameSound(p) => Quiet(p))
<1>1. /\ Busy(p) /\ current = p /\ Top(p).pc = "wake_consumer" /\ Top(p).mb \in Mbs
      /\ Box(p) \in MB /\ frames \in [Procs -> Seq(Frame)] /\ Top(p) \in Frame
      /\ frames[p] # <<>>
  BY AtEffect DEF WakeConsumer
<1>2. /\ status' \in [Procs -> {"ready", "blocked"}] /\ current' \in Node
      /\ fault' \in BOOLEAN /\ UNCHANGED calls
  <2>1. CASE FirstConsumer(p) = NULL
    BY <2>1 DEF WakeConsumer, MailTypes, cpuVars
  <2>2. CASE FirstConsumer(p) # NULL
    <3>1. FirstConsumer(p) \in Procs
      BY <1>1, <2>2 DEF FirstConsumer, MB, Node
    <3> QED
      BY <2>2, <3>1, WakesTyped DEF WakeConsumer
  <2> QED
    BY <2>1, <2>2
<1>3. /\ mbTable' \in [Mbs -> MB] /\ MailKept /\ shadowProcessTable' \in [Procs -> Process]
      /\ UNCHANGED <<messageSlots, messageIDCounter, buffer>>
  BY DEF WakeConsumer, memVars, MailTypes, MailKept
<1>4. CASE Top(p).call = "MboxCondSend"
  <2> DEFINE g == [Top(p) EXCEPT !.pc = "mail"]
  <2>1. GoesOn(p, g)
    BY <1>1, <1>4, GotoEffect DEF PCs, WakeConsumer
  <2>2. g.pc = "mail" /\ g.slot = Top(p).slot
    BY <1>1 DEF Frame
  <2> HIDE DEF g
  <2>3. GoesOnSoundly(p, g)
    BY <1>1, <1>4, <2>2 DEF GoesOnSoundly, Holding, Holds, AtOnce
  <2> QED
    BY <1>1, <1>2, <1>3, <2>1, <2>3, CallGoesOn
<1>5. CASE Top(p).call # "MboxCondSend"
  <2>1. Return(p)
    BY <1>5 DEF WakeConsumer
  <2> QED
    BY <1>1, <1>2, <1>3, <2>1, CallReturns
<1> QED
  BY <1>4, <1>5

-----------------------------------------------------------------------------
(* Receiving *)

\* Goto changes the pc of a call, and BlockThen only what comes after blockMe, too.
LEMMA GotoAs ==
    ASSUME MailTypes, NEW p \in Procs, Busy(p), NEW pc \in PCs, Goto(p, pc)
    PROVE  \E g : /\ GoesOn(p, g) /\ g.pc = pc
                 /\ g.mb = Top(p).mb /\ g.slot = Top(p).slot /\ g.then = Top(p).then
                 /\ g.call = Top(p).call /\ g.max = Top(p).max
<1> DEFINE g == [Top(p) EXCEPT !.pc = pc]
<1>1. Top(p) \in Frame /\ frames \in [Procs -> Seq(Frame)]
  BY TopTyped DEF MailTypes, Busy
<1>2. GoesOn(p, g)
  BY <1>1, GotoEffect DEF Busy
<1>3. /\ g.pc = pc
      /\ g.mb = Top(p).mb /\ g.slot = Top(p).slot /\ g.then = Top(p).then
      /\ g.call = Top(p).call /\ g.max = Top(p).max
  BY <1>1 DEF Frame
<1> QED
  BY <1>2, <1>3

\* A call that is to wait has a frame that says so.
LEMMA BlockAs ==
    ASSUME MailTypes, NEW p \in Procs, Busy(p), NEW pc \in PCs, BlockThen(p, pc)
    PROVE  \E g : /\ GoesOn(p, g) /\ g.pc = "block" /\ g.then = pc
                 /\ g.mb = Top(p).mb /\ g.call = Top(p).call /\ g.max = Top(p).max
<1> DEFINE g == [Top(p) EXCEPT !.pc = "block", !.then = pc]
<1>1. Top(p) \in Frame /\ frames \in [Procs -> Seq(Frame)]
  BY TopTyped DEF MailTypes, Busy
<1>2. GoesOn(p, g)
  BY <1>1, BlockThenEffect DEF Busy
<1>3. g.pc = "block" /\ g.then = pc /\ g.mb = Top(p).mb /\ g.call = Top(p).call
      /\ g.max = Top(p).max
  BY <1>1 DEF Frame
<1> QED
  BY <1>2, <1>3

\* MboxRecv, waitDevice and MboxCondRecv begin.
LEMMA RecvBegins ==
    ASSUME MailTypes, NEW p \in Procs, current = p, frames[p] = <<>>,
           NEW call \in AllCalls, NEW b \in Mbs, NEW max \in Nat,
           mbTable[b].isInitialized, Enter(p, call, "look", b, Empty, max),
           shadowProcessTable' = getProcess(shadowProcessTable, p),
           UNCHANGED <<mbTable, messageSlots, messageIDCounter, buffer, cpuVars>>
    PROVE  MailTypes' /\ Quiet(p)
<1> DEFINE g == Called(call, "look", b, Empty, max)
<1>1. /\ frames' \in [Procs -> Seq(Frame)]
      /\ frames'[p] # <<>> /\ Head(frames'[p]) = g /\ Tail(frames'[p]) = frames[p]
      /\ \A q \in Procs \ {p} : frames'[q] = frames[q]
  <2>1. frames \in [Procs -> Seq(Frame)] /\ "look" \in PCs
    BY DEF MailTypes, PCs
  <2> QED
    BY <2>1, EnterEffect
<1>2. shadowProcessTable' \in [Procs -> Process]
  BY getProcessEffect DEF MailTypes
<1>3. MailTypes'
  BY <1>1, <1>2 DEF MailTypes, cpuVars
<1>4. GoesOnSoundly(p, g)
  BY DEF GoesOnSoundly, Called, Holding, AtOnce, cpuVars
<1> QED
  BY <1>1, <1>3, <1>4 DEF Quiet, MailKept, Busy

\* MboxCondRecv is refused: only the caller's entry may be made anew.
RefusesRecv(p) ==
    /\ current = p /\ frames[p] = <<>>
    /\ shadowProcessTable' = getProcess(shadowProcessTable, p)
    /\ UNCHANGED <<frames, mbTable, messageSlots, messageIDCounter, buffer, cpuVars>>

LEMMA RecvRefused ==
    ASSUME MailTypes, NEW p \in Procs, RefusesRecv(p)
    PROVE  MailTypes' /\ Quiet(p)
<1>1. shadowProcessTable' \in [Procs -> Process]
  BY getProcessEffect DEF MailTypes, RefusesRecv
<1> QED
  BY <1>1 DEF RefusesRecv, MailTypes, cpuVars, Quiet, MailKept, Busy

\* A process that calls MboxRecv, MboxCondRecv or waitDevice: a quiet step.
LEMMA RecvsBegin ==
    ASSUME MailTypes, NEW p \in Procs, MboxRecv(p) \/ waitDevice(p) \/ MboxCondRecv(p)
    PROVE  MailTypes' /\ Quiet(p)
<1>1. /\ current = p /\ frames[p] = <<>>
      /\ shadowProcessTable' = getProcess(shadowProcessTable, p)
      /\ UNCHANGED <<mbTable, messageSlots, messageIDCounter, buffer, cpuVars>>
      /\ \/ UNCHANGED frames
         \/ \E call \in AllCalls, b \in Mbs, max \in Nat :
                mbTable[b].isInitialized /\ Enter(p, call, "look", b, Empty, max)
  <2>1. CASE MboxRecv(p)
    BY <2>1, MailboxAssumption DEF MboxRecv, StartRecv, InUserCode, AllCalls
  <2>2. CASE waitDevice(p)
    BY <2>2, MailboxAssumption DEF waitDevice, StartRecv, InUserCode, AllCalls, Mbs
  <2>3. CASE MboxCondRecv(p)
    BY <2>3 DEF MboxCondRecv, InUserCode, AllCalls
  <2> QED
    BY <2>1, <2>2, <2>3
<1> QED
  BY <1>1, RecvBegins, RecvRefused DEF RefusesRecv

\* A receiver joins the consumers, and waits when there is no message for it: a
\* quiet step.
LEMMA addToConsumerQueueSteps ==
    ASSUME MailTypes, NEW p \in Procs, addToConsumerQueue(p)
    PROVE  MailTypes' /\ (FrameSound(p) => Quiet(p))
<1>1. /\ Busy(p) /\ current = p /\ Top(p).pc = "look" /\ Top(p).mb \in Mbs
  BY AtEffect DEF addToConsumerQueue
<1>2. UNCHANGED <<messageSlots, messageIDCounter, buffer, cpuVars>>
  BY DEF addToConsumerQueue
<1>3. mbTable' \in [Mbs -> MB] /\ MailKept /\ shadowProcessTable' \in [Procs -> Process]
  <2>1. CASE UNCHANGED <<mbTable, shadowProcessTable>>
    BY <2>1 DEF MailTypes, MailKept
  <2>2. CASE Enqueue(p, "consumerQueueHead", "nextConsumerNode")
    BY <1>1, <2>2, EnqueueEffect DEF MailTypes, Waiting
  <2> QED
    BY <2>1, <2>2 DEF addToConsumerQueue, Ring
<1>4. \/ \E pc \in {"leave", "copy", "loop"} : Goto(p, pc)
      \/ \E pc \in {"leave", "copy"} : BlockThen(p, pc)
  BY DEF addToConsumerQueue, Ring
<1>5. \E g : GoesOn(p, g) /\ (FrameSound(p) => GoesOnSoundly(p, g))
  <2>1. CASE \E pc \in {"leave", "copy", "loop"} : Goto(p, pc)
    <3>1. PICK pc \in {"leave", "copy", "loop"} : Goto(p, pc)
      BY <2>1
    <3>2. PICK g : GoesOn(p, g) /\ g.pc = pc /\ g.mb = Top(p).mb
      BY <1>1, <3>1, GotoAs DEF PCs
    <3>3. FrameSound(p) => GoesOnSoundly(p, g)
      BY <1>1, <1>2, <3>2 DEF GoesOnSoundly, Holding, AtOnce, FrameSound, Box, cpuVars
    <3> QED
      BY <3>2, <3>3
  <2>2. CASE \E pc \in {"leave", "copy"} : BlockThen(p, pc)
    <3>1. PICK pc \in {"leave", "copy"} : BlockThen(p, pc)
      BY <2>2
    <3>2. PICK g : GoesOn(p, g) /\ g.pc = "block" /\ g.then = pc
      BY <1>1, <3>1, BlockAs DEF PCs
    <3>3. GoesOnSoundly(p, g)
      BY <3>2 DEF GoesOnSoundly, Holding, AtOnce
    <3> QED
      BY <3>2, <3>3
  <2> QED
    BY <1>4, <2>1, <2>2
<1> QED
  BY <1>1, <1>2, <1>3, <1>5, CallGoesOn DEF MailTypes, cpuVars

\* A receiver of a mailbox without slots takes the head off the consumers: a quiet
\* step.
LEMMA LeaveSteps ==
    ASSUME MailTypes, NEW p \in Procs, Leave(p), ~Crash
    PROVE  MailTypes' /\ (FrameSound(p) => Quiet(p))
<1>1. /\ Busy(p) /\ current = p /\ Top(p).pc = "leave" /\ Top(p).mb \in Mbs
      /\ Box(p) \in MB
  BY AtEffect DEF Leave
<1> DEFINE head == FirstConsumer(p)
<1>2. /\ head # NULL /\ Return(p)
      /\ SetBox(p, "consumerQueueHead", shadowProcessTable[head].nextConsumerNode)
      /\ UNCHANGED <<messageSlots, messageIDCounter, shadowProcessTable, buffer, cpuVars>>
  BY DEF Leave
<1>3. head \in Procs /\ shadowProcessTable[head].nextConsumerNode \in Node
  BY <1>1, <1>2 DEF FirstConsumer, MB, Node, MailTypes, Process
<1>4. mbTable' \in [Mbs -> MB] /\ MailKept
  BY <1>1, <1>2, <1>3, SetBoxEffect DEF MailTypes, Waiting
<1> QED
  BY <1>1, <1>2, <1>4, CallReturns DEF MailTypes, cpuVars

\* A message too large for the buffer stays where it is.
TooLarge(p) ==
    /\ Top(p).call # "MboxCondRecv"
    /\ Box(p).mailSlotQueueHead # NULL
    /\ Size[messageSlots[Box(p).mailSlotQueueHead].message] > Top(p).max
Refused(p) == At(p, "copy") /\ TooLarge(p) /\ Return(p) /\ UNCHANGED <<memVars, cpuVars>>

\* A receiver whose buffer is too small, and one that returns the size: quiet steps.
LEMMA RefusedSteps ==
    ASSUME MailTypes, NEW p \in Procs, Refused(p) \/ ReturnSize(p)
    PROVE  MailTypes' /\ (FrameSound(p) => Quiet(p))
<1>1. /\ Busy(p) /\ current = p /\ Top(p).pc # "pop" /\ Return(p)
      /\ UNCHANGED <<memVars, cpuVars>>
  BY AtEffect DEF Refused, ReturnSize
<1>2. mbTable' \in [Mbs -> MB] /\ MailKept
  BY <1>1 DEF MailTypes, memVars, MailKept
<1> QED
  BY <1>1, <1>2, CallReturns DEF MailTypes, cpuVars, memVars

\* A receiver that has taken its message wakes the first producer: a quiet step.
LEMMA WakeProducerSteps ==
    ASSUME MailTypes, NEW p \in Procs, WakeProducer(p)
    PROVE  MailTypes' /\ (FrameSound(p) => Quiet(p))
<1>1. /\ Busy(p) /\ current = p /\ Top(p).pc = "wake_producer" /\ Top(p).mb \in Mbs
      /\ Box(p) \in MB
  BY AtEffect DEF WakeProducer
<1> DEFINE producer == FirstProducer(p)
<1>2. /\ Goto(p, "return_size")
      /\ UNCHANGED <<messageSlots, messageIDCounter, shadowProcessTable, buffer>>
  BY DEF WakeProducer
<1>3. /\ mbTable' \in [Mbs -> MB] /\ MailKept
      /\ status' \in [Procs -> {"ready", "blocked"}] /\ current' \in Node
      /\ fault' \in BOOLEAN /\ UNCHANGED calls
  <2>1. CASE producer = NULL
    BY <2>1 DEF WakeProducer, MailTypes, MailKept, cpuVars
  <2>2. CASE producer # NULL
    <3>1. SetBox(p, "producerQueueHead", shadowProcessTable[producer].nextProducerNode)
          /\ unblockProc(producer)
      BY <2>2 DEF WakeProducer
    <3>2. producer \in Procs /\ shadowProcessTable[producer].nextProducerNode \in Node
      BY <1>1, <2>2 DEF FirstProducer, MB, Node, MailTypes, Process
    <3> QED
      BY <1>1, <3>1, <3>2, SetBoxEffect, WakesTyped DEF MailTypes, Waiting
  <2> QED
    BY <2>1, <2>2
<1>4. PICK g : GoesOn(p, g) /\ g.pc = "return_size"
  BY <1>1, <1>2, GotoAs DEF PCs
<1>5. GoesOnSoundly(p, g)
  BY <1>4 DEF GoesOnSoundly, Holding, AtOnce
<1> QED
  BY <1>1, <1>2, <1>3, <1>4, <1>5, CallGoesOn DEF MailTypes

-----------------------------------------------------------------------------
(* Waiting, and releasing *)

\* The blocking itself: another process runs, and the mail is kept.
LEMMA BlockMeSteps ==
    ASSUME MailTypes, NEW p \in Procs, BlockMe(p)
    PROVE  MailTypes' /\ (FrameSound(p) => Quiet(p))
<1>1. /\ Busy(p) /\ current = p /\ Top(p).pc = "block"
      /\ Goto(p, "resumed") /\ UNCHANGED memVars
      /\ Dispatch([status EXCEPT ![p] = "blocked"])
  BY AtEffect DEF BlockMe
<1>2. /\ status' \in [Procs -> {"ready", "blocked"}] /\ current' \in Node
      /\ UNCHANGED <<fault, calls>>
  <2>1. [status EXCEPT ![p] = "blocked"] \in [Procs -> {"ready", "blocked"}]
    BY DEF MailTypes
  <2> QED
    BY <1>1, <2>1, DispatchEffect
<1>3. PICK g : /\ GoesOn(p, g) /\ g.pc = "resumed" /\ g.slot = Top(p).slot
               /\ g.then = Top(p).then
  BY <1>1, GotoAs DEF PCs
<1>4. FrameSound(p) => GoesOnSoundly(p, g)
  BY <1>1, <1>3 DEF GoesOnSoundly, Holding, Holds, AtOnce, FrameSound
<1>5. mbTable' \in [Mbs -> MB] /\ MailKept
  BY <1>1 DEF MailTypes, memVars, MailKept
<1> QED
  BY <1>1, <1>2, <1>3, <1>4, <1>5, CallGoesOn DEF MailTypes, memVars

\* A process that runs again after it was blocked: a quiet step.
LEMMA ResumedSteps ==
    ASSUME MailTypes, NEW p \in Procs, Resumed(p)
    PROVE  MailTypes' /\ (FrameSound(p) => Quiet(p))
<1>1. /\ Busy(p) /\ current = p /\ Top(p).pc = "resumed" /\ UNCHANGED <<memVars, cpuVars>>
      /\ Top(p) \in Frame
  BY AtEffect DEF Resumed
<1>2. mbTable' \in [Mbs -> MB] /\ MailKept
  BY <1>1 DEF MailTypes, memVars, MailKept
<1>3. CASE Return(p)
  BY <1>1, <1>2, <1>3, CallReturns DEF MailTypes, memVars, cpuVars
<1>4. CASE ~Return(p)
  <2>1. Box(p).isInitialized /\ Goto(p, Top(p).then) /\ Top(p).then \in PCs
    BY <1>1, <1>4 DEF Resumed, Frame
  <2>2. PICK g : /\ GoesOn(p, g) /\ g.pc = Top(p).then /\ g.slot = Top(p).slot
                 /\ g.mb = Top(p).mb
    BY <1>1, <2>1, GotoAs
  <2>3. FrameSound(p) => GoesOnSoundly(p, g)
    BY <1>1, <2>1, <2>2
       DEF GoesOnSoundly, Holding, Holds, AtOnce, FrameSound, Box, cpuVars
  <2> QED
    BY <1>1, <1>2, <2>2, <2>3, CallGoesOn DEF MailTypes, memVars, cpuVars
<1> QED
  BY <1>3, <1>4

\* One of the two loops of MboxRelease.
LEMMA FreeQueueSteps ==
    ASSUME MailTypes, NEW p \in Procs, NEW pc, NEW head \in Waiting,
           NEW next \in {"next_consumer", "next_producer"}, NEW done,
           FreeQueue(p, pc, head, next, done),
           pc \in {"free_consumers", "free_producers"},
           done => Return(p) \/ Goto(p, "free_producers")
    PROVE  MailTypes' /\ (FrameSound(p) => Quiet(p))
<1>1. /\ Busy(p) /\ current = p /\ Top(p).pc = pc /\ UNCHANGED memVars
      /\ Box(p) \in MB
  BY AtEffect DEF FreeQueue
<1>2. mbTable' \in [Mbs -> MB] /\ MailKept
  BY <1>1 DEF MailTypes, memVars, MailKept
<1>3. /\ status' \in [Procs -> {"ready", "blocked"}] /\ current' \in Node
      /\ fault' \in BOOLEAN /\ UNCHANGED calls
  <2>1. CASE Box(p)[head] = NULL
    BY <2>1 DEF FreeQueue, MailTypes, cpuVars
  <2>2. CASE Box(p)[head] # NULL
    <3>1. Box(p)[head] \in Procs
      BY <1>1, <2>2 DEF MB, Node, Waiting
    <3> QED
      BY <2>2, <3>1, WakesTyped DEF FreeQueue
  <2> QED
    BY <2>1, <2>2
<1>4. Return(p) \/ \E to \in {"next_consumer", "next_producer", "free_producers"} : Goto(p, to)
  BY DEF FreeQueue
<1>5. CASE Return(p)
  BY <1>1, <1>2, <1>3, <1>5, CallReturns DEF MailTypes, memVars
<1>6. CASE \E to \in {"next_consumer", "next_producer", "free_producers"} : Goto(p, to)
  <2>1. PICK to \in {"next_consumer", "next_producer", "free_producers"} : Goto(p, to)
    BY <1>6
  <2>2. PICK g : GoesOn(p, g) /\ g.pc = to
    BY <1>1, <2>1, GotoAs DEF PCs
  <2>3. GoesOnSoundly(p, g)
    BY <2>2 DEF GoesOnSoundly, Holding, AtOnce
  <2> QED
    BY <1>1, <1>2, <1>3, <2>2, <2>3, CallGoesOn DEF MailTypes, memVars
<1> QED
  BY <1>4, <1>5, <1>6

\* MboxRelease moves to the next waiting process: a quiet step.
LEMMA FreeNextSteps ==
    ASSUME MailTypes, NEW p \in Procs, NEW pc \in {"next_consumer", "next_producer"},
           NEW head \in Waiting, NEW link \in {"nextConsumerNode", "nextProducerNode"},
           NEW again \in {"free_consumers", "free_producers"},
           FreeNext(p, pc, head, link, again), ~Crash
    PROVE  MailTypes' /\ (FrameSound(p) => Quiet(p))
<1>1. /\ Busy(p) /\ current = p /\ Top(p).pc = pc /\ Top(p).mb \in Mbs /\ Box(p) \in MB
  BY AtEffect DEF FreeNext
<1> DEFINE first == Box(p)[head]
<1>2. /\ first # NULL /\ SetBox(p, head, shadowProcessTable[first][link]) /\ Goto(p, again)
      /\ UNCHANGED <<messageSlots, messageIDCounter, shadowProcessTable, buffer, cpuVars>>
  BY DEF FreeNext
<1>3. first \in Procs /\ shadowProcessTable[first][link] \in Node
  <2>1. first \in Procs
    BY <1>1, <1>2 DEF MB, Node, Waiting
  <2> QED
    BY <2>1 DEF MailTypes, Process
<1>4. mbTable' \in [Mbs -> MB] /\ MailKept
  BY <1>1, <1>2, <1>3, SetBoxEffect DEF MailTypes
<1>5. PICK g : GoesOn(p, g) /\ g.pc = again
  BY <1>1, <1>2, GotoAs DEF PCs
<1>6. GoesOnSoundly(p, g)
  BY <1>5 DEF GoesOnSoundly, Holding, AtOnce
<1> QED
  BY <1>1, <1>2, <1>4, <1>5, <1>6, CallGoesOn DEF MailTypes, cpuVars

\* MboxRelease frees the waiting consumers, then the producers: quiet steps.
LEMMA FreeSteps ==
    ASSUME MailTypes, NEW p \in Procs, FreeConsumers(p) \/ FreeProducers(p), ~Crash
    PROVE  MailTypes' /\ (FrameSound(p) => Quiet(p))
<1>1. CASE FreeConsumers(p)
  BY <1>1, FreeQueueSteps, FreeNextSteps DEF FreeConsumers, Waiting
<1>2. CASE FreeProducers(p)
  BY <1>2, FreeQueueSteps, FreeNextSteps DEF FreeProducers, Waiting
<1> QED
  BY <1>1, <1>2

\* User code gives the CPU away, or ends.
LEMMA UserSteps ==
    ASSUME MailTypes, NEW p \in Procs, Yield(p) \/ Replace(p)
    PROVE  MailTypes' /\ Quiet(p)
<1>1. /\ current = p /\ frames[p] = <<>> /\ Dispatch(status)
      /\ UNCHANGED <<mbTable, messageSlots, messageIDCounter, buffer, frames>>
  BY DEF Yield, Replace, InUserCode, memVars
<1>2. shadowProcessTable' \in [Procs -> Process]
  <2>1. shadowProcessTable \in [Procs -> Process]
    BY DEF MailTypes
  <2>2. CASE Yield(p)
    BY <2>1, <2>2 DEF Yield, memVars
  <2>3. CASE Replace(p)
    BY <2>1, <2>3 DEF Replace, Process
  <2> QED
    BY <2>2, <2>3
<1>3. /\ status' \in [Procs -> {"ready", "blocked"}] /\ current' \in Node
      /\ UNCHANGED <<fault, calls>>
  BY <1>1, DispatchEffect DEF MailTypes
<1> QED
  BY <1>1, <1>2, <1>3 DEF MailTypes, Quiet, MailKept, Busy
-----------------------------------------------------------------------------
(* The slots and the lists of the mailboxes *)

Heads == [b \in Mbs |-> mbTable[b].mailSlotQueueHead]

\* p has copied the first message of b, and has yet to take it off the list.
Popping(p, b) == Busy(p) /\ Top(p).pc = "pop" /\ Top(p).mb = b

\* The mailboxes have the lists L of slots in use, as long as they say, and no call
\* has one of these slots in hand.
InBoxes(L) ==
    /\ Chains(L, Heads, MailLinks)
    /\ \A p \in Procs, b \in Mbs : Holds(p) => ~InList(Top(p).slot, L[b])
    /\ \A b \in Mbs : \A i \in 1 .. Len(L[b]) :
          \/ messageSlots[L[b][i]].isInitialized
          \/ i = 1 /\ \E p \in Procs : Popping(p, b)
    /\ \A b \in Open :
          mbTable[b].mailSlotsAvailable + Len(L[b]) = mbTable[b].mailSlotLimit

\* No two calls have the same slot in hand.
Alone ==
    \A p, q \in Procs : Holds(p) /\ Holds(q) /\ Top(p).slot = Top(q).slot => p = q

Sound(L) == (\A p \in Procs : FrameSound(p)) /\ Alone /\ InBoxes(L)

\* A step of p disturbs no other call whose slot it leaves alone.
LEMMA OthersSound ==
    ASSUME NEW p \in Procs, current = p, \A q \in Procs : FrameSound(q),
           \A q \in Procs \ {p} : frames'[q] = frames[q],
           NEW q \in Procs \ {p},
           Holds(q) => /\ messageSlots'[Top(q).slot].isInitialized
                       /\ messageSlots'[Top(q).slot].message
                                = messageSlots[Top(q).slot].message
    PROVE  /\ FrameSound(q)' /\ Holds(q)' = Holds(q) /\ Top(q)' = Top(q)
           /\ \A b \in Mbs : ~Popping(q, b) /\ ~Popping(q, b)'
<1>1. Top(q)' = Top(q) /\ Busy(q)' = Busy(q) /\ frames'[q] = frames[q]
  BY DEF Top, Busy
<1>2. Holds(q)' = Holds(q)
  BY <1>1 DEF Holds, Holding
<1>3. Busy(q) => Top(q).pc \notin AtOnce
  BY DEF FrameSound
<1>4. FrameSound(q)'
  BY <1>1, <1>2, <1>3 DEF FrameSound, Holding, Holds, AtOnce
<1> QED
  BY <1>1, <1>2, <1>3, <1>4 DEF Popping, AtOnce

\* What a step of p has to keep of the slots and the lists.
LEMMA SoundAgain ==
    ASSUME NEW p \in Procs, NEW L, NEW L1, Sound(L), current = p,
           \A q \in Procs \ {p} : frames'[q] = frames[q],
           FrameSound(p)', Chains(L1, Heads', MailLinks'),
           \A q \in Procs \ {p} : Holds(q) =>
              /\ messageSlots'[Top(q).slot].isInitialized
              /\ messageSlots'[Top(q).slot].message = messageSlots[Top(q).slot].message
              /\ \A b \in Mbs : ~InList(Top(q).slot, L1[b])
              /\ Holds(p)' => Top(q).slot # Top(p)'.slot,
           Holds(p)' => \A b \in Mbs : ~InList(Top(p)'.slot, L1[b]),
           \A b \in Mbs : \A i \in 1 .. Len(L1[b]) :
              messageSlots'[L1[b][i]].isInitialized \/ (i = 1 /\ Popping(p, b)'),
           \A b \in Open' :
              mbTable'[b].mailSlotsAvailable + Len(L1[b]) = mbTable'[b].mailSlotLimit
    PROVE  Sound(L1)'
<1>1. \A q \in Procs \ {p} : FrameSound(q)' /\ Holds(q)' = Holds(q) /\ Top(q)' = Top(q)
  BY OthersSound DEF Sound
<1>2. \A q \in Procs : FrameSound(q)'
  BY <1>1
<1>3. Alone'
  BY <1>1 DEF Alone, Sound
<1>4. \A q \in Procs, b \in Mbs : Holds(q)' => ~InList(Top(q)'.slot, L1[b])
  BY <1>1
<1> QED
  BY <1>2, <1>3, <1>4 DEF Sound, InBoxes, InList

\* A slot in a list is in use, unless its message has been copied.
LEMMA AllInUse ==
    ASSUME NEW p \in Procs, NEW L, Sound(L), current = p, ~(Busy(p) /\ Top(p).pc = "pop"),
           NEW b \in Mbs, NEW i \in 1 .. Len(L[b])
    PROVE  L[b][i] \in Slots /\ messageSlots[L[b][i]].isInitialized
<1>1. \A q \in Procs : ~Popping(q, b)
  BY DEF Popping, Sound, FrameSound, AtOnce
<1>2. L[b] \in Seq(Slots)
  BY DEF Sound, InBoxes, Chains
<1> QED
  BY <1>1, <1>2, ElementOfSeq DEF Sound, InBoxes

\* A quiet step keeps all this.
LEMMA QuietKeeps ==
    ASSUME MailTypes', NEW p \in Procs, NEW L, Sound(L), Quiet(p)
    PROVE  Sound(L)'
<1>1. /\ current = p /\ UNCHANGED messageSlots /\ MailKept
      /\ ~(Busy(p) /\ Top(p).pc = "pop")
      /\ \A q \in Procs \ {p} : frames'[q] = frames[q]
  BY DEF Quiet
<1>2. Holds(p)' => Holds(p) /\ Top(p)'.slot = Top(p).slot
  BY DEF Quiet, GoesOnSoundly, Holds, Busy, Top
<1>3. FrameSound(p)'
  <2> SUFFICES ASSUME Busy(p)'
               PROVE  FrameSound(p)'
    BY DEF FrameSound
  <2>1. GoesOnSoundly(p, Top(p)') /\ Tail(frames'[p]) = <<>>
    BY DEF Quiet, Busy, Top
  <2>2. Top(p)'.mb \in Mbs
    <3>1. frames'[p] \in Seq(Frame) /\ frames'[p] # <<>> /\ Top(p)' = Head(frames'[p])
      BY DEF MailTypes, Busy, Top
    <3>2. Top(p)' \in Frame
      BY <3>1, HeadTailProperties
    <3> QED
      BY <3>2 DEF Frame
  <2>3. Holding(Top(p)') => /\ Top(p)'.slot \in Slots
                            /\ messageSlots'[Top(p)'.slot].isInitialized
                            /\ messageSlots'[Top(p)'.slot].message \in Messages
    BY <1>1, <2>1 DEF GoesOnSoundly, Sound, FrameSound, Holds
  <2>4. Top(p)'.pc \in {"look", "copy"} => mbTable'[Top(p)'.mb].isInitialized
    BY <1>1, <2>1, <2>2 DEF GoesOnSoundly, MailKept
  <2> QED
    BY <1>1, <2>1, <2>3, <2>4 DEF FrameSound, GoesOnSoundly, Holding, Box
<1>4. Chains(L, Heads', MailLinks')
  <2>1. \A b \in Mbs : Heads'[b] = Heads[b]
    BY <1>1 DEF Heads, MailKept
  <2>2. \A s \in Slots : MailLinks'[s] = MailLinks[s]
    BY <1>1 DEF MailLinks
  <2> QED
    BY <2>1, <2>2, ChainsKeep DEF Sound, InBoxes
<1>5. \A q \in Procs \ {p} : Holds(q) =>
              /\ messageSlots'[Top(q).slot].isInitialized
              /\ messageSlots'[Top(q).slot].message = messageSlots[Top(q).slot].message
              /\ \A b \in Mbs : ~InList(Top(q).slot, L[b])
              /\ Holds(p)' => Top(q).slot # Top(p)'.slot
  BY <1>1, <1>2 DEF Sound, InBoxes, Alone, FrameSound, Holds
<1>6. Holds(p)' => \A b \in Mbs : ~InList(Top(p)'.slot, L[b])
  BY <1>2 DEF Sound, InBoxes
<1>7. \A b \in Mbs : \A i \in 1 .. Len(L[b]) : messageSlots'[L[b][i]].isInitialized
  BY <1>1, AllInUse
<1>8. \A b \in Open' :
              mbTable'[b].mailSlotsAvailable + Len(L[b]) = mbTable'[b].mailSlotLimit
  BY <1>1 DEF Open, MailKept, Sound, InBoxes
<1> QED
  BY <1>1, <1>3, <1>4, <1>5, <1>6, <1>7, <1>8, SoundAgain
-----------------------------------------------------------------------------
(* The steps that write messages, slots and lists *)

\* The slot that was found is marked as used, and belongs to this call alone.
LEMMA TakeSlotSteps ==
    ASSUME MailTypes, NEW p \in Procs, TakeSlot(p)
    PROVE  \E g : /\ GoesOn(p, g) /\ g.mb = Top(p).mb /\ g.slot = Top(p).slot
                  /\ g.call = Top(p).call
                  /\ g.pc \in {"room", "wake_consumer"}
                  /\ g.pc = "wake_consumer" => g.call = "MboxCondSend"
<1>1. Busy(p)
  BY AtEffect DEF TakeSlot
<1>2. PICK pc \in {"room", "wake_consumer"} :
          /\ Goto(p, pc)
          /\ pc = "wake_consumer" => Top(p).call = "MboxCondSend"
  BY DEF TakeSlot
<1> QED
  BY <1>1, <1>2, GotoAs DEF PCs

\* TakeSlot keeps the types.
LEMMA TakeSlotTypes ==
    ASSUME MailTypes, NEW p \in Procs, TakeSlot(p)
    PROVE  MailTypes'
<1>1. /\ Busy(p) /\ Top(p) \in Frame /\ Top(p).pc = "take"
      /\ UNCHANGED <<mbTable, messageIDCounter, shadowProcessTable, buffer, cpuVars>>
  BY AtEffect DEF TakeSlot
<1>2. frames' \in [Procs -> Seq(Frame)]
  BY TakeSlotSteps DEF GoesOn
<1>3. messageSlots' \in [Slots -> Message]
  <2>1. [isInitialized |-> TRUE, message |-> Top(p).message, nextMessage |-> NULL] \in Message
    BY <1>1 DEF Frame, Message
  <2> QED
    BY <2>1 DEF TakeSlot, MailTypes
<1> QED
  BY <1>1, <1>2, <1>3 DEF MailTypes, cpuVars

\* TakeSlot fills a slot that is in no list: the lists stay, and what they hold.
LEMMA TakeSlotKeeps ==
    ASSUME MailTypes, NEW p \in Procs, TakeSlot(p), NEW L, Sound(L)
    PROVE  /\ Sound(L)'
           /\ UNCHANGED <<mbTable, buffer>>
           /\ \A b \in Mbs : \A i \in 1 .. Len(L[b]) :
                  messageSlots'[L[b][i]] = messageSlots[L[b][i]]
<1> DEFINE s == Top(p).slot
<1>1. /\ Busy(p) /\ current = p /\ Top(p).pc = "take" /\ Top(p) \in Frame
      /\ UNCHANGED <<mbTable, buffer, current>>
      /\ messageSlots' = [messageSlots EXCEPT ![s] =
            [isInitialized |-> TRUE, message |-> Top(p).message, nextMessage |-> NULL]]
  BY AtEffect DEF TakeSlot, cpuVars
<1>2. /\ s \in Slots /\ ~messageSlots[s].isInitialized /\ Tail(frames[p]) = <<>>
      /\ Top(p).message \in Messages
  BY <1>1 DEF Sound, FrameSound
<1>3. PICK g : /\ GoesOn(p, g) /\ g.slot = s
               /\ g.pc \in {"room", "wake_consumer"}
               /\ g.pc = "wake_consumer" => g.call = "MboxCondSend"
  BY TakeSlotSteps
<1>4. Top(p)' = g /\ Tail(frames'[p]) = <<>> /\ Busy(p)'
      /\ \A q \in Procs \ {p} : frames'[q] = frames[q]
  BY <1>2, <1>3 DEF GoesOn, Top, Busy
<1>5. /\ messageSlots'[s].isInitialized /\ messageSlots'[s].message \in Messages
      /\ \A x \in Slots \ {s} : messageSlots'[x] = messageSlots[x]
  BY <1>1, <1>2 DEF MailTypes
<1> HIDE DEF s
<1>6. \A b \in Mbs : \A i \in 1 .. Len(L[b]) :
          L[b][i] \in Slots \ {s} /\ messageSlots[L[b][i]].isInitialized
  BY <1>1, <1>2, AllInUse
<1>7. FrameSound(p)'
  BY <1>2, <1>3, <1>4, <1>5 DEF FrameSound, Holding, AtOnce
<1>8. Chains(L, Heads', MailLinks')
  <2>1. \A b \in Mbs : Heads'[b] = Heads[b]
    BY <1>1 DEF Heads
  <2>2. \A x \in Slots \ {s} : MailLinks'[x] = MailLinks[x]
    BY <1>5 DEF MailLinks
  <2>3. \A x \in Slots : (\E b \in Mbs : InList(x, L[b])) => x # s
    BY <1>6 DEF InList
  <2> QED
    BY <2>1, <2>2, <2>3, ChainsKeep DEF Sound, InBoxes
<1>9. \A b \in Mbs : ~InList(s, L[b])
  BY <1>6 DEF InList
<1>10. \A q \in Procs \ {p} : Holds(q) =>
              /\ messageSlots'[Top(q).slot].isInitialized
              /\ messageSlots'[Top(q).slot].message = messageSlots[Top(q).slot].message
              /\ \A b \in Mbs : ~InList(Top(q).slot, L[b])
              /\ Top(q).slot # s
  BY <1>2, <1>5 DEF Sound, InBoxes, FrameSound, Holds
<1>11. \A b \in Mbs : \A i \in 1 .. Len(L[b]) :
              messageSlots'[L[b][i]].isInitialized
  BY <1>5, <1>6
<1>12. \A b \in Open' :
              mbTable'[b].mailSlotsAvailable + Len(L[b]) = mbTable'[b].mailSlotLimit
  BY <1>1 DEF Open, Sound, InBoxes
<1>13. Sound(L)'
  BY <1>1, <1>3, <1>4, <1>7, <1>8, <1>9, <1>10, <1>11, <1>12, SoundAgain
<1> QED
  BY <1>1, <1>5, <1>6, <1>13

\* The first message is copied; its slot is free, and stays in the list.
Copies(p) ==
    LET mesRec == Box(p).mailSlotQueueHead
    IN  /\ At(p, "copy") /\ mesRec # NULL
        /\ buffer' = [buffer EXCEPT ![p] = messageSlots[mesRec].message]
        /\ messageSlots' = [messageSlots EXCEPT ![mesRec].isInitialized = FALSE]
        /\ frames' = [frames EXCEPT ![p][1].slot = mesRec, ![p][1].pc = "pop"]
        /\ UNCHANGED <<mbTable, messageIDCounter, shadowProcessTable, cpuVars>>

\* A receiver at the copy is refused or copies.
LEMMA CopyMailIs ==
    ASSUME NEW p \in Procs, CopyMail(p), ~Crash
    PROVE  Refused(p) \/ Copies(p)
  BY DEF CopyMail, Refused, TooLarge, Copies

\* The copy keeps the types, and the receiver goes on to take that slot off.
LEMMA CopiesSteps ==
    ASSUME MailTypes, NEW p \in Procs, Copies(p)
    PROVE  /\ MailTypes'
           /\ \E g : /\ GoesOn(p, g) /\ g.pc = "pop" /\ g.mb = Top(p).mb
                     /\ g.slot = Box(p).mailSlotQueueHead
<1> DEFINE mesRec == Box(p).mailSlotQueueHead
<1>1. /\ frames[p] # <<>> /\ frames \in [Procs -> Seq(Frame)] /\ Top(p) \in Frame
      /\ Busy(p) /\ Box(p) \in MB /\ mesRec # NULL
      /\ messageSlots' = [messageSlots EXCEPT ![mesRec].isInitialized = FALSE]
      /\ buffer' = [buffer EXCEPT ![p] = messageSlots[mesRec].message]
      /\ frames' = [frames EXCEPT ![p][1].slot = mesRec, ![p][1].pc = "pop"]
      /\ UNCHANGED <<mbTable, messageIDCounter, shadowProcessTable, cpuVars>>
  BY AtEffect DEF Copies
<1>2. mesRec \in Slots
  BY <1>1 DEF MB
<1> DEFINE g == [Top(p) EXCEPT !.slot = mesRec, !.pc = "pop"]
<1>3. g \in Frame /\ g.pc = "pop" /\ g.mb = Top(p).mb /\ g.slot = mesRec
  BY <1>1, <1>2 DEF Frame, PCs
<1>4. frames' = [frames EXCEPT ![p] = [@ EXCEPT ![1] = g]]
  BY <1>1, TopTyped
<1> HIDE DEF g, mesRec
<1>5. GoesOn(p, g)
  BY <1>1, <1>3, <1>4, TopWritten
<1>6. messageSlots' \in [Slots -> Message] /\ buffer' \in [Procs -> Messages \cup {Empty}]
  BY <1>1, <1>2 DEF MailTypes, Message
<1>7. MailTypes'
  BY <1>1, <1>5, <1>6 DEF MailTypes, GoesOn, cpuVars
<1> QED
  BY <1>3, <1>5, <1>7 DEF mesRec

\* The copy is of the first message of the list, one that was in use; it frees the
\* slot, and leaves it first in the list.
LEMMA CopiesKeeps ==
    ASSUME MailTypes, NEW p \in Procs, Copies(p), NEW L, Sound(L),
           NEW b \in Mbs, Top(p).mb = b
    PROVE  /\ Sound(L)'
           /\ b \in Open /\ UNCHANGED mbTable
           /\ L[b] # <<>> /\ messageSlots[L[b][1]].isInitialized
           /\ messageSlots[L[b][1]].message \in Messages \cup {Empty}
           /\ buffer' = [buffer EXCEPT ![p] = messageSlots[L[b][1]].message]
           /\ ~messageSlots'[L[b][1]].isInitialized
           /\ \A a \in Mbs : \A i \in 1 .. Len(L[a]) :
                  /\ messageSlots'[L[a][i]].message = messageSlots[L[a][i]].message
                  /\ ~(a = b /\ i = 1) => messageSlots'[L[a][i]].isInitialized
                  /\ messageSlots[L[a][i]].isInitialized
<1> DEFINE s == Box(p).mailSlotQueueHead
<1>1. /\ frames[p] # <<>> /\ Top(p) \in Frame /\ current = p /\ Top(p).pc = "copy"
      /\ Busy(p) /\ s # NULL /\ b \in Mbs /\ Box(p) = mbTable[b]
      /\ messageSlots' = [messageSlots EXCEPT ![s].isInitialized = FALSE]
      /\ buffer' = [buffer EXCEPT ![p] = messageSlots[s].message]
      /\ UNCHANGED <<mbTable, current>>
  BY AtEffect DEF Copies, cpuVars, Box
<1>2. mbTable[b].isInitialized /\ Tail(frames[p]) = <<>>
  BY <1>1 DEF Sound, FrameSound
<1>3. PICK g : /\ GoesOn(p, g) /\ g.pc = "pop" /\ g.mb = b /\ g.slot = s
  BY CopiesSteps
<1>4. Top(p)' = g /\ Tail(frames'[p]) = <<>> /\ Busy(p)'
      /\ \A q \in Procs \ {p} : frames'[q] = frames[q]
  BY <1>2, <1>3 DEF GoesOn, Top, Busy
<1>5. L[b] # <<>> /\ s = L[b][1] /\ Heads[b] = s
  BY <1>1 DEF Sound, InBoxes, Chains, Heads
<1>6. 1 \in 1 .. Len(L[b]) /\ L[b] \in Seq(Slots)
  BY <1>1, <1>5, EmptySeq, LenProperties DEF Sound, InBoxes, Chains
<1>7. s \in Slots
  BY <1>5, <1>6, ElementOfSeq
<1>8. /\ ~messageSlots'[s].isInitialized
      /\ \A x \in Slots \ {s} : messageSlots'[x] = messageSlots[x]
      /\ \A x \in Slots : /\ messageSlots'[x].message = messageSlots[x].message
                          /\ messageSlots'[x].nextMessage = messageSlots[x].nextMessage
  BY <1>1, <1>7 DEF MailTypes, Message
<1>9. \A a \in Mbs : \A i \in 1 .. Len(L[a]) :
          L[a][i] \in Slots /\ messageSlots[L[a][i]].isInitialized
  BY <1>1, AllInUse
<1>10. \A a \in Mbs : \A i \in 1 .. Len(L[a]) :
          ~(a = b /\ i = 1) => messageSlots'[L[a][i]].isInitialized
  <2>1. \A a \in Mbs : \A i \in 1 .. Len(L[a]) :
          ~(a = b /\ i = 1) => L[a][i] # L[b][1]
    <3>1. \A a, c \in Mbs : \A i \in 1 .. Len(L[a]), j \in 1 .. Len(L[c]) :
              L[a][i] = L[c][j] => a = c /\ i = j
      BY DEF Sound, InBoxes, Chains
    <3> QED
      BY <1>1, <1>6, <3>1
  <2> QED
    BY <1>5, <1>8, <1>9, <2>1
<1>11. FrameSound(p)'
  BY <1>1, <1>3, <1>4, <1>7, <1>8 DEF FrameSound, Holding, AtOnce, Box
<1>12. Chains(L, Heads', MailLinks')
  <2>1. \A a \in Mbs : Heads'[a] = Heads[a]
    BY <1>1 DEF Heads
  <2>2. \A x \in Slots : MailLinks'[x] = MailLinks[x]
    BY <1>8 DEF MailLinks
  <2> QED
    BY <2>1, <2>2, ChainsKeep DEF Sound, InBoxes
<1>13. ~Holds(p)'
  BY <1>3, <1>4 DEF Holds, Holding
<1>14. \A q \in Procs \ {p} : Holds(q) =>
              /\ messageSlots'[Top(q).slot].isInitialized
              /\ messageSlots'[Top(q).slot].message = messageSlots[Top(q).slot].message
              /\ \A a \in Mbs : ~InList(Top(q).slot, L[a])
  <2>1. ASSUME NEW q \in Procs \ {p}, Holds(q)
        PROVE  /\ Top(q).slot \in Slots /\ messageSlots[Top(q).slot].isInitialized
               /\ \A a \in Mbs : ~InList(Top(q).slot, L[a])
    BY <2>1 DEF Sound, InBoxes, FrameSound, Holds
  <2>2. ASSUME NEW q \in Procs \ {p}, Holds(q)
        PROVE  Top(q).slot # s
    BY <1>1, <1>5, <1>6, <2>1, <2>2 DEF InList
  <2> QED
    BY <1>8, <2>1, <2>2
<1>15. \A a \in Mbs : \A i \in 1 .. Len(L[a]) :
              messageSlots'[L[a][i]].isInitialized \/ (i = 1 /\ Popping(p, a)')
  BY <1>3, <1>4, <1>10 DEF Popping
<1>16. \A a \in Open' :
              mbTable'[a].mailSlotsAvailable + Len(L[a]) = mbTable'[a].mailSlotLimit
  BY <1>1 DEF Open, Sound, InBoxes
<1>17. Sound(L)'
  BY <1>1, <1>4, <1>11, <1>12, <1>13, <1>14, <1>15, <1>16, SoundAgain
<1>18. messageSlots[s].message \in Messages \cup {Empty}
  BY <1>7 DEF MailTypes, Message
<1>19. b \in Open /\ messageSlots[L[b][1]].isInitialized
  <2>1. b \in Open
    BY <1>2 DEF Open
  <2>2. messageSlots[L[b][1]].isInitialized
    BY <1>6, <1>9
  <2> QED
    BY <2>1, <2>2
<1>20. \A a \in Mbs : \A i \in 1 .. Len(L[a]) :
          messageSlots'[L[a][i]].message = messageSlots[L[a][i]].message
  BY <1>8, <1>9
<1> QED
  BY <1>1, <1>2, <1>5, <1>8, <1>9, <1>10, <1>17, <1>18, <1>19, <1>20
\* The message that was copied leaves the list, and the mailbox has room again.
Pops(p) ==
    /\ At(p, "pop")
    /\ FirstConsumer(p) # NULL /\ Box(p).mailSlotQueueHead # NULL
    /\ mbTable' = [mbTable EXCEPT ![Top(p).mb] = Popped(@)]
    /\ Goto(p, "wake_producer")
    /\ UNCHANGED <<messageSlots, messageIDCounter, shadowProcessTable, buffer, cpuVars>>

\* A receiver at the pop takes the first message off the list.
LEMMA PopMailIs ==
    ASSUME NEW p \in Procs, PopMail(p), ~Crash
    PROVE  Pops(p)
  BY DEF PopMail, Pops

\* The pop keeps the types.
LEMMA PopsTypes ==
    ASSUME MailTypes, NEW p \in Procs, Pops(p)
    PROVE  MailTypes'
<1>1. /\ Busy(p) /\ Top(p).mb \in Mbs /\ Box(p) \in MB /\ Box(p) = mbTable[Top(p).mb]
      /\ FirstConsumer(p) # NULL /\ Box(p).mailSlotQueueHead # NULL
      /\ mbTable' = [mbTable EXCEPT ![Top(p).mb] = Popped(@)]
      /\ Goto(p, "wake_producer")
      /\ UNCHANGED <<messageSlots, messageIDCounter, shadowProcessTable, buffer, cpuVars>>
  BY AtEffect DEF Pops, Box
<1>2. /\ Box(p).consumerQueueHead \in Procs /\ Box(p).mailSlotQueueHead \in Slots
  BY <1>1 DEF MB, FirstConsumer, Node
<1>3. /\ shadowProcessTable[Box(p).consumerQueueHead].nextConsumerNode \in Node
      /\ messageSlots[Box(p).mailSlotQueueHead].nextMessage \in Slots \cup {NULL}
  BY <1>2 DEF MailTypes, Process, Message
<1>4. Popped(Box(p)) \in MB
  <2> DEFINE mb == Box(p)
             next == shadowProcessTable[mb.consumerQueueHead].nextConsumerNode
             mail == messageSlots[mb.mailSlotQueueHead].nextMessage
  <2>1. Popped(mb) = [mb EXCEPT !.consumerQueueHead = next, !.mailSlotQueueHead = mail,
                                !.mailSlotsAvailable = @ + 1]
    BY DEF Popped
  <2>2. mb \in MB /\ next \in Node /\ mail \in Slots \cup {NULL}
    BY <1>1, <1>3
  <2> HIDE DEF mb, next, mail
  <2>3. mb.mailSlotsAvailable + 1 \in Int
    BY <2>2 DEF MB
  <2>4. \A room \in Int : [mb EXCEPT !.consumerQueueHead = next,
              !.mailSlotQueueHead = mail, !.mailSlotsAvailable = room] \in MB
    BY <2>2 DEF MB
  <2>5. Popped(mb) \in MB
    BY <2>1, <2>3, <2>4
  <2> QED
    BY <2>5 DEF mb
<1>5. mbTable' \in [Mbs -> MB]
  BY <1>1, <1>4 DEF MailTypes
<1>6. frames' \in [Procs -> Seq(Frame)]
  <2>1. "wake_producer" \in PCs
    BY DEF PCs
  <2> QED
    BY <1>1, <2>1, GotoAs DEF GoesOn
<1> QED
  BY <1>1, <1>5, <1>6 DEF MailTypes, cpuVars

\* The pop takes off the slot whose message has been copied, and gives the room of
\* it back.
LEMMA PopsKeeps ==
    ASSUME MailTypes, NEW p \in Procs, Pops(p), NEW L, Sound(L),
           NEW b \in Mbs, Top(p).mb = b, NEW L1, Shortened(L, b, L1)
    PROVE  /\ Sound(L1)'
           /\ UNCHANGED <<messageSlots, buffer>>
           /\ \A a \in Mbs : mbTable'[a].isInitialized = mbTable[a].isInitialized
           /\ L[b] # <<>> /\ ~messageSlots[L[b][1]].isInitialized
           /\ \A a \in Mbs : \A i \in 1 .. Len(L[a]) :
                  ~(a = b /\ i = 1) => messageSlots[L[a][i]].isInitialized
<1> DEFINE s == Box(p).mailSlotQueueHead
<1>1. /\ Busy(p) /\ current = p /\ Top(p).pc = "pop" /\ Box(p) = mbTable[b]
      /\ s # NULL /\ mbTable' = [mbTable EXCEPT ![b] = Popped(@)]
      /\ Goto(p, "wake_producer") /\ Box(p) \in MB
      /\ UNCHANGED <<messageSlots, buffer, current>>
  BY AtEffect DEF Pops, cpuVars, Box
<1>2. Tail(frames[p]) = <<>> /\ ~messageSlots[s].isInitialized
  BY <1>1 DEF Sound, FrameSound
<1>3. PICK g : GoesOn(p, g) /\ g.pc = "wake_producer" /\ g.call = Top(p).call
  <2>1. "wake_producer" \in PCs
    BY DEF PCs
  <2> QED
    BY <1>1, <2>1, GotoAs
<1>4. Top(p)' = g /\ Tail(frames'[p]) = <<>> /\ Busy(p)'
      /\ \A q \in Procs \ {p} : frames'[q] = frames[q]
  BY <1>2, <1>3 DEF GoesOn, Top, Busy
<1>5. L[b] # <<>> /\ s = L[b][1] /\ Heads[b] = s
  BY <1>1 DEF Sound, InBoxes, Chains, Heads
<1>6. L \in [Mbs -> Seq(Slots)]
  BY DEF Sound, InBoxes, Chains
<1>7. PICK n \in Nat : n = Len(L[b])
  BY <1>1, <1>6, LenProperties
<1>8. /\ n # 0 /\ n - 1 \in Nat /\ Len(L1[b]) = n - 1
      /\ \A a \in Mbs \ {b} : L1[a] = L[a]
      /\ \A i \in 1 .. n - 1 : L1[b][i] = L[b][i + 1]
  BY <1>1, <1>5, <1>6, <1>7, EmptySeq, HeadTailProperties
     DEF Shortened
<1>9. /\ mbTable'[b].mailSlotQueueHead = messageSlots[s].nextMessage
      /\ mbTable'[b].mailSlotsAvailable = mbTable[b].mailSlotsAvailable + 1
      /\ mbTable'[b].mailSlotLimit = mbTable[b].mailSlotLimit
      /\ mbTable'[b].isInitialized = mbTable[b].isInitialized
      /\ \A a \in Mbs \ {b} : mbTable'[a] = mbTable[a]
  BY <1>1 DEF MailTypes, Popped, MB
<1>10. \A a \in Mbs : \A i \in 1 .. Len(L[a]) :
          ~(a = b /\ i = 1) => messageSlots[L[a][i]].isInitialized
  <2>1. \A q \in Procs, a \in Mbs : Popping(q, a) => a = b
    BY <1>1 DEF Popping, Sound, FrameSound, AtOnce
  <2> QED
    BY <2>1 DEF Sound, InBoxes
<1>11. s \in Slots
  BY <1>1 DEF MB
<1>12. FrameSound(p)'
  BY <1>3, <1>4 DEF FrameSound, Holding, AtOnce, GoesOnSoundly
<1>13. ~Holds(p)'
  BY <1>3, <1>4 DEF Holds, Holding
<1>14. \A q \in Procs \ {p} : Holds(q) =>
              /\ messageSlots'[Top(q).slot].isInitialized
              /\ messageSlots'[Top(q).slot].message = messageSlots[Top(q).slot].message
              /\ \A a \in Mbs : ~InList(Top(q).slot, L[a])
  BY <1>1 DEF Sound, InBoxes, FrameSound, Holds
<1>15. \A x \in Slots, a \in Mbs : InList(x, L1[a]) => InList(x, L[a])
  <2>1. ASSUME NEW x, NEW i \in 1 .. n - 1, L1[b][i] = x
        PROVE  InList(x, L[b])
    <3>1. i + 1 \in 1 .. Len(L[b])
      BY <1>7, <2>1
    <3> QED
      BY <1>8, <2>1, <3>1 DEF InList
  <2>2. ASSUME NEW x, InList(x, L1[b])
        PROVE  InList(x, L[b])
    BY <1>8, <2>1, <2>2 DEF InList
  <2> QED
    BY <1>8, <2>2
<1>16. \A q \in Procs \ {p} : Holds(q) => \A a \in Mbs : ~InList(Top(q).slot, L1[a])
  <2>1. \A q \in Procs : Holds(q) => Top(q).slot \in Slots
    BY DEF Sound, FrameSound, Holds
  <2> QED
    BY <1>14, <1>15, <2>1
<1>17. \A a \in Mbs : \A i \in 1 .. Len(L1[a]) : messageSlots'[L1[a][i]].isInitialized
  <2>1. ASSUME NEW i \in 1 .. n - 1
        PROVE  messageSlots'[L1[b][i]].isInitialized
    <3>1. i + 1 \in 1 .. Len(L[b]) /\ i + 1 # 1
      BY <1>7, <2>1
    <3> QED
      BY <1>1, <1>8, <1>10, <3>1
  <2>2. ASSUME NEW a \in Mbs \ {b}, NEW i \in 1 .. Len(L1[a])
        PROVE  messageSlots'[L1[a][i]].isInitialized
    BY <1>1, <1>8, <1>10, <2>2
  <2> QED
    BY <1>8, <2>1, <2>2
<1>18. Chains(L1, Heads', MailLinks')
  <2>1. Chains(L, Heads, MailLinks) /\ MailLinks' = MailLinks
    BY <1>1 DEF Sound, InBoxes, MailLinks
  <2>2. Heads'[b] = MailLinks[L[b][1]]
    BY <1>1, <1>5, <1>9, <1>11 DEF Heads, MailLinks
  <2>3. \A a \in Mbs \ {b} : Heads'[a] = Heads[a]
    BY <1>9 DEF Heads
  <2> QED
    BY <1>1, <1>5, <2>1, <2>2, <2>3, ChainsPop
<1>19. \A a \in Open' :
              mbTable'[a].mailSlotsAvailable + Len(L1[a]) = mbTable'[a].mailSlotLimit
  <2>1. \A a \in Open : mbTable[a].mailSlotsAvailable + Len(L[a]) = mbTable[a].mailSlotLimit
    BY DEF Sound, InBoxes
  <2>2. Open' = Open
    BY <1>9 DEF Open
  <2>3. ASSUME b \in Open
        PROVE  mbTable'[b].mailSlotsAvailable + Len(L1[b]) = mbTable'[b].mailSlotLimit
    <3>1. /\ mbTable[b].mailSlotsAvailable \in Int
          /\ mbTable[b].mailSlotsAvailable + n = mbTable[b].mailSlotLimit
      BY <1>1, <1>7, <2>1, <2>3 DEF MB
    <3>2. (mbTable[b].mailSlotsAvailable + 1) + (n - 1) = mbTable[b].mailSlotLimit
      BY <3>1
    <3> QED
      BY <1>8, <1>9, <3>2
  <2> QED
    BY <1>8, <1>9, <2>1, <2>2, <2>3 DEF Open
<1>20. Sound(L1)'
  BY <1>1, <1>4, <1>12, <1>13, <1>14, <1>16, <1>17, <1>18, <1>19, SoundAgain
<1>21. \A a \in Mbs : mbTable'[a].isInitialized = mbTable[a].isInitialized
  BY <1>9
<1>22. ~messageSlots[L[b][1]].isInitialized
  BY <1>2, <1>5
<1> QED
  BY <1>1, <1>5, <1>10, <1>20, <1>21, <1>22
\* The last of a list is what the walk to its end finds.
LEMMA TailFound ==
    ASSUME NEW L, NEW head, NEW next \in [Slots -> Slots \cup {NULL}],
           Chains(L, head, next), NEW b \in Mbs, L[b] # <<>>
    PROVE  Tails(next, head[b]) = {L[b][Len(L[b])]}
  BY ListsFound

\* The message goes behind the others.
LEMMA MailedEffect ==
    ASSUME MailTypes, NEW L, Chains(L, Heads, MailLinks), NEW b \in Mbs, NEW m \in Slots,
           \A a \in Mbs : ~InList(m, L[a]),
           messageSlots' = Mailed(m, mbTable[b].mailSlotQueueHead)
    PROVE  /\ messageSlots' \in [Slots -> Message]
           /\ \A s \in Slots :
                  /\ messageSlots'[s].isInitialized = messageSlots[s].isInitialized
                  /\ messageSlots'[s].message = messageSlots[s].message
           /\ messageSlots'[m].nextMessage = NULL
           /\ L[b] # <<>> => messageSlots'[L[b][Len(L[b])]].nextMessage = m
           /\ \A s \in Slots \ {m} : L[b] = <<>> \/ s # L[b][Len(L[b])] =>
                  messageSlots'[s].nextMessage = messageSlots[s].nextMessage
<1> DEFINE first == mbTable[b].mailSlotQueueHead
           last == L[b][Len(L[b])]
<1>1. /\ L[b] \in Seq(Slots)
      /\ first = IF L[b] = <<>> THEN NULL ELSE L[b][1]
  BY DEF Chains, Heads
<1>2. MailLinks \in [Slots -> Slots \cup {NULL}]
  BY DEF MailLinks, MailTypes, Message
<1>3. L[b] # <<>> => /\ first \in Slots /\ first # NULL
                     /\ last \in Slots /\ last # m /\ Tails(MailLinks, first) = {last}
  <2> HAVE L[b] # <<>>
  <2>1. 1 \in 1 .. Len(L[b]) /\ Len(L[b]) \in 1 .. Len(L[b])
    BY <1>1, EmptySeq, LenProperties
  <2>2. first \in Slots /\ last \in Slots /\ last # m
    BY <1>1, <2>1, ElementOfSeq DEF InList
  <2>3. Tails(MailLinks, Heads[b]) = {last}
    <3>1. L[b] # <<>> => Tails(MailLinks, Heads[b]) = {L[b][Len(L[b])]}
      BY <1>2, TailFound
    <3> QED
      BY <3>1
  <2> QED
    BY <2>2, <2>3, SlotsFinite DEF Heads
<1>4. CASE L[b] = <<>>
  <2>1. messageSlots' = [messageSlots EXCEPT ![m].nextMessage = m, ![m].nextMessage = NULL]
    BY <1>1, <1>4 DEF Mailed
  <2> DEFINE then == [messageSlots EXCEPT ![m].nextMessage = m]
  <2>2. messageSlots' = [then EXCEPT ![m].nextMessage = NULL]
    BY <2>1
  <2>3. /\ then \in [Slots -> Message]
        /\ \A r \in Slots : /\ then[r].isInitialized = messageSlots[r].isInitialized
                            /\ then[r].message = messageSlots[r].message
                            /\ r # m => then[r].nextMessage = messageSlots[r].nextMessage
    BY DEF MailTypes, Message
  <2> HIDE DEF then
  <2> QED
    BY <1>4, <2>2, <2>3 DEF Message
<1>5. CASE L[b] # <<>>
  <2>1. (CHOOSE t \in Tails(MailLinks, first) : TRUE) = last
    BY <1>3, <1>5
  <2>2. messageSlots' = [messageSlots EXCEPT ![last].nextMessage = m, ![m].nextMessage = NULL]
    BY <1>3, <1>5, <2>1 DEF Mailed
  <2> DEFINE then == [messageSlots EXCEPT ![last].nextMessage = m]
  <2>3. messageSlots' = [then EXCEPT ![m].nextMessage = NULL]
    BY <2>2
  <2>4. /\ then \in [Slots -> Message] /\ then[last].nextMessage = m
        /\ \A r \in Slots : /\ then[r].isInitialized = messageSlots[r].isInitialized
                            /\ then[r].message = messageSlots[r].message
                            /\ r # last => then[r].nextMessage = messageSlots[r].nextMessage
    <3>1. messageSlots \in [Slots -> Message] /\ m \in Slots \cup {NULL} /\ last \in Slots
      BY <1>3, <1>5 DEF MailTypes
    <3> HIDE DEF last
    <3> QED
      BY <3>1 DEF Message
  <2>5. last \in Slots /\ last # m
    BY <1>3, <1>5
  <2> HIDE DEF then, last
  <2>6. /\ messageSlots' \in [Slots -> Message] /\ messageSlots'[m].nextMessage = NULL
        /\ \A r \in Slots : /\ messageSlots'[r].isInitialized = then[r].isInitialized
                            /\ messageSlots'[r].message = then[r].message
                            /\ r # m => messageSlots'[r].nextMessage = then[r].nextMessage
    BY <2>3, <2>4 DEF Message
  <2> QED
    BY <1>5, <2>4, <2>5, <2>6 DEF last
<1> QED
  BY <1>4, <1>5

\* After addToMailQueue, MboxSend wakes a consumer and MboxCondSend returns.
LEMMA addToMailQueueSteps ==
    ASSUME MailTypes, NEW p \in Procs, addToMailQueue(p)
    PROVE  /\ frames' \in [Procs -> Seq(Frame)]
           /\ \A q \in Procs \ {p} : frames'[q] = frames[q]
           /\ frames'[p] # <<>> /\ Tail(frames[p]) = <<>> =>
                  /\ Tail(frames'[p]) = <<>>
                  /\ Head(frames'[p]).pc = "wake_consumer"
                  /\ Head(frames'[p]).call # "MboxCondSend"
<1>1. Busy(p) /\ frames[p] # <<>> /\ frames \in [Procs -> Seq(Frame)]
  BY AtEffect DEF addToMailQueue
<1>2. CASE Return(p)
  BY <1>1, <1>2, ReturnEffect
<1>3. CASE ~Return(p)
  <2>1. Goto(p, "wake_consumer") /\ Top(p).call # "MboxCondSend" /\ "wake_consumer" \in PCs
    BY <1>3 DEF addToMailQueue, PCs
  <2>2. PICK g : GoesOn(p, g) /\ g.pc = "wake_consumer" /\ g.call = Top(p).call
    BY <1>1, <2>1, GotoAs
  <2> QED
    BY <2>1, <2>2 DEF GoesOn
<1> QED
  BY <1>2, <1>3

\* addToMailQueue links the sender's slot behind the last of its mailbox, and takes
\* the room for it: without interrupts the sender has both.
LEMMA addToMailQueueKeeps ==
    ASSUME MailTypes, NEW p \in Procs, addToMailQueue(p), NEW L, Sound(L),
           NEW b \in Mbs, Top(p).mb = b, NEW m, Top(p).slot = m
    PROVE  /\ MailTypes'
           /\ Sound([L EXCEPT ![b] = Append(L[b], m)])'
           /\ UNCHANGED buffer
           /\ \A a \in Mbs : mbTable'[a].isInitialized = mbTable[a].isInitialized
           /\ m \in Slots /\ messageSlots[m].message \in Messages
           /\ messageSlots'[m].isInitialized
           /\ \A s \in Slots : messageSlots'[s].message = messageSlots[s].message
           /\ \A a \in Mbs : \A i \in 1 .. Len(L[a]) :
                  /\ messageSlots[L[a][i]].isInitialized
                  /\ messageSlots'[L[a][i]].isInitialized
<1> DEFINE first == mbTable[b].mailSlotQueueHead
           L1 == [L EXCEPT ![b] = Append(L[b], m)]
<1>1. /\ Busy(p) /\ current = p /\ Top(p).pc = "mail" /\ Box(p) = mbTable[b]
      /\ mbTable' = [mbTable EXCEPT ![b].mailSlotsAvailable = @ - 1,
                                    ![b].mailSlotQueueHead = IF @ = NULL THEN m ELSE @]
      /\ messageSlots' = Mailed(m, first)
      /\ UNCHANGED <<messageIDCounter, shadowProcessTable, buffer, cpuVars>>
  BY AtEffect DEF addToMailQueue, Box
<1>2. Holds(p)
  BY <1>1 DEF Holds, Holding
<1>3. /\ m \in Slots /\ messageSlots[m].isInitialized /\ messageSlots[m].message \in Messages
      /\ Tail(frames[p]) = <<>> /\ \A a \in Mbs : ~InList(m, L[a])
  BY <1>1, <1>2 DEF Sound, FrameSound, InBoxes, Holds
<1>4. Chains(L, Heads, MailLinks)
  BY DEF Sound, InBoxes
<1>5. /\ messageSlots' \in [Slots -> Message]
      /\ \A s \in Slots : /\ messageSlots'[s].isInitialized = messageSlots[s].isInitialized
                          /\ messageSlots'[s].message = messageSlots[s].message
      /\ messageSlots'[m].nextMessage = NULL
      /\ L[b] # <<>> => messageSlots'[L[b][Len(L[b])]].nextMessage = m
      /\ \A s \in Slots \ {m} : L[b] = <<>> \/ s # L[b][Len(L[b])] =>
             messageSlots'[s].nextMessage = messageSlots[s].nextMessage
  BY <1>1, <1>3, <1>4, MailedEffect
<1>6. /\ mbTable' \in [Mbs -> MB]
      /\ mbTable'[b].mailSlotQueueHead = IF first = NULL THEN m ELSE first
      /\ mbTable'[b].mailSlotsAvailable = mbTable[b].mailSlotsAvailable - 1
      /\ mbTable'[b].mailSlotLimit = mbTable[b].mailSlotLimit
      /\ mbTable'[b].isInitialized = mbTable[b].isInitialized
      /\ \A a \in Mbs \ {b} : mbTable'[a] = mbTable[a]
  <2>1. first \in Slots \cup {NULL} /\ mbTable[b] \in MB
    BY DEF MailTypes, MB
  <2> DEFINE then == [mbTable EXCEPT ![b].mailSlotsAvailable = @ - 1]
             h == IF first = NULL THEN m ELSE first
  <2>2. /\ then \in [Mbs -> MB] /\ then[b].mailSlotQueueHead = first
        /\ then[b].mailSlotsAvailable = mbTable[b].mailSlotsAvailable - 1
        /\ then[b].mailSlotLimit = mbTable[b].mailSlotLimit
        /\ then[b].isInitialized = mbTable[b].isInitialized
        /\ \A a \in Mbs \ {b} : then[a] = mbTable[a]
    <3>1. mbTable \in [Mbs -> MB]
      BY DEF MailTypes
    <3>2. \A room \in Int : [mbTable[b] EXCEPT !.mailSlotsAvailable = room] \in MB
      BY <2>1 DEF MB
    <3>3. mbTable[b].mailSlotsAvailable - 1 \in Int
      BY <2>1 DEF MB
    <3>4. [mbTable[b] EXCEPT !.mailSlotsAvailable = @ - 1] \in MB
      BY <3>2, <3>3
    <3> DEFINE mb == [mbTable[b] EXCEPT !.mailSlotsAvailable = @ - 1]
    <3>5. then = [mbTable EXCEPT ![b] = mb]
      BY <3>1
    <3>6. /\ mb \in MB /\ mb.mailSlotQueueHead = first
          /\ mb.mailSlotsAvailable = mbTable[b].mailSlotsAvailable - 1
          /\ mb.mailSlotLimit = mbTable[b].mailSlotLimit
          /\ mb.isInitialized = mbTable[b].isInitialized
      BY <2>1, <3>4 DEF MB
    <3> HIDE DEF then, mb
    <3> QED
      BY <3>1, <3>5, <3>6
  <2>3. mbTable' = [then EXCEPT ![b].mailSlotQueueHead = h]
    BY <1>1, <2>2
  <2>4. h \in Slots \cup {NULL}
    BY <1>3, <2>1
  <2> HIDE DEF then, h
  <2>5. /\ mbTable' \in [Mbs -> MB] /\ mbTable'[b].mailSlotQueueHead = h
        /\ mbTable'[b].mailSlotsAvailable = then[b].mailSlotsAvailable
        /\ mbTable'[b].mailSlotLimit = then[b].mailSlotLimit
        /\ mbTable'[b].isInitialized = then[b].isInitialized
        /\ \A a \in Mbs \ {b} : mbTable'[a] = then[a]
    BY <2>2, <2>3, <2>4 DEF MB
  <2> QED
    BY <2>2, <2>5 DEF h
<1>7. /\ frames' \in [Procs -> Seq(Frame)]
      /\ \A q \in Procs \ {p} : frames'[q] = frames[q]
      /\ Busy(p)' => /\ Tail(frames'[p]) = <<>> /\ Top(p)'.pc = "wake_consumer"
                     /\ Top(p)'.call # "MboxCondSend"
  BY <1>3, addToMailQueueSteps DEF Busy, Top
<1>8. MailTypes'
  BY <1>1, <1>5, <1>6, <1>7 DEF MailTypes, cpuVars
<1>9. FrameSound(p)' /\ ~Holds(p)' /\ \A a \in Mbs : ~Popping(p, a)'
  BY <1>7 DEF FrameSound, Holds, Holding, AtOnce, Popping
<1>10. Chains(L1, Heads', MailLinks')
  <2>1. Heads'[b] = IF L[b] = <<>> THEN m ELSE Heads[b]
    <3>1. Heads[b] = IF L[b] = <<>> THEN NULL ELSE L[b][1]
      BY <1>4 DEF Chains
    <3>2. L[b] # <<>> => Heads[b] # NULL
      <4> HAVE L[b] # <<>>
      <4>1. L[b] \in Seq(Slots) /\ 1 \in 1 .. Len(L[b])
        BY <1>4, EmptySeq, LenProperties DEF Chains
      <4> QED
        BY <3>1, <4>1, ElementOfSeq, SlotsFinite
    <3> QED
      BY <1>6, <3>1, <3>2 DEF Heads
  <2>2. \A a \in Mbs \ {b} : Heads'[a] = Heads[a]
    BY <1>6 DEF Heads
  <2>3. \A s \in Slots : MailLinks'[s] = messageSlots'[s].nextMessage
                         /\ MailLinks[s] = messageSlots[s].nextMessage
    BY DEF MailLinks
  <2>4. L[b] # <<>> => L[b][Len(L[b])] \in Slots
    <3> HAVE L[b] # <<>>
    <3>1. L[b] \in Seq(Slots) /\ Len(L[b]) \in 1 .. Len(L[b])
      BY <1>4, EmptySeq, LenProperties DEF Chains
    <3> QED
      BY <3>1, ElementOfSeq
  <2>5. /\ MailLinks'[m] = NULL
        /\ L[b] # <<>> => MailLinks'[L[b][Len(L[b])]] = m
        /\ \A s \in Slots \ {m} : L[b] = <<>> \/ s # L[b][Len(L[b])] =>
                MailLinks'[s] = MailLinks[s]
    BY <1>3, <1>5, <2>3, <2>4
  <2>6. Chains([L EXCEPT ![b] = Append(L[b], m)], Heads', MailLinks')
    <3>1. PICK head1, next1 : head1 = Heads' /\ next1 = MailLinks'
      OBVIOUS
    <3>2. /\ head1[b] = IF L[b] = <<>> THEN m ELSE Heads[b]
          /\ \A a \in Mbs \ {b} : head1[a] = Heads[a]
          /\ next1[m] = NULL
          /\ L[b] # <<>> => next1[L[b][Len(L[b])]] = m
          /\ \A s \in Slots \ {m} : L[b] = <<>> \/ s # L[b][Len(L[b])] =>
                next1[s] = MailLinks[s]
      BY <2>1, <2>2, <2>5, <3>1
    <3>3. PICK L2 : L2 = [L EXCEPT ![b] = Append(L[b], m)]
      OBVIOUS
    <3>4. Appended(L, Heads, MailLinks, b, m, L2, head1, next1)
      BY <1>3, <3>2, <3>3 DEF Appended
    <3>5. Chains(L2, head1, next1)
      BY <1>3, <1>4, <3>4, ChainsAppend
    <3> QED
      BY <3>1, <3>3, <3>5
  <2> QED
    BY <2>6 DEF L1
<1>11. L \in [Mbs -> Seq(Slots)] /\ L[b] \in Seq(Slots)
  BY <1>4 DEF Chains
<1>12. PICK n \in Nat : n = Len(L[b])
  BY <1>11, LenProperties
<1>13. /\ Len(L1[b]) = n + 1 /\ L1[b][n + 1] = m
       /\ \A i \in 1 .. n : L1[b][i] = L[b][i]
       /\ \A a \in Mbs \ {b} : L1[a] = L[a]
  BY <1>3, <1>11, <1>12, AppendProperties
<1> HIDE DEF L1
<1>14. \A a \in Mbs : \A i \in 1 .. Len(L[a]) :
          /\ L[a][i] \in Slots
          /\ messageSlots[L[a][i]].isInitialized /\ messageSlots'[L[a][i]].isInitialized
  BY <1>1, <1>5, AllInUse
<1>15. \A a \in Mbs : \A i \in 1 .. Len(L1[a]) :
          L1[a][i] = m \/ InList(L1[a][i], L[a])
  <2>1. ASSUME NEW i \in 1 .. n + 1
        PROVE  i = n + 1 \/ i \in 1 .. n
    BY <2>1
  <2>2. \A i \in 1 .. n + 1 : L1[b][i] = m \/ InList(L1[b][i], L[b])
    BY <1>12, <1>13, <2>1 DEF InList
  <2> QED
    BY <1>13, <2>2 DEF InList
<1>16. \A q \in Procs \ {p} : Holds(q) =>
              /\ messageSlots'[Top(q).slot].isInitialized
              /\ messageSlots'[Top(q).slot].message = messageSlots[Top(q).slot].message
              /\ \A a \in Mbs : ~InList(Top(q).slot, L1[a])
  <2>1. ASSUME NEW q \in Procs \ {p}, Holds(q)
        PROVE  /\ Top(q).slot \in Slots /\ messageSlots[Top(q).slot].isInitialized
               /\ \A a \in Mbs : ~InList(Top(q).slot, L[a])
               /\ Top(q).slot # m
    BY <1>2, <2>1 DEF Sound, InBoxes, FrameSound, Holds, Alone
  <2>2. ASSUME NEW s, s # m, NEW a \in Mbs, ~InList(s, L[a])
        PROVE  ~InList(s, L1[a])
    BY <1>15, <2>2 DEF InList
  <2> QED
    BY <1>5, <2>1, <2>2
<1>17. \A a \in Mbs : \A i \in 1 .. Len(L1[a]) : messageSlots'[L1[a][i]].isInitialized
  BY <1>3, <1>5, <1>14, <1>15 DEF InList
<1>18. \A a \in Open' :
              mbTable'[a].mailSlotsAvailable + Len(L1[a]) = mbTable'[a].mailSlotLimit
  <2>1. \A a \in Open : mbTable[a].mailSlotsAvailable + Len(L[a]) = mbTable[a].mailSlotLimit
    BY DEF Sound, InBoxes
  <2>2. Open' = Open
    BY <1>6 DEF Open
  <2>3. ASSUME b \in Open
        PROVE  mbTable'[b].mailSlotsAvailable + Len(L1[b]) = mbTable'[b].mailSlotLimit
    <3>1. /\ mbTable[b].mailSlotsAvailable \in Int
          /\ mbTable[b].mailSlotsAvailable + n = mbTable[b].mailSlotLimit
      BY <1>12, <2>1, <2>3 DEF MB, MailTypes
    <3>2. (mbTable[b].mailSlotsAvailable - 1) + (n + 1) = mbTable[b].mailSlotLimit
      BY <3>1
    <3> QED
      BY <1>6, <1>13, <3>2
  <2> QED
    BY <1>6, <1>13, <2>1, <2>2, <2>3 DEF Open
<1>19. Sound(L1)'
  BY <1>1, <1>7, <1>9, <1>10, <1>16, <1>17, <1>18, SoundAgain
<1>20. Sound([L EXCEPT ![b] = Append(L[b], m)])'
  BY <1>19 DEF L1
<1> QED
  BY <1>1, <1>3, <1>5, <1>6, <1>8, <1>14, <1>20
\* A mailbox is closed, and its list is freed.
Releases(p, b) ==
    /\ InUserCode(p, "MboxRelease")
    /\ messageSlots' = [s \in Slots |->
          [messageSlots[s] EXCEPT !.isInitialized =
              @ /\ s \notin Reach(MailLinks, mbTable[b].mailSlotQueueHead)]]
    /\ mbTable' = [mbTable EXCEPT ![b].isInitialized = FALSE,
                                  ![b].released = TRUE,
                                  ![b].mailSlotQueueHead = NULL]
    /\ Enter(p, "MboxRelease", "free_consumers", b, Empty, 0)
    /\ UNCHANGED <<messageIDCounter, shadowProcessTable, buffer, cpuVars>>

\* MboxRelease, for the mailbox it names.
LEMMA MboxReleaseIs ==
    ASSUME NEW p \in Procs, MboxRelease(p)
    PROVE  \E b \in Mbs : Releases(p, b)
  BY DEF MboxRelease, Releases

\* MboxRelease keeps the types, and goes on to free the consumers.
LEMMA ReleasesTypes ==
    ASSUME MailTypes, NEW p \in Procs, NEW b \in Mbs, Releases(p, b)
    PROVE  /\ MailTypes'
           /\ current = p /\ frames[p] = <<>>
           /\ frames'[p] # <<>> /\ Tail(frames'[p]) = <<>>
           /\ Head(frames'[p]).pc = "free_consumers"
           /\ \A q \in Procs \ {p} : frames'[q] = frames[q]
<1>1. /\ current = p /\ frames[p] = <<>>
      /\ Enter(p, "MboxRelease", "free_consumers", b, Empty, 0)
      /\ UNCHANGED <<messageIDCounter, shadowProcessTable, buffer, cpuVars>>
  BY DEF Releases, InUserCode
<1> DEFINE g == Called("MboxRelease", "free_consumers", b, Empty, 0)
<1>2. /\ frames' \in [Procs -> Seq(Frame)]
      /\ frames'[p] # <<>> /\ Head(frames'[p]) = g /\ Tail(frames'[p]) = frames[p]
      /\ \A q \in Procs \ {p} : frames'[q] = frames[q]
  <2>1. frames \in [Procs -> Seq(Frame)] /\ "free_consumers" \in PCs /\ 0 \in Nat
        /\ "MboxRelease" \in AllCalls
    BY DEF MailTypes, PCs, AllCalls
  <2> QED
    BY <1>1, <2>1, EnterEffect
<1>3. messageSlots' \in [Slots -> Message]
  BY DEF Releases, MailTypes, Message
<1>4. mbTable' \in [Mbs -> MB]
  <2>1. mbTable' = [mbTable EXCEPT ![b] = [@ EXCEPT !.isInitialized = FALSE,
                        !.released = TRUE, !.mailSlotQueueHead = NULL]]
    BY DEF Releases, MailTypes
  <2>2. [mbTable[b] EXCEPT !.isInitialized = FALSE, !.released = TRUE,
                           !.mailSlotQueueHead = NULL] \in MB
    BY DEF MailTypes, MB
  <2> QED
    BY <2>1, <2>2 DEF MailTypes
<1>5. MailTypes'
  BY <1>1, <1>2, <1>3, <1>4 DEF MailTypes, cpuVars
<1>6. g.pc = "free_consumers"
  BY DEF Called
<1> QED
  BY <1>1, <1>2, <1>5, <1>6

\* MboxRelease empties the list of its mailbox and touches no other; no process has
\* a copied message to take off it, for such a process would be the one running.
LEMMA ReleasesKeeps ==
    ASSUME MailTypes, NEW p \in Procs, NEW b \in Mbs, Releases(p, b), NEW L, Sound(L)
    PROVE  /\ Sound([L EXCEPT ![b] = <<>>])'
           /\ UNCHANGED buffer
           /\ ~mbTable'[b].isInitialized
           /\ \A a \in Mbs \ {b} : mbTable'[a].isInitialized = mbTable[a].isInitialized
           /\ \A a \in Mbs \ {b} : \A i \in 1 .. Len(L[a]) :
                  messageSlots'[L[a][i]] = messageSlots[L[a][i]]
<1> DEFINE L1 == [L EXCEPT ![b] = <<>>]
<1>1. /\ current = p /\ frames[p] = <<>>
      /\ frames'[p] # <<>> /\ Tail(frames'[p]) = <<>>
      /\ Head(frames'[p]).pc = "free_consumers"
      /\ \A q \in Procs \ {p} : frames'[q] = frames[q]
  BY ReleasesTypes
<1>2. UNCHANGED <<buffer, current>>
  BY DEF Releases, cpuVars
<1>3. Chains(L, Heads, MailLinks)
  BY DEF Sound, InBoxes
<1>4. \A s \in Slots :
          messageSlots'[s] = IF InList(s, L[b])
                             THEN [messageSlots[s] EXCEPT !.isInitialized = FALSE]
                             ELSE messageSlots[s]
  <2>1. MailLinks \in [Slots -> Slots \cup {NULL}]
    BY DEF MailLinks, MailTypes, Message
  <2>2. \A x : x \in Reach(MailLinks, Heads[b]) <=> InList(x, L[b])
    BY <1>3, <2>1, ListsFound
  <2>3. \A s \in Slots : messageSlots'[s] =
          [messageSlots[s] EXCEPT !.isInitialized =
              messageSlots[s].isInitialized /\ ~InList(s, L[b])]
    BY <2>2 DEF Releases, Heads
  <2>4. \A s \in Slots :
          /\ [messageSlots[s] EXCEPT !.isInitialized = messageSlots[s].isInitialized]
                = messageSlots[s]
          /\ messageSlots[s].isInitialized \in BOOLEAN
    BY DEF MailTypes, Message
  <2>5. ASSUME NEW s \in Slots, InList(s, L[b])
        PROVE  (messageSlots[s].isInitialized /\ ~InList(s, L[b])) = FALSE
    BY <2>5
  <2>6. ASSUME NEW s \in Slots, ~InList(s, L[b])
        PROVE  (messageSlots[s].isInitialized /\ ~InList(s, L[b]))
                   = messageSlots[s].isInitialized
    BY <2>4, <2>6
  <2>7. ASSUME NEW s \in Slots, InList(s, L[b])
        PROVE  messageSlots'[s] = [messageSlots[s] EXCEPT !.isInitialized = FALSE]
    BY <2>3, <2>5, <2>7, Zenon
  <2>8. ASSUME NEW s \in Slots, ~InList(s, L[b])
        PROVE  messageSlots'[s] = messageSlots[s]
    <3>1. (messageSlots[s].isInitialized /\ ~InList(s, L[b]))
              = messageSlots[s].isInitialized
      BY <2>6, <2>8
    <3>2. messageSlots'[s] = [messageSlots[s] EXCEPT !.isInitialized =
                                  messageSlots[s].isInitialized]
      BY <2>3, <3>1, Zenon
    <3> QED
      BY <2>4, <3>2
  <2> QED
    BY <2>7, <2>8
<1>5. /\ ~mbTable'[b].isInitialized /\ mbTable'[b].mailSlotQueueHead = NULL
      /\ \A a \in Mbs \ {b} : mbTable'[a] = mbTable[a]
  <2>1. mbTable' = [mbTable EXCEPT ![b] = [@ EXCEPT !.isInitialized = FALSE,
                        !.released = TRUE, !.mailSlotQueueHead = NULL]]
    BY DEF Releases, MailTypes
  <2>2. mbTable[b] \in MB
    BY DEF MailTypes
  <2> QED
    BY <2>1, <2>2 DEF MailTypes, MB
<1>6. \A a \in Mbs : \A i \in 1 .. Len(L[a]) :
          L[a][i] \in Slots /\ messageSlots[L[a][i]].isInitialized
  BY <1>1, AllInUse DEF Busy
<1>7. \A a \in Mbs \ {b} : \A i \in 1 .. Len(L[a]) :
          messageSlots'[L[a][i]] = messageSlots[L[a][i]]
  <2>1. \A a \in Mbs \ {b} : \A i \in 1 .. Len(L[a]) : ~InList(L[a][i], L[b])
    BY <1>3 DEF Chains, InList
  <2> QED
    BY <1>4, <1>6, <2>1
<1>8. L1 \in [Mbs -> Seq(Slots)] /\ L1[b] = <<>> /\ \A a \in Mbs \ {b} : L1[a] = L[a]
  BY <1>3, EmptySeq DEF Chains
<1>9. Chains(L1, Heads', MailLinks')
  <2>1. \A s \in Slots : MailLinks'[s] = MailLinks[s]
    BY <1>4 DEF MailLinks, MailTypes, Message
  <2>2. Heads'[b] = NULL /\ \A a \in Mbs \ {b} : Heads'[a] = Heads[a]
    BY <1>5 DEF Heads
  <2>3. PICK head1, next1 : head1 = Heads' /\ next1 = MailLinks'
    OBVIOUS
  <2>4. Chains(L1, head1, MailLinks)
    BY <1>3, <2>2, <2>3, ChainsClear
  <2> HIDE DEF L1
  <2>5. Chains(L1, head1, next1)
    BY <2>1, <2>3, <2>4, ChainsKeep
  <2> QED
    BY <2>3, <2>5
<1> HIDE DEF L1
<1>10. \A i \in 1 .. Len(L1[b]) : FALSE
  BY <1>8, EmptySeq
<1>11. FrameSound(p)' /\ ~Holds(p)'
  BY <1>1 DEF FrameSound, Holds, Holding, AtOnce, Top
<1>12. \A q \in Procs \ {p} : Holds(q) =>
              /\ messageSlots'[Top(q).slot].isInitialized
              /\ messageSlots'[Top(q).slot].message = messageSlots[Top(q).slot].message
              /\ \A a \in Mbs : ~InList(Top(q).slot, L1[a])
  <2>1. ASSUME NEW q \in Procs, Holds(q)
        PROVE  /\ Top(q).slot \in Slots /\ messageSlots[Top(q).slot].isInitialized
               /\ \A a \in Mbs : ~InList(Top(q).slot, L[a])
    BY <2>1 DEF Sound, InBoxes, FrameSound, Holds
  <2>2. \A a \in Mbs, x \in Slots : InList(x, L1[a]) => InList(x, L[a])
    BY <1>8, <1>10 DEF InList
  <2> QED
    BY <1>4, <2>1, <2>2
<1>13. \A a \in Mbs : \A i \in 1 .. Len(L1[a]) : messageSlots'[L1[a][i]].isInitialized
  BY <1>6, <1>7, <1>8, <1>10
<1>14. \A a \in Open' :
              mbTable'[a].mailSlotsAvailable + Len(L1[a]) = mbTable'[a].mailSlotLimit
  BY <1>5, <1>8 DEF Open, Sound, InBoxes
<1>15. Sound(L1)'
  BY <1>1, <1>9, <1>11, <1>12, <1>13, <1>14, SoundAgain
<1>16. Sound([L EXCEPT ![b] = <<>>])'
  BY <1>15 DEF L1
<1> QED
  BY <1>2, <1>5, <1>7, <1>16

\* A mailbox is opened, and has no messages.
Creates(p, b) ==
    /\ InUserCode(p, "MboxCreate")
    /\ ~mbTable[b].isInitialized
    /\ \E numSlots \in SlotLimits : mbTable' = [mbTable EXCEPT ![b] = NewMb(numSlots)]
    /\ UNCHANGED <<messageSlots, messageIDCounter, shadowProcessTable, buffer,
                   frames, cpuVars>>

\* MboxCreate, for the mailbox it finds.
LEMMA MboxCreateIs ==
    ASSUME NEW p \in Procs, MboxCreate(p)
    PROVE  \E b \in Mbs : Creates(p, b)
  BY DEF MboxCreate, Creates, OpenMbs

\* A mailbox just created is typed.
LEMMA NewMbTyped ==
    ASSUME NEW numSlots \in SlotLimits
    PROVE  NewMb(numSlots) \in MB
<1>1. numSlots \in Nat /\ numSlots \in Int
  BY MailboxAssumption
<1> QED
  BY <1>1 DEF NewMb, MB, Node

\* MboxCreate opens a mailbox with an empty list and all its room.
LEMMA CreatesKeeps ==
    ASSUME MailTypes, NEW p \in Procs, NEW b \in Mbs, Creates(p, b)
    PROVE  /\ MailTypes'
           /\ \A L : Sound(L) => Sound([L EXCEPT ![b] = <<>>])'
           /\ UNCHANGED <<buffer, messageSlots>>
           /\ ~mbTable[b].isInitialized /\ mbTable'[b].isInitialized
           /\ \A a \in Mbs \ {b} : mbTable'[a].isInitialized = mbTable[a].isInitialized
<1>1. /\ current = p /\ frames[p] = <<>> /\ ~mbTable[b].isInitialized
      /\ UNCHANGED <<messageSlots, messageIDCounter, shadowProcessTable, buffer,
                     frames, cpuVars>>
  BY DEF Creates, InUserCode
<1>2. PICK numSlots \in SlotLimits : mbTable' = [mbTable EXCEPT ![b] = NewMb(numSlots)]
  BY DEF Creates
<1>3. /\ mbTable' \in [Mbs -> MB] /\ mbTable'[b] = NewMb(numSlots)
      /\ \A a \in Mbs \ {b} : mbTable'[a] = mbTable[a]
  BY <1>2, NewMbTyped DEF MailTypes
<1>4. MailTypes'
  BY <1>1, <1>3 DEF MailTypes, cpuVars
<1>5. /\ mbTable'[b].isInitialized /\ mbTable'[b].mailSlotQueueHead = NULL
      /\ mbTable'[b].mailSlotsAvailable = numSlots /\ mbTable'[b].mailSlotLimit = numSlots
      /\ numSlots \in Nat
  BY <1>3, MailboxAssumption DEF NewMb
<1>6. ASSUME NEW L, Sound(L)
      PROVE  Sound([L EXCEPT ![b] = <<>>])'
  <2> DEFINE L1 == [L EXCEPT ![b] = <<>>]
  <2>1. Chains(L, Heads, MailLinks)
    BY <1>6 DEF Sound, InBoxes
  <2>2. L1 \in [Mbs -> Seq(Slots)] /\ L1[b] = <<>> /\ \A a \in Mbs \ {b} : L1[a] = L[a]
    BY <2>1, EmptySeq DEF Chains
  <2>3. Chains(L1, Heads', MailLinks')
    <3>1. MailLinks' = MailLinks
      BY <1>1 DEF MailLinks
    <3>2. Heads'[b] = NULL /\ \A a \in Mbs \ {b} : Heads'[a] = Heads[a]
      BY <1>3, <1>5 DEF Heads
    <3>3. PICK head1 : head1 = Heads'
      OBVIOUS
    <3>4. Chains(L1, head1, MailLinks)
      BY <2>1, <3>2, <3>3, ChainsClear
    <3> QED
      BY <3>1, <3>3, <3>4
  <2> HIDE DEF L1
  <2>4. Len(L1[b]) = 0 /\ \A i \in 1 .. Len(L1[b]) : FALSE
    BY <2>2, EmptySeq
  <2>5. FrameSound(p)' /\ ~Holds(p)'
    BY <1>1 DEF FrameSound, Holds, Busy
  <2>6. \A q \in Procs \ {p} : Holds(q) =>
              /\ messageSlots'[Top(q).slot].isInitialized
              /\ messageSlots'[Top(q).slot].message = messageSlots[Top(q).slot].message
              /\ \A a \in Mbs : ~InList(Top(q).slot, L1[a])
    <3>1. ASSUME NEW q \in Procs, Holds(q)
          PROVE  /\ messageSlots[Top(q).slot].isInitialized
                 /\ \A a \in Mbs : ~InList(Top(q).slot, L[a])
      BY <1>6, <3>1 DEF Sound, InBoxes, FrameSound, Holds
    <3>2. \A a \in Mbs : \A x : InList(x, L1[a]) => InList(x, L[a])
      BY <2>2, <2>4 DEF InList
    <3> QED
      BY <1>1, <3>1, <3>2
  <2>7. \A a \in Mbs : \A i \in 1 .. Len(L1[a]) : messageSlots'[L1[a][i]].isInitialized
    <3>1. \A a \in Mbs : \A i \in 1 .. Len(L[a]) : messageSlots[L[a][i]].isInitialized
      BY <1>1, <1>6, AllInUse DEF Busy
    <3> QED
      BY <1>1, <2>2, <2>4, <3>1
  <2>8. \A a \in Open' :
              mbTable'[a].mailSlotsAvailable + Len(L1[a]) = mbTable'[a].mailSlotLimit
    <3>1. \A a \in Open : mbTable[a].mailSlotsAvailable + Len(L[a]) = mbTable[a].mailSlotLimit
      BY <1>6 DEF Sound, InBoxes
    <3>2. ASSUME NEW a \in Open', a # b
          PROVE  a \in Open /\ mbTable'[a] = mbTable[a] /\ L1[a] = L[a]
      BY <1>3, <2>2, <3>2 DEF Open
    <3>3. mbTable'[b].mailSlotsAvailable + Len(L1[b]) = mbTable'[b].mailSlotLimit
      BY <1>5, <2>4
    <3> QED
      BY <3>1, <3>2, <3>3
  <2>9. \A q \in Procs \ {p} : frames'[q] = frames[q]
    BY <1>1
  <2>10. Sound(L1)'
    BY <1>1, <1>6, <2>3, <2>5, <2>6, <2>7, <2>8, <2>9, SoundAgain
  <2> QED
    BY <2>10 DEF L1
<1> QED
  BY <1>1, <1>3, <1>4, <1>5, <1>6
-----------------------------------------------------------------------------
(* Every step *)

\* With interrupts a message may go behind anything, but it is a message.
LEMMA addToMailQueueTypes ==
    ASSUME MailTypes, NEW p \in Procs, addToMailQueue(p)
    PROVE  MailTypes'
<1> DEFINE b == Top(p).mb
           m == Top(p).slot
           first == mbTable[b].mailSlotQueueHead
           tail == IF first = NULL THEN m
                   ELSE CHOOSE t \in Tails(MailLinks, first) : TRUE
<1>1. /\ b \in Mbs /\ m \in Slots \cup {NULL} /\ first \in Slots \cup {NULL}
      /\ mbTable' = [mbTable EXCEPT ![b].mailSlotsAvailable = @ - 1,
                                    ![b].mailSlotQueueHead = IF @ = NULL THEN m ELSE @]
      /\ messageSlots' = [messageSlots EXCEPT ![tail].nextMessage = m,
                                              ![m].nextMessage = NULL]
      /\ UNCHANGED <<messageIDCounter, shadowProcessTable, buffer, cpuVars>>
  <2>1. Top(p) \in Frame /\ Box(p) \in MB /\ Box(p) = mbTable[b]
    BY AtEffect DEF addToMailQueue, Box
  <2> QED
    BY <2>1 DEF addToMailQueue, Mailed, Box, Frame, MB
<1>2. frames' \in [Procs -> Seq(Frame)]
  BY addToMailQueueSteps
<1>3. messageSlots' \in [Slots -> Message]
  <2> DEFINE then == [messageSlots EXCEPT ![tail].nextMessage = m]
  <2> HIDE DEF tail, m
  <2>1. then \in [Slots -> Message]
    BY <1>1 DEF MailTypes, Message
  <2>2. messageSlots' = [then EXCEPT ![m].nextMessage = NULL]
    BY <1>1
  <2> HIDE DEF then
  <2> QED
    BY <2>1, <2>2 DEF Message
<1>4. mbTable' \in [Mbs -> MB]
  <2> DEFINE then == [mbTable EXCEPT ![b].mailSlotsAvailable = @ - 1]
             h == IF first = NULL THEN m ELSE first
  <2>1. mbTable \in [Mbs -> MB] /\ mbTable[b] \in MB
    BY <1>1 DEF MailTypes
  <2>2. \A room \in Int : [mbTable[b] EXCEPT !.mailSlotsAvailable = room] \in MB
    BY <2>1 DEF MB
  <2>3. mbTable[b].mailSlotsAvailable - 1 \in Int
    BY <2>1 DEF MB
  <2>4. [mbTable[b] EXCEPT !.mailSlotsAvailable = @ - 1] \in MB
    BY <2>2, <2>3
  <2>5. then \in [Mbs -> MB] /\ then[b].mailSlotQueueHead = first
    <3> DEFINE mb == [mbTable[b] EXCEPT !.mailSlotsAvailable = @ - 1]
    <3>1. then = [mbTable EXCEPT ![b] = mb]
      BY <2>1
    <3>2. mb \in MB /\ mb.mailSlotQueueHead = first
      BY <2>1, <2>4 DEF MB
    <3> HIDE DEF then, mb
    <3> QED
      BY <1>1, <2>1, <3>1, <3>2
  <2>6. mbTable' = [then EXCEPT ![b].mailSlotQueueHead = h]
    BY <1>1, <2>5
  <2>7. h \in Slots \cup {NULL}
    BY <1>1
  <2> HIDE DEF then, h, b
  <2> QED
    BY <2>5, <2>6, <2>7 DEF MB
<1> QED
  BY <1>1, <1>2, <1>3, <1>4 DEF MailTypes, cpuVars

\* The steps of a call that leave messages, slots and lists alone.
LEMMA QuietCallSteps ==
    ASSUME MailTypes, NEW p \in Procs, ~Crash,
           \/ FindSlot(p) \/ addToProducerQueue(p) \/ HandOver(p) \/ WakeConsumer(p)
           \/ addToConsumerQueue(p) \/ Leave(p) \/ Refused(p) \/ WakeProducer(p)
           \/ ReturnSize(p) \/ BlockMe(p) \/ Resumed(p) \/ FreeConsumers(p)
           \/ FreeProducers(p)
    PROVE  MailTypes' /\ (FrameSound(p) => Quiet(p))
  BY FindSlotSteps, addToProducerQueueSteps, HandOverSteps, WakeConsumerSteps,
     addToConsumerQueueSteps, LeaveSteps, RefusedSteps, WakeProducerSteps,
     BlockMeSteps, ResumedSteps, FreeSteps

\* What a step can be.
Writes(p) ==
    \/ TakeSlot(p) \/ Copies(p) \/ Pops(p) \/ addToMailQueue(p)
    \/ \E b \in Mbs : Releases(p, b) \/ Creates(p, b)

\* Every step keeps the types; it ends the system, is of a handler, writes the mail,
\* or is quiet.
LEMMA StepKinds ==
    ASSUME MailTypes, NEW p \in Procs, Calling(p) \/ Handler(p) \/ CallStep(p)
    PROVE  /\ MailTypes'
           /\ Crash \/ Handler(p) \/ Writes(p) \/ (FrameSound(p) => Quiet(p))
<1>1. CASE Crash
  BY <1>1, Crashes
<1>2. CASE Handler(p)
  BY <1>2, HandlerTypes
<1>3. CASE Calling(p)
  <2>1. CASE MboxRelease(p)
    BY <2>1, MboxReleaseIs, ReleasesTypes DEF Writes
  <2>2. CASE MboxCreate(p)
    BY <2>2, MboxCreateIs, CreatesKeeps DEF Writes
  <2> QED
    BY <1>3, <2>1, <2>2, SendsBegin, RecvsBegin, UserSteps DEF Calling
<1>4. CASE CallStep(p) /\ ~Crash
  <2>1. CASE TakeSlot(p)
    BY <2>1, TakeSlotTypes DEF Writes
  <2>2. CASE addToMailQueue(p)
    BY <2>2, addToMailQueueTypes DEF Writes
  <2>3. CASE Copies(p)
    BY <2>3, CopiesSteps DEF Writes
  <2>4. CASE Pops(p)
    BY <2>4, PopsTypes DEF Writes
  <2>5. CASE Refused(p)
    BY <1>4, <2>5, QuietCallSteps
  <2>6. CASE CopyMail(p) \/ PopMail(p)
    BY <1>4, <2>3, <2>4, <2>5, <2>6, CopyMailIs, PopMailIs
  <2> QED
    BY <1>4, <2>1, <2>2, <2>6, QuietCallSteps DEF CallStep
<1> QED
  BY <1>1, <1>2, <1>3, <1>4

\* Nobody changes what the others do.
LEMMA CallsKept ==
    ASSUME NEW p \in Procs, Calling(p) \/ Handler(p) \/ CallStep(p)
    PROVE  UNCHANGED calls
<1> USE DEF Dispatch, unblockProc, cpuVars, Crash
<1>1. CASE Calling(p)
  BY <1>1 DEF Calling, MboxSend, MboxCondSend, MboxRecv, MboxCondRecv, StartRecv,
              waitDevice, MboxRelease, MboxCreate, Yield, Replace
<1>2. CASE Handler(p)
  BY <1>2 DEF Handler
<1>3. CASE CallStep(p)
  <2>1. CASE \/ FindSlot(p) \/ TakeSlot(p) \/ addToProducerQueue(p) \/ HandOver(p)
             \/ addToMailQueue(p) \/ WakeConsumer(p) \/ addToConsumerQueue(p)
    BY <2>1 DEF FindSlot, TakeSlot, addToProducerQueue, HandOver, addToMailQueue,
                WakeConsumer, addToConsumerQueue
  <2>2. CASE \/ Leave(p) \/ CopyMail(p) \/ PopMail(p) \/ WakeProducer(p) \/ ReturnSize(p)
             \/ BlockMe(p) \/ Resumed(p)
    BY <2>2 DEF Leave, CopyMail, PopMail, WakeProducer, ReturnSize, BlockMe, Resumed
  <2>3. CASE FreeConsumers(p) \/ FreeProducers(p)
    BY <2>3 DEF FreeConsumers, FreeProducers, FreeQueue, FreeNext
  <2> QED
    BY <1>3, <2>1, <2>2, <2>3 DEF CallStep
<1> QED
  BY <1>1, <1>2, <1>3
-----------------------------------------------------------------------------
(* The invariant *)

Slotted == MailTypes /\ (Uninterrupted => \E L : Sound(L))

\* Without handlers nobody is interrupted.
LEMMA NoHandler ==
    ASSUME Uninterrupted, NEW p \in Procs
    PROVE  ~Handler(p)
  BY DEF Uninterrupted, Callers, Handler

\* At first every list is empty.
LEMMA InitTypes == Init => MailTypes /\ Sound([b \in Mbs |-> <<>>])
<1> SUFFICES ASSUME Init
             PROVE  MailTypes /\ Sound([b \in Mbs |-> <<>>])
  OBVIOUS
<1> DEFINE L == [b \in Mbs |-> <<>>]
<1>1. /\ 0 \in Nat /\ 1 \in Nat /\ 0 \in Int /\ 1 \in Int
      /\ 0 \in 0 .. MAXSLOTS - 1
  BY SlotsFinite
<1>2. NewMb(1) \in MB /\ [NewMb(0) EXCEPT !.isInitialized = FALSE] \in MB
  BY <1>1 DEF NewMb, MB, Node
<1>3. mbTable \in [Mbs -> MB]
  BY <1>2 DEF Init
<1>4. messageSlots \in [Slots -> Message]
  BY DEF Init, Message
<1>5. MailTypes
  <2>1. shadowProcessTable \in [Procs -> Process]
    BY DEF Init, Process, Node
  <2>2. frames \in [Procs -> Seq(Frame)]
    BY EmptySeq DEF Init
  <2>3. status \in [Procs -> {"ready", "blocked"}] /\ current \in Node
    BY DEF Init, Runnable, Node
  <2>4. messageIDCounter \in 0 .. MAXSLOTS - 1 /\ buffer \in [Procs -> Messages \cup {Empty}]
        /\ fault \in BOOLEAN /\ calls \in Uses
    BY <1>1 DEF Init
  <2> QED
    BY <1>3, <1>4, <2>1, <2>2, <2>3, <2>4 DEF MailTypes
<1>6. /\ \A b \in Mbs : L[b] = <<>> /\ Len(L[b]) = 0
      /\ L \in [Mbs -> Seq(Slots)]
  BY EmptySeq
<1>7. \A b \in Mbs : /\ mbTable[b].mailSlotQueueHead = NULL
                     /\ mbTable[b].isInitialized =>
                            mbTable[b].mailSlotsAvailable + 0 = mbTable[b].mailSlotLimit
  <2>1. ASSUME NEW b \in Mbs
        PROVE  mbTable[b] = NewMb(1) \/ mbTable[b] = [NewMb(0) EXCEPT !.isInitialized = FALSE]
    BY DEF Init
  <2> QED
    BY <2>1 DEF NewMb
<1> HIDE DEF L
<1>8. \A b \in Mbs : \A i \in 1 .. Len(L[b]) : FALSE
  BY <1>6
<1>9. Chains(L, Heads, MailLinks)
  BY <1>6, <1>7, <1>8 DEF Chains, Heads
<1>10. \A p \in Procs : FrameSound(p) /\ ~Holds(p)
  BY DEF Init, FrameSound, Holds, Busy
<1>11. Sound(L)
  BY <1>6, <1>7, <1>8, <1>9, <1>10 DEF Sound, Alone, InBoxes, Open
<1> QED
  BY <1>5, <1>11 DEF L

\* Every step keeps the slots and the lists sound.
LEMMA WritesKeeps ==
    ASSUME MailTypes, NEW p \in Procs, NEW L, Sound(L), Writes(p)
    PROVE  \E L1 : Sound(L1)'
<1>1. CASE TakeSlot(p)
  BY <1>1, TakeSlotKeeps
<1>2. CASE Copies(p)
  <2>1. PICK b \in Mbs : Top(p).mb = b
    BY <1>2, AtEffect DEF Copies
  <2> QED
    BY <1>2, <2>1, CopiesKeeps
<1>3. CASE Pops(p)
  <2>1. PICK b \in Mbs : Top(p).mb = b
    BY <1>3, AtEffect DEF Pops
  <2>2. PICK L1 : Shortened(L, b, L1)
    BY DEF Shortened
  <2> QED
    BY <1>3, <2>1, <2>2, PopsKeeps
<1>4. CASE addToMailQueue(p)
  <2>1. PICK b \in Mbs : Top(p).mb = b
    BY <1>4, AtEffect DEF addToMailQueue
  <2>2. PICK m : Top(p).slot = m
    OBVIOUS
  <2>3. Sound([L EXCEPT ![b] = Append(L[b], m)])'
    BY <1>4, <2>1, <2>2, addToMailQueueKeeps
  <2> QED
    BY <2>3
<1>5. CASE \E b \in Mbs : Releases(p, b) \/ Creates(p, b)
  <2>1. PICK b \in Mbs : Releases(p, b) \/ Creates(p, b)
    BY <1>5
  <2>2. Sound([L EXCEPT ![b] = <<>>])'
    BY <2>1, ReleasesKeeps, CreatesKeeps
  <2> QED
    BY <2>2
<1> QED
  BY <1>1, <1>2, <1>3, <1>4, <1>5 DEF Writes

\* A step that writes nothing of all this, or follows a null pointer.
LEMMA StaysSound ==
    ASSUME NEW L, Sound(L), UNCHANGED <<mbTable, messageSlots, frames, current>>
    PROVE  Sound(L)'
<1>1. Chains(L, Heads', MailLinks')
  <2>1. Heads' = Heads /\ MailLinks' = MailLinks
    BY DEF Heads, MailLinks
  <2> QED
    BY <2>1 DEF Sound, InBoxes
<1>2. /\ \A p \in Procs : FrameSound(p)' /\ Holds(p)' = Holds(p) /\ Top(p)' = Top(p)
      /\ \A p \in Procs, b \in Mbs : Popping(p, b)' = Popping(p, b)
      /\ Open' = Open
  BY DEF Sound, FrameSound, Holds, Busy, Top, Box, Popping, Open, Holding
<1>3. Alone'
  BY <1>2 DEF Alone, Sound
<1> QED
  BY <1>1, <1>2, <1>3 DEF Sound, InBoxes

\* Slotted is inductive.
LEMMA SlottedStep ==
    ASSUME Slotted, [Next]_vars
    PROVE  Slotted' /\ (Uninterrupted => Uninterrupted')
<1>1. CASE UNCHANGED vars
  <2>1. MailTypes' /\ Uninterrupted' = Uninterrupted
    BY <1>1 DEF vars, memVars, cpuVars, Slotted, MailTypes, Uninterrupted, Callers
  <2>2. ASSUME NEW L, Sound(L)
        PROVE  Sound(L)'
    BY <1>1, <2>2, StaysSound DEF vars, memVars, cpuVars
  <2> QED
    BY <2>1, <2>2 DEF Slotted
<1>2. CASE Next
  <2>1. PICK p \in Procs : Calling(p) \/ Handler(p) \/ CallStep(p)
    BY <1>2 DEF Next
  <2>2. /\ MailTypes' /\ UNCHANGED calls
        /\ Crash \/ Handler(p) \/ Writes(p) \/ (FrameSound(p) => Quiet(p))
    BY <2>1, StepKinds, CallsKept DEF Slotted
  <2>3. Uninterrupted' = Uninterrupted
    BY <2>2 DEF Uninterrupted, Callers
  <2>4. ASSUME Uninterrupted
        PROVE  \E L1 : Sound(L1)'
    <3>1. PICK L : Sound(L)
      BY <2>4 DEF Slotted
    <3>2. CASE Crash
      BY <3>1, <3>2, StaysSound DEF Crash, memVars
    <3>3. CASE Writes(p)
      BY <3>1, <3>3, WritesKeeps DEF Slotted
    <3>4. CASE FrameSound(p) => Quiet(p)
      BY <2>2, <3>1, <3>4, QuietKeeps DEF Sound
    <3> QED
      BY <2>2, <2>4, <3>2, <3>3, <3>4, NoHandler
  <2>5. Uninterrupted' => (\E L : Sound(L))'
    BY <2>3, <2>4
  <2> QED
    BY <2>2, <2>3, <2>5 DEF Slotted
<1> QED
  BY <1>1, <1>2

\* Slotted holds throughout.
LEMMA SlottedAlways == Spec => []Slotted
<1>1. Init => Slotted
  BY InitTypes DEF Slotted
<1>2. Slotted /\ [Next]_vars => Slotted'
  BY SlottedStep
<1> QED
  BY <1>1, <1>2, PTL DEF Spec

\* The variables of phase2.c keep their types, whatever is interrupted.
THEOREM MailboxTypes == Spec => []MailTypes
<1>1. Slotted => MailTypes
  BY DEF Slotted
<1> QED
  BY <1>1, SlottedAlways, PTL

\* What the walks of the code along a sound mailbox find.
LEMMA QueuedAre ==
    ASSUME MailTypes, NEW L, Sound(L), NEW b \in Mbs
    PROVE  /\ L[b] \in Seq(Slots) /\ Len(L[b]) \in Nat
           /\ Cardinality(Queued(b)) = Len(L[b])
           /\ \A x : x \in Queued(b) <=> InList(x, L[b])
<1>1. MailLinks \in [Slots -> Slots \cup {NULL}]
  BY DEF MailLinks, MailTypes, Message
<1>2. Queued(b) = Reach(MailLinks, Heads[b])
  BY DEF Queued, Heads
<1>3. Chains(L, Heads, MailLinks)
  BY DEF Sound, InBoxes
<1>4. L[b] \in Seq(Slots)
  BY <1>3 DEF Chains
<1>5. /\ Cardinality(Reach(MailLinks, Heads[b])) = Len(L[b])
      /\ \A x : x \in Reach(MailLinks, Heads[b]) <=> InList(x, L[b])
  BY <1>1, <1>3, ListsFound
<1> QED
  BY <1>2, <1>4, <1>5, LenProperties

\* mailSlotsAvailable and the list of messages, written in different functions, always
\* make up the size of a mailbox, as long as no handler interrupts one of them: for any
\* number of processes, mailboxes and slots.
THEOREM MailAccounting == Spec => [](Uninterrupted => Accounting)
<1>1. ASSUME Slotted, Uninterrupted
      PROVE  Accounting
  <2>1. PICK L : Sound(L)
    BY <1>1 DEF Slotted
  <2>2. \A b \in Open : b \in Mbs /\ Cardinality(Queued(b)) = Len(L[b])
    BY <1>1, <2>1, QueuedAre DEF Open, Slotted
  <2> QED
    BY <2>1, <2>2 DEF Accounting, Sound, InBoxes
<1>2. Slotted => (Uninterrupted => Accounting)
  BY <1>1
<1> QED
  BY <1>2, SlottedAlways, PTL

\* A slot with a message in it is in one mailbox only, and marked as used until its
\* message has been copied.
THEOREM MailPoolSound == Spec => []PoolSound
<1>1. ASSUME Slotted, Uninterrupted, NEW b \in Open
      PROVE  /\ \A a \in Open \ {b} : Queued(a) \cap Queued(b) = {}
             /\ \A s \in Queued(b) :
                   \/ messageSlots[s].isInitialized
                   \/ \E f \in AllFrames : f.pc = "pop" /\ f.slot = s
  <2>1. PICK L : Sound(L)
    BY <1>1 DEF Slotted
  <2>2. /\ b \in Mbs
        /\ \A a \in Open : \A x : x \in Queued(a) <=> InList(x, L[a])
    BY <1>1, <2>1, QueuedAre DEF Open, Slotted
  <2>3. \A a \in Open \ {b} : Queued(a) \cap Queued(b) = {}
    <3>1. \A a \in Mbs : \A i \in 1 .. Len(L[a]), j \in 1 .. Len(L[b]) :
              L[a][i] = L[b][j] => a = b
      BY <2>1, <2>2 DEF Sound, InBoxes, Chains
    <3>2. ASSUME NEW a \in Open \ {b}, NEW x, InList(x, L[a]), InList(x, L[b])
          PROVE  FALSE
      BY <3>1, <3>2 DEF InList, Open
    <3> QED
      BY <2>2, <3>2
  <2>4. ASSUME NEW s \in Queued(b), ~messageSlots[s].isInitialized
        PROVE  \E f \in AllFrames : f.pc = "pop" /\ f.slot = s
    <3>1. PICK i \in 1 .. Len(L[b]) : L[b][i] = s
      BY <2>2 DEF InList
    <3>2. i = 1 /\ \E p \in Procs : Popping(p, b)
      BY <2>1, <2>2, <2>4, <3>1 DEF Sound, InBoxes
    <3>3. PICK p \in Procs : Popping(p, b)
      BY <3>2
    <3>4. Top(p).slot = Box(p).mailSlotQueueHead /\ Top(p).pc = "pop"
      BY <2>1, <3>3 DEF Popping, Sound, FrameSound
    <3>5. Box(p).mailSlotQueueHead = s
      <4>1. L[b] # <<>>
        BY <3>1, EmptySeq
      <4> QED
        BY <2>1, <2>2, <3>1, <3>2, <3>3, <4>1
           DEF Popping, Box, Sound, InBoxes, Chains, Heads
    <3>6. Top(p) \in AllFrames
      <4>1. frames \in [Procs -> Seq(Frame)] /\ frames[p] # <<>>
        BY <1>1, <3>3 DEF Popping, Busy, Slotted, MailTypes
      <4>2. Top(p) = frames[p][1] /\ 1 \in DOMAIN frames[p]
        BY <4>1, TopTyped, EmptySeq, LenProperties
      <4> QED
        BY <4>2 DEF AllFrames
    <3> QED
      BY <3>4, <3>5, <3>6
  <2> QED
    BY <2>3, <2>4
<1>2. Slotted => PoolSound
  BY <1>1 DEF PoolSound
<1> QED
  BY <1>2, SlottedAlways, PTL
-----------------------------------------------------------------------------
(* The messages of a mailbox *)

\* What a list of slots says: the messages in it, but for the first when its slot has
\* been freed.
Plain(slots, list) == [i \in 1 .. Len(list) |-> slots[list[i]].message]
TextOf(slots, list) ==
    IF list # <<>> /\ ~slots[list[1]].isInitialized THEN Plain(slots, Tail(list))
                                                    ELSE Plain(slots, list)

\* Mail is a sequence.
LEMMA PlainIs ==
    ASSUME NEW slots, NEW list \in Seq(Slots),
           \A s \in Slots : slots[s].message \in Messages \cup {Empty}
    PROVE  /\ Plain(slots, list) \in Seq(Messages \cup {Empty})
           /\ Len(Plain(slots, list)) = Len(list)
           /\ \A i \in 1 .. Len(list) : Plain(slots, list)[i] = slots[list[i]].message
           /\ Plain(slots, list) = <<>> <=> list = <<>>
<1>1. PICK n \in Nat : n = Len(list)
  BY LenProperties
<1>2. \A i \in 1 .. n : slots[list[i]].message \in Messages \cup {Empty}
  BY <1>1, ElementOfSeq
<1>3. Plain(slots, list) = [i \in 1 .. n |-> slots[list[i]].message]
  BY <1>1 DEF Plain
<1>4. Plain(slots, list) \in Seq(Messages \cup {Empty}) /\ Len(Plain(slots, list)) = n
  BY <1>2, <1>3, SeqDef, LenProperties, IsASeq
<1> QED
  BY <1>1, <1>3, <1>4, EmptySeq

\* One more message.
LEMMA TextAppend ==
    ASSUME NEW slots, NEW slots1, NEW list \in Seq(Slots), NEW m \in Slots,
           \A s \in Slots : slots[s].message \in Messages \cup {Empty},
           \A s \in Slots : slots1[s].message = slots[s].message,
           \A i \in 1 .. Len(list) : /\ slots[list[i]].isInitialized
                                     /\ slots1[list[i]].isInitialized,
           slots1[m].isInitialized
    PROVE  TextOf(slots1, Append(list, m)) = Append(TextOf(slots, list), slots[m].message)
<1> DEFINE list1 == Append(list, m)
           text == Plain(slots, list)
           text1 == Plain(slots1, list1)
<1>1. PICK n \in Nat : n = Len(list)
  BY LenProperties
<1>2. /\ list1 \in Seq(Slots) /\ Len(list1) = n + 1 /\ list1 # <<>>
      /\ \A i \in 1 .. n : list1[i] = list[i]
      /\ list1[n + 1] = m
  BY <1>1, AppendProperties
<1> HIDE DEF list1
<1>3. list # <<>> => n # 0 /\ 1 \in 1 .. n
  BY <1>1, EmptySeq
<1>4. TextOf(slots, list) = text
  BY <1>1, <1>3 DEF TextOf
<1>5. slots1[list1[1]].isInitialized
  <2>1. CASE n = 0
    BY <1>2, <2>1
  <2>2. CASE n # 0
    <3>1. 1 \in 1 .. n
      BY <2>2
    <3> QED
      BY <1>1, <1>2, <3>1
  <2> QED
    BY <2>1, <2>2
<1>6. TextOf(slots1, list1) = text1
  BY <1>5 DEF TextOf
<1>7. /\ text \in Seq(Messages \cup {Empty}) /\ Len(text) = n
      /\ \A i \in 1 .. n : text[i] = slots[list[i]].message
  BY <1>1, PlainIs
<1>8. /\ text1 \in Seq(Messages \cup {Empty}) /\ Len(text1) = n + 1
      /\ \A i \in 1 .. n + 1 : text1[i] = slots1[list1[i]].message
  BY <1>2, PlainIs
<1> DEFINE more == Append(text, slots[m].message)
<1>9. /\ more \in Seq(Messages \cup {Empty}) /\ Len(more) = n + 1
      /\ \A i \in 1 .. n : more[i] = text[i]
      /\ more[n + 1] = slots[m].message
  BY <1>7, AppendProperties
<1> HIDE DEF text, text1, more
<1>10. ASSUME NEW i \in 1 .. n + 1
       PROVE  text1[i] = more[i]
  <2>1. CASE i \in 1 .. n
    <3>1. list[i] \in Slots
      BY <1>1, <2>1, ElementOfSeq
    <3>2. i \in 1 .. n + 1 /\ list1[i] = list[i]
      BY <1>2, <2>1
    <3>3. text1[i] = slots[list[i]].message
      BY <1>8, <3>1, <3>2
    <3> QED
      BY <1>7, <1>9, <2>1, <3>3
  <2>2. CASE i = n + 1
    BY <1>2, <1>8, <1>9, <2>2
  <2> QED
    BY <2>1, <2>2
<1>11. text1 = more
  BY <1>8, <1>9, <1>10, SeqEqual
<1> QED
  BY <1>4, <1>6, <1>11 DEF more, list1

\* The first message has been copied.
LEMMA TextCopied ==
    ASSUME NEW slots, NEW slots1, NEW list \in Seq(Slots), list # <<>>,
           \A s \in Slots : slots[s].message \in Messages \cup {Empty},
           \A i \in 1 .. Len(list) : /\ slots[list[i]].isInitialized
                                     /\ slots1[list[i]].message = slots[list[i]].message,
           ~slots1[list[1]].isInitialized
    PROVE  /\ TextOf(slots, list) # <<>>
           /\ Head(TextOf(slots, list)) = slots[list[1]].message
           /\ TextOf(slots1, list) = Tail(TextOf(slots, list))
<1> DEFINE text == Plain(slots, list)
           left == Plain(slots1, Tail(list))
<1>1. PICK n \in Nat : n = Len(list)
  BY LenProperties
<1>2. n # 0 /\ 1 \in 1 .. n /\ n - 1 \in Nat
  BY <1>1, EmptySeq
<1>3. TextOf(slots, list) = text /\ TextOf(slots1, list) = left
  BY <1>1, <1>2 DEF TextOf
<1>4. /\ text \in Seq(Messages \cup {Empty}) /\ Len(text) = n /\ text # <<>>
      /\ \A i \in 1 .. n : text[i] = slots[list[i]].message
  BY <1>1, PlainIs
<1>5. /\ Tail(list) \in Seq(Slots) /\ Len(Tail(list)) = n - 1
      /\ \A i \in 1 .. n - 1 : Tail(list)[i] = list[i + 1]
  BY <1>1, HeadTailProperties
<1>6. \A i \in 1 .. n - 1 : i + 1 \in 1 .. n
  BY <1>2
<1>7. left = [i \in 1 .. n - 1 |-> slots[list[i + 1]].message]
  BY <1>1, <1>5, <1>6 DEF Plain
<1>8. /\ Tail(text) \in Seq(Messages \cup {Empty}) /\ Len(Tail(text)) = n - 1
      /\ \A i \in 1 .. n - 1 : Tail(text)[i] = text[i + 1]
      /\ Head(text) = text[1]
  BY <1>4, HeadTailProperties
<1>9. \A i \in 1 .. n - 1 : left[i] = Tail(text)[i]
  <2>1. \A i \in 1 .. n - 1 : left[i] = slots[list[i + 1]].message
    BY <1>7
  <2> HIDE DEF left, text
  <2> QED
    BY <1>4, <1>6, <1>8, <2>1
<1>10. left \in Seq(Messages \cup {Empty}) /\ Len(left) = n - 1
  <2>1. \A i \in 1 .. n - 1 : slots[list[i + 1]].message \in Messages \cup {Empty}
    BY <1>1, <1>6, ElementOfSeq
  <2> DEFINE texts == [i \in 1 .. n - 1 |-> slots[list[i + 1]].message]
  <2>2. texts \in [1 .. n - 1 -> Messages \cup {Empty}]
    BY <2>1
  <2> HIDE DEF texts, left
  <2>3. texts \in Seq(Messages \cup {Empty})
    BY <1>2, <2>2, SeqDef
  <2>4. Len(texts) = n - 1
    BY <1>2, <2>2, <2>3, LenProperties
  <2>5. left = texts
    BY <1>7 DEF texts
  <2> QED
    BY <2>3, <2>4, <2>5
<1> HIDE DEF text, left
<1>11. left = Tail(text)
  BY <1>8, <1>9, <1>10, SeqEqual
<1> QED
  BY <1>2, <1>3, <1>4, <1>8, <1>11

\* It has left the list.
LEMMA TextPopped ==
    ASSUME NEW slots, NEW list \in Seq(Slots), list # <<>>,
           ~slots[list[1]].isInitialized,
           \A i \in 1 .. Len(list) : i # 1 => slots[list[i]].isInitialized
    PROVE  TextOf(slots, Tail(list)) = TextOf(slots, list)
<1>1. PICK n \in Nat : n = Len(list)
  BY LenProperties
<1>2. n # 0 /\ n - 1 \in Nat
  BY <1>1, EmptySeq
<1>3. /\ Tail(list) \in Seq(Slots) /\ Len(Tail(list)) = n - 1
      /\ \A i \in 1 .. n - 1 : Tail(list)[i] = list[i + 1]
  BY <1>1, HeadTailProperties
<1>4. Tail(list) # <<>> => slots[Tail(list)[1]].isInitialized
  <2>1. Tail(list) # <<>> => 1 \in 1 .. n - 1 /\ 2 \in 1 .. n
    BY <1>2, <1>3, EmptySeq
  <2>2. 2 \in 1 .. n => slots[list[2]].isInitialized
    BY <1>1
  <2> QED
    BY <1>3, <2>1, <2>2
<1> QED
  BY <1>4 DEF TextOf

\* Nothing was written into its slots.
LEMMA TextKept ==
    ASSUME NEW slots, NEW slots1, NEW list \in Seq(Slots),
           \A i \in 1 .. Len(list) :
              /\ slots1[list[i]].isInitialized = slots[list[i]].isInitialized
              /\ slots1[list[i]].message = slots[list[i]].message
    PROVE  TextOf(slots1, list) = TextOf(slots, list)
<1>1. PICK n \in Nat : n = Len(list)
  BY LenProperties
<1>2. list # <<>> => 1 \in 1 .. n /\ n - 1 \in Nat
  BY <1>1, EmptySeq
<1>3. Plain(slots1, list) = Plain(slots, list)
  BY <1>1 DEF Plain
<1>4. list # <<>> => Plain(slots1, Tail(list)) = Plain(slots, Tail(list))
  <2> HAVE list # <<>>
  <2>1. /\ Len(Tail(list)) = n - 1
        /\ \A i \in 1 .. n - 1 : Tail(list)[i] = list[i + 1] /\ i + 1 \in 1 .. n
    BY <1>1, <1>2, HeadTailProperties
  <2> QED
    BY <1>1, <2>1 DEF Plain
<1>5. list # <<>> => slots1[list[1]].isInitialized = slots[list[1]].isInitialized
  BY <1>1, <1>2
<1> QED
  BY <1>3, <1>4, <1>5 DEF TextOf
-----------------------------------------------------------------------------
(* The refinement *)

\* Order, of the links next and the first slot h.
Walk(next, h) == [i \in 1 .. Cardinality(Reach(next, h)) |-> Path(next, h)[i - 1]]

\* The walk along the links of a mailbox is its list.
LEMMA OrderIs ==
    ASSUME NEW L, NEW head, NEW next \in [Slots -> Slots \cup {NULL}],
           Chains(L, head, next), NEW b \in Mbs
    PROVE  Walk(next, head[b]) = L[b]
<1>1. L[b] \in Seq(Slots)
  BY DEF Chains
<1>2. PICK n \in Nat : n = Len(L[b])
  BY <1>1, LenProperties
<1>3. /\ n \in 0 .. MAXSLOTS /\ Cardinality(Reach(next, head[b])) = n
      /\ \A k \in 0 .. MAXSLOTS :
            Path(next, head[b])[k] = IF k < Len(L[b]) THEN L[b][k + 1] ELSE NULL
  BY <1>2, ListsFound
<1>4. ASSUME NEW i \in 1 .. n
      PROVE  Path(next, head[b])[i - 1] = L[b][i]
  <2>1. i - 1 \in 0 .. MAXSLOTS /\ i - 1 < n /\ (i - 1) + 1 = i
    BY <1>3, SlotsFinite
  <2> QED
    BY <1>2, <1>3, <2>1
<1>5. L[b] = [i \in 1 .. n |-> L[b][i]]
  <2>1. L[b] \in [1 .. n -> Slots]
    BY <1>1, <1>2, LenProperties
  <2> QED
    BY <2>1
<1> QED
  BY <1>3, <1>4, <1>5 DEF Walk

\* Contents, which walks the links, is the text of the list the links are of.
LEMMA ContentsAre ==
    ASSUME MailTypes, NEW L, Chains(L, Heads, MailLinks), NEW b \in Mbs
    PROVE  Contents(b) = IF b \in Open THEN TextOf(messageSlots, L[b]) ELSE <<>>
<1>1. MailLinks \in [Slots -> Slots \cup {NULL}] /\ Heads[b] = mbTable[b].mailSlotQueueHead
  BY DEF MailLinks, MailTypes, Message, Heads
<1>2. Order(b) = L[b]
  <2>1. Walk(MailLinks, Heads[b]) = L[b]
    BY <1>1, OrderIs
  <2> QED
    BY <1>1, <2>1 DEF Order, Queued, Walk
<1>3. L[b] # <<>> => Head(L[b]) = L[b][1]
  BY HeadTailProperties DEF Chains
<1> QED
  BY <1>2, <1>3 DEF Contents, Unread, TextOf, Plain

\* The same of the next state.
LEMMA ContentsAreNext ==
    ASSUME MailTypes', NEW L, Chains(L, Heads', MailLinks'), NEW b \in Mbs
    PROVE  Contents(b)' = IF b \in Open' THEN TextOf(messageSlots', L[b]) ELSE <<>>
<1>1. MailLinks' \in [Slots -> Slots \cup {NULL}] /\ Heads'[b] = mbTable'[b].mailSlotQueueHead
  BY DEF MailLinks, MailTypes, Message, Heads
<1>2. Order(b)' = L[b]
  <2>1. PICK head, next : head = Heads' /\ next = MailLinks'
    OBVIOUS
  <2>2. Walk(next, head[b]) = L[b]
    BY <1>1, <2>1, OrderIs
  <2> QED
    BY <1>1, <2>1, <2>2 DEF Order, Queued, Walk
<1>3. L[b] # <<>> => Head(L[b]) = L[b][1]
  BY HeadTailProperties DEF Chains
<1> QED
  BY <1>2, <1>3 DEF Contents, Unread, TextOf, Plain

\* The steps of the queues of messages, said with Contents.
LEMMA BoxWritten ==
    ASSUME NEW b \in Mbs, NEW x, Contents(b)' = x,
           \A a \in Mbs \ {b} : Contents(a)' = Contents(a)
    PROVE  [a \in Mbs |-> Contents(a)]' = [[a \in Mbs |-> Contents(a)] EXCEPT ![b] = x]
  OBVIOUS

\* A message more at the end of one queue is a Send.
LEMMA SendStep ==
    ASSUME NEW b \in Open, NEW m \in Messages, UNCHANGED <<Open, buffer>>,
           \A a \in Mbs \ {b} : Contents(a)' = Contents(a),
           Contents(b)' = Append(Contents(b), m)
    PROVE  Queues!Next
<1>1. b \in Mbs
  BY DEF Open
<1>2. Queues!Send(b, m)
  BY <1>1, BoxWritten DEF Queues!Send
<1> QED
  BY <1>1, <1>2 DEF Queues!Next

\* The first message of a queue gone, into a buffer, is a Receive.
LEMMA ReceiveStep ==
    ASSUME NEW b \in Mbs, NEW p \in Procs, UNCHANGED Open, Contents(b) # <<>>,
           buffer' = [buffer EXCEPT ![p] = Head(Contents(b))],
           \A a \in Mbs \ {b} : Contents(a)' = Contents(a),
           Contents(b)' = Tail(Contents(b))
    PROVE  Queues!Next
<1>1. Queues!Receive(p, b)
  BY BoxWritten DEF Queues!Receive
<1> QED
  BY <1>1 DEF Queues!Next

\* A queue closed and emptied is a Release.
LEMMA ReleaseStep ==
    ASSUME NEW b \in Mbs, Open' = Open \ {b}, UNCHANGED buffer,
           \A a \in Mbs \ {b} : Contents(a)' = Contents(a), Contents(b)' = <<>>
    PROVE  Queues!Next
<1>1. Queues!Release(b)
  BY BoxWritten DEF Queues!Release
<1> QED
  BY <1>1 DEF Queues!Next

\* A queue opened, empty as it was, is a Create.
LEMMA CreateStep ==
    ASSUME NEW b \in Mbs \ Open, Open' = Open \cup {b}, UNCHANGED buffer,
           \A a \in Mbs : Contents(a)' = Contents(a)
    PROVE  Queues!Next
<1>1. Queues!Create(b)
  BY DEF Queues!Create
<1> QED
  BY <1>1 DEF Queues!Next

\* Queues, buffers and the open mailboxes as they were: a stutter.
LEMMA QueueStutters ==
    ASSUME \A a \in Mbs : Contents(a)' = Contents(a), UNCHANGED <<Open, buffer>>
    PROVE  UNCHANGED Queues!vars
  BY DEF Queues!vars

\* TakeSlot, and every step that writes nothing of all this: the queues stay.
LEMMA SameLists ==
    ASSUME MailTypes, MailTypes', NEW L, Sound(L), Sound(L)',
           UNCHANGED <<Open, buffer>>,
           \A b \in Mbs : \A i \in 1 .. Len(L[b]) :
              /\ messageSlots'[L[b][i]].isInitialized = messageSlots[L[b][i]].isInitialized
              /\ messageSlots'[L[b][i]].message = messageSlots[L[b][i]].message
    PROVE  UNCHANGED Queues!vars
<1>1. Chains(L, Heads, MailLinks) /\ Chains(L, Heads', MailLinks')
  BY DEF Sound, InBoxes
<1>2. ASSUME NEW b \in Mbs
      PROVE  Contents(b)' = Contents(b)
  <2>1. L[b] \in Seq(Slots)
    BY <1>1 DEF Chains
  <2>2. PICK slots, slots1 : slots = messageSlots /\ slots1 = messageSlots'
    OBVIOUS
  <2>3. TextOf(slots1, L[b]) = TextOf(slots, L[b])
    BY <2>1, <2>2, TextKept
  <2> QED
    BY <1>1, <2>2, <2>3, ContentsAre, ContentsAreNext
<1> QED
  BY <1>2, QueueStutters
\* An empty list says nothing.
LEMMA TextEmpty ==
    ASSUME NEW slots
    PROVE  TextOf(slots, <<>>) = <<>>
  BY DEF TextOf, Plain

\* The copy is the Receive.
LEMMA CopiesRefine ==
    ASSUME MailTypes, MailTypes', NEW p \in Procs, NEW L, Sound(L), Copies(p)
    PROVE  Queues!Next
<1>1. PICK b \in Mbs : b = Top(p).mb
  BY AtEffect DEF Copies
<1>2. PICK slots, slots1 : slots = messageSlots /\ slots1 = messageSlots'
  OBVIOUS
<1>3. /\ Sound(L)' /\ b \in Open /\ UNCHANGED mbTable /\ L[b] # <<>>
      /\ buffer' = [buffer EXCEPT ![p] = slots[L[b][1]].message]
      /\ ~slots1[L[b][1]].isInitialized
      /\ \A a \in Mbs : \A i \in 1 .. Len(L[a]) :
            /\ slots1[L[a][i]].message = slots[L[a][i]].message
            /\ ~(a = b /\ i = 1) => slots1[L[a][i]].isInitialized
            /\ slots[L[a][i]].isInitialized
  BY <1>1, <1>2, CopiesKeeps
<1>4. Chains(L, Heads, MailLinks) /\ Chains(L, Heads', MailLinks') /\ UNCHANGED Open
      /\ \A a \in Mbs : L[a] \in Seq(Slots)
  BY <1>3 DEF Sound, InBoxes, Open, Chains
<1>5. \A s \in Slots : slots[s].message \in Messages \cup {Empty}
  BY <1>1, <1>2 DEF MailTypes, Message
<1>6. /\ TextOf(slots, L[b]) # <<>>
      /\ Head(TextOf(slots, L[b])) = slots[L[b][1]].message
      /\ TextOf(slots1, L[b]) = Tail(TextOf(slots, L[b]))
  BY <1>3, <1>4, <1>5, TextCopied
<1>7. ASSUME NEW a \in Mbs \ {b}
      PROVE  TextOf(slots1, L[a]) = TextOf(slots, L[a])
  <2>1. \A i \in 1 .. Len(L[a]) :
            /\ slots1[L[a][i]].isInitialized /\ slots[L[a][i]].isInitialized
            /\ slots1[L[a][i]].message = slots[L[a][i]].message
    BY <1>3
  <2>2. \A i \in 1 .. Len(L[a]) : L[a][i] \in Slots
    BY <1>4, ElementOfSeq
  <2>3. \A i \in 1 .. Len(L[a]) :
            slots1[L[a][i]].isInitialized = slots[L[a][i]].isInitialized
    BY <1>1, <1>2, <2>1, <2>2 DEF MailTypes, Message
  <2> QED
    BY <1>4, <2>1, <2>3, TextKept
<1>8. \A a \in Mbs \ {b} : Contents(a)' = Contents(a)
  BY <1>1, <1>2, <1>4, <1>7, ContentsAre, ContentsAreNext
<1>9. Contents(b) = TextOf(slots, L[b]) /\ Contents(b)' = TextOf(slots1, L[b])
  BY <1>1, <1>2, <1>3, <1>4, ContentsAre, ContentsAreNext
<1> QED
  BY <1>3, <1>4, <1>6, <1>8, <1>9, ReceiveStep

\* The pop is a stutter: the message was received when it was copied.
LEMMA PopsRefine ==
    ASSUME MailTypes, MailTypes', NEW p \in Procs, NEW L, Sound(L), Pops(p)
    PROVE  UNCHANGED Queues!vars
<1>1. PICK b \in Mbs : Top(p).mb = b
  BY AtEffect DEF Pops
<1>2. PICK slots, L1 : slots = messageSlots /\ Shortened(L, b, L1)
  BY DEF Shortened
<1>3. /\ Sound(L1)' /\ messageSlots' = slots /\ UNCHANGED buffer
      /\ \A a \in Mbs : mbTable'[a].isInitialized = mbTable[a].isInitialized
      /\ L[b] # <<>> /\ ~slots[L[b][1]].isInitialized
      /\ \A i \in 1 .. Len(L[b]) : i # 1 => slots[L[b][i]].isInitialized
  <2>1. Shortened(L, b, L1)
    BY <1>2
  <2>2. Sound(L1)'
    BY <1>1, <2>1, PopsKeeps
  <2>3. UNCHANGED <<messageSlots, buffer>>
    BY <1>1, <2>1, PopsKeeps
  <2>4. \A a \in Mbs : mbTable'[a].isInitialized = mbTable[a].isInitialized
    BY <1>1, <2>1, PopsKeeps
  <2>5. L[b] # <<>> /\ ~messageSlots[L[b][1]].isInitialized
    BY <1>1, <2>1, PopsKeeps
  <2>6. \A i \in 1 .. Len(L[b]) : i # 1 => messageSlots[L[b][i]].isInitialized
    BY <1>1, <2>1, PopsKeeps
  <2> QED
    BY <1>2, <2>2, <2>3, <2>4, <2>5, <2>6
<1>4. /\ Chains(L, Heads, MailLinks) /\ Chains(L1, Heads', MailLinks') /\ UNCHANGED Open
      /\ L \in [Mbs -> Seq(Slots)]
  BY <1>3 DEF Sound, InBoxes, Open, Chains
<1>5. TextOf(slots, Tail(L[b])) = TextOf(slots, L[b])
  BY <1>3, <1>4, TextPopped
<1>6. \A a \in Mbs : TextOf(slots, L1[a]) = TextOf(slots, L[a])
  BY <1>2, <1>4, <1>5 DEF Shortened
<1>7. ASSUME NEW a \in Mbs
      PROVE  Contents(a)' = Contents(a)
  <2>1. Contents(a) = IF a \in Open THEN TextOf(slots, L[a]) ELSE <<>>
    BY <1>1, <1>2, <1>4, ContentsAre
  <2>2. Contents(a)' = IF a \in Open' THEN TextOf(slots, L1[a]) ELSE <<>>
    BY <1>3, <1>4, ContentsAreNext
  <2> QED
    BY <1>4, <1>6, <2>1, <2>2
<1> QED
  BY <1>3, <1>4, <1>7, QueueStutters

\* addToMailQueue is the Send.
LEMMA addToMailQueueRefines ==
    ASSUME MailTypes, MailTypes', NEW p \in Procs, NEW L, Sound(L), addToMailQueue(p)
    PROVE  Queues!Next \/ UNCHANGED Queues!vars
<1>1. PICK b \in Mbs : b = Top(p).mb
  BY AtEffect DEF addToMailQueue
<1>2. PICK m, slots, slots1 : m = Top(p).slot /\ slots = messageSlots /\ slots1 = messageSlots'
  OBVIOUS
<1>3. PICK L1 : L1 = [L EXCEPT ![b] = Append(L[b], m)]
  OBVIOUS
<1>4. /\ Sound(L1)' /\ UNCHANGED buffer
      /\ \A a \in Mbs : mbTable'[a].isInitialized = mbTable[a].isInitialized
      /\ m \in Slots /\ slots[m].message \in Messages /\ slots1[m].isInitialized
      /\ \A s \in Slots : slots1[s].message = slots[s].message
      /\ \A a \in Mbs : \A i \in 1 .. Len(L[a]) :
            slots[L[a][i]].isInitialized /\ slots1[L[a][i]].isInitialized
  BY <1>1, <1>2, <1>3, addToMailQueueKeeps
<1>5. /\ Chains(L, Heads, MailLinks) /\ Chains(L1, Heads', MailLinks') /\ UNCHANGED Open
      /\ L \in [Mbs -> Seq(Slots)]
  BY <1>4 DEF Sound, InBoxes, Open, Chains
<1>6. \A s \in Slots : slots[s].message \in Messages \cup {Empty}
  BY <1>1, <1>2 DEF MailTypes, Message
<1>7. TextOf(slots1, Append(L[b], m)) = Append(TextOf(slots, L[b]), slots[m].message)
  <2>1. L[b] \in Seq(Slots)
    BY <1>5
  <2>2. \A i \in 1 .. Len(L[b]) :
            slots[L[b][i]].isInitialized /\ slots1[L[b][i]].isInitialized
    BY <1>4
  <2> QED
    BY <1>4, <1>6, <2>1, <2>2, TextAppend
<1>8. ASSUME NEW a \in Mbs \ {b}
      PROVE  TextOf(slots1, L[a]) = TextOf(slots, L[a])
  <2>1. \A i \in 1 .. Len(L[a]) :
            /\ slots1[L[a][i]].isInitialized /\ slots[L[a][i]].isInitialized
            /\ L[a][i] \in Slots
    BY <1>4, <1>5, ElementOfSeq
  <2>2. \A i \in 1 .. Len(L[a]) :
            /\ slots1[L[a][i]].isInitialized = slots[L[a][i]].isInitialized
            /\ slots1[L[a][i]].message = slots[L[a][i]].message
    BY <1>1, <1>2, <1>4, <2>1 DEF MailTypes, Message
  <2> QED
    BY <1>5, <2>2, TextKept
<1>9. L1[b] = Append(L[b], m) /\ \A a \in Mbs \ {b} : L1[a] = L[a]
  BY <1>3, <1>5
<1>10. \A a \in Mbs \ {b} : Contents(a)' = Contents(a)
  BY <1>1, <1>2, <1>5, <1>8, <1>9, ContentsAre, ContentsAreNext
<1>11. CASE b \in Open
  <2>1. Contents(b) = TextOf(slots, L[b]) /\ Contents(b)' = TextOf(slots1, L1[b])
    BY <1>1, <1>2, <1>5, <1>11, ContentsAre, ContentsAreNext
  <2>2. PICK text \in Messages : text = slots[m].message
    BY <1>4
  <2> QED
    BY <1>4, <1>5, <1>7, <1>9, <1>10, <1>11, <2>1, <2>2, SendStep
<1>12. CASE b \notin Open
  <2>1. Contents(b)' = Contents(b)
    BY <1>5, <1>12, ContentsAre, ContentsAreNext
  <2> QED
    BY <1>4, <1>5, <1>10, <2>1, QueueStutters
<1> QED
  BY <1>11, <1>12

\* MboxRelease is the Release, in its first step.
LEMMA ReleasesRefine ==
    ASSUME MailTypes, MailTypes', NEW p \in Procs, NEW b \in Mbs, NEW L, Sound(L),
           Releases(p, b)
    PROVE  Queues!Next
<1>1. PICK slots, slots1, L1 :
          slots = messageSlots /\ slots1 = messageSlots' /\ L1 = [L EXCEPT ![b] = <<>>]
  OBVIOUS
<1>2. /\ Sound(L1)' /\ UNCHANGED buffer
      /\ Open' = Open \ {b}
      /\ \A a \in Mbs \ {b} : \A i \in 1 .. Len(L[a]) : slots1[L[a][i]] = slots[L[a][i]]
  <2>1. /\ Sound([L EXCEPT ![b] = <<>>])' /\ UNCHANGED buffer
        /\ ~mbTable'[b].isInitialized
        /\ \A a \in Mbs \ {b} : mbTable'[a].isInitialized = mbTable[a].isInitialized
        /\ \A a \in Mbs \ {b} : \A i \in 1 .. Len(L[a]) :
              messageSlots'[L[a][i]] = messageSlots[L[a][i]]
    BY ReleasesKeeps
  <2>2. Open' = Open \ {b}
    BY <2>1 DEF Open
  <2>3. Sound(L1)'
    BY <1>1, <2>1
  <2> QED
    BY <1>1, <2>1, <2>2, <2>3
<1>3. /\ Chains(L, Heads, MailLinks) /\ Chains(L1, Heads', MailLinks')
      /\ L \in [Mbs -> Seq(Slots)] /\ \A a \in Mbs \ {b} : L1[a] = L[a]
  BY <1>1, <1>2 DEF Sound, InBoxes, Chains
<1>4. ASSUME NEW a \in Mbs \ {b}
      PROVE  TextOf(slots1, L[a]) = TextOf(slots, L[a])
  BY <1>2, <1>3, TextKept
<1>5. \A a \in Mbs \ {b} : Contents(a)' = Contents(a)
  BY <1>1, <1>2, <1>3, <1>4, ContentsAre, ContentsAreNext
<1>6. Contents(b)' = <<>>
  BY <1>2, <1>3, ContentsAreNext
<1> QED
  BY <1>2, <1>5, <1>6, ReleaseStep

\* MboxCreate is the Create.
LEMMA CreatesRefine ==
    ASSUME MailTypes, MailTypes', NEW p \in Procs, NEW b \in Mbs, NEW L, Sound(L),
           Creates(p, b)
    PROVE  Queues!Next
<1>1. PICK slots, L1 : slots = messageSlots /\ L1 = [L EXCEPT ![b] = <<>>]
  OBVIOUS
<1>2. /\ Sound(L1)' /\ UNCHANGED buffer /\ messageSlots' = slots
      /\ b \notin Open /\ Open' = Open \cup {b}
  BY <1>1, CreatesKeeps DEF Open
<1>3. /\ Chains(L, Heads, MailLinks) /\ Chains(L1, Heads', MailLinks')
      /\ L1[b] = <<>> /\ \A a \in Mbs \ {b} : L1[a] = L[a]
  BY <1>1, <1>2 DEF Sound, InBoxes, Chains
<1>4. ASSUME NEW a \in Mbs \ {b}
      PROVE  Contents(a)' = Contents(a)
  <2>1. Contents(a) = IF a \in Open THEN TextOf(slots, L[a]) ELSE <<>>
    BY <1>1, <1>3, ContentsAre
  <2>2. Contents(a)' = IF a \in Open' THEN TextOf(slots, L1[a]) ELSE <<>>
    BY <1>2, <1>3, ContentsAreNext
  <2> QED
    BY <1>2, <1>3, <2>1, <2>2
<1>5. Contents(b)' = <<>> /\ Contents(b) = <<>>
  BY <1>2, <1>3, TextEmpty, ContentsAre, ContentsAreNext
<1> QED
  BY <1>2, <1>4, <1>5, CreateStep

\* Every step that writes the mail is one of the queues, or a stutter.
LEMMA WritesRefine ==
    ASSUME MailTypes, MailTypes', NEW p \in Procs, NEW L, Sound(L), Writes(p)
    PROVE  Queues!Next \/ UNCHANGED Queues!vars
<1>1. CASE TakeSlot(p)
  <2>1. /\ Sound(L)' /\ UNCHANGED <<mbTable, buffer>>
        /\ \A b \in Mbs : \A i \in 1 .. Len(L[b]) :
                  messageSlots'[L[b][i]] = messageSlots[L[b][i]]
    BY <1>1, TakeSlotKeeps
  <2>2. UNCHANGED Open
    BY <2>1 DEF Open
  <2> QED
    BY <2>1, <2>2, SameLists
<1> QED
  BY <1>1, CopiesRefine, PopsRefine, addToMailQueueRefines, ReleasesRefine, CreatesRefine
     DEF Writes

\* A mailbox is a queue of messages: every message that is sent is received once, in
\* the order of sending, or thrown away with the mailbox, however many processes send,
\* receive, make and release as they like, as long as no interrupt handler sends.
THEOREM MailRefinement == Spec /\ Uninterrupted => ImplementsMailQueue
<1>1. Init => Queues!Init
  <2> SUFFICES ASSUME Init
               PROVE  Queues!Init
    OBVIOUS
  <2>1. PICK L : L = [b \in Mbs |-> <<>>]
    OBVIOUS
  <2>2. MailTypes /\ Chains(L, Heads, MailLinks)
    BY <2>1, InitTypes DEF Sound, InBoxes
  <2>3. \A b \in Mbs : Contents(b) = <<>>
    BY <2>1, <2>2, ContentsAre, TextEmpty
  <2>4. Open = DeviceMbs
    BY MailboxAssumption DEF Init, Open, NewMb, Mbs
  <2> QED
    BY <2>3, <2>4 DEF Init, Queues!Init
<1>2. ASSUME Slotted, Uninterrupted, [Next]_vars
      PROVE  [Queues!Next]_Queues!vars /\ Uninterrupted'
  <2>1. Slotted' /\ MailTypes /\ MailTypes' /\ Uninterrupted'
    BY <1>2, SlottedStep DEF Slotted
  <2>2. PICK L : Sound(L)
    BY <1>2 DEF Slotted
  <2>3. ASSUME UNCHANGED <<mbTable, messageSlots, buffer, frames, current>>
        PROVE  UNCHANGED Queues!vars
    <3>1. Sound(L)' /\ UNCHANGED Open
      BY <2>2, <2>3, StaysSound DEF Open
    <3> QED
      BY <2>1, <2>2, <2>3, <3>1, SameLists
  <2>4. CASE UNCHANGED vars
    BY <2>1, <2>3, <2>4 DEF vars, memVars, cpuVars
  <2>5. CASE Next
    <3>1. PICK p \in Procs : Calling(p) \/ Handler(p) \/ CallStep(p)
      BY <2>5 DEF Next
    <3>2. Crash \/ Writes(p) \/ Quiet(p)
      BY <1>2, <2>1, <2>2, <3>1, StepKinds, NoHandler DEF Sound
    <3>3. CASE Crash
      BY <2>1, <2>3, <3>3 DEF Crash, memVars
    <3>4. CASE Writes(p)
      BY <2>1, <2>2, <3>4, WritesRefine
    <3>5. CASE Quiet(p)
      <4>1. Sound(L)'
        BY <2>1, <2>2, <3>5, QuietKeeps
      <4>2. UNCHANGED <<messageSlots, buffer, Open>>
        BY <3>5 DEF Quiet, MailKept, Open
      <4> QED
        BY <2>1, <2>2, <4>1, <4>2, SameLists
    <3> QED
      BY <3>2, <3>3, <3>4, <3>5
  <2> QED
    BY <1>2, <2>1, <2>4, <2>5
<1>3. Slotted /\ Uninterrupted /\ [Next]_vars
          => [Queues!Next]_Queues!vars /\ Uninterrupted'
  BY <1>2
<1> QED
  BY <1>1, <1>3, SlottedAlways, PTL DEF Spec, ImplementsMailQueue, Queues!Spec

-----------------------------------------------------------------------------
(* Who waits where: the steps as the two queues of a mailbox see them *)

RecvCalls == {"MboxRecv", "MboxCondRecv", "waitDevice"}
SendCalls == {"MboxSend", "MboxCondSend"}

\* The call of p goes on at pc, and after a wait at then; or it is over.
Goes(p, pc, then) ==
    /\ frames'[p] # <<>> /\ Tail(frames'[p]) = <<>>
    /\ Top(p)'.pc = pc /\ Top(p)'.then = then
    /\ Top(p)'.call = Top(p).call /\ Top(p)'.mb = Top(p).mb
    /\ Top(p)'.max = Top(p).max
On(p, pc) == Goes(p, pc, Top(p).then)
Ends(p) == frames'[p] = <<>>

\* The other processes are where they were.
Others(p) == current = p /\ \A q \in Procs \ {p} : frames'[q] = frames[q]

\* The CPU stays, or goes to a process that is ready.
Stays == UNCHANGED <<status, current>>
Turned(q, st) == /\ \A x \in Procs \ {q} : status'[x] = status[x]
                 /\ status'[q] = st
                 /\ current' \in Runnable(status')
Wakes(q) == Turned(q, IF shadowProcessTable[q].isCurrent THEN "ready" ELSE status[q])

\* The queues of waiting processes: the heads stay, or that of b becomes v.
HeadsKept == \A b \in Mbs :
    /\ mbTable'[b].consumerQueueHead = mbTable[b].consumerQueueHead
    /\ mbTable'[b].producerQueueHead = mbTable[b].producerQueueHead
HeadIs(b, head, v) ==
    /\ mbTable'[b][head] = v
    /\ \A a \in Mbs, h \in Waiting : a # b \/ h # head => mbTable'[a][h] = mbTable[a][h]

\* The entries of the processes that have the CPU or wait are current.
Renewed(p) ==
    /\ shadowProcessTable'[p].isCurrent
    /\ \A q \in Procs \ {p} : shadowProcessTable'[q] = shadowProcessTable[q]
    /\ \A link \in {"nextConsumerNode", "nextProducerNode"} :
          shadowProcessTable'[p][link] \in {shadowProcessTable[p][link], NULL}
TableKept == UNCHANGED shadowProcessTable

\* p is now the first of the queue, or somebody else's next.
Joined(p, head, link) ==
    \/ Box(p)[head] = NULL /\ HeadIs(Top(p).mb, head, p) /\ Renewed(p)
    \/ /\ Box(p)[head] # NULL /\ HeadsKept
       /\ shadowProcessTable'[p].isCurrent
       /\ \A q \in Procs : shadowProcessTable[q].isCurrent => shadowProcessTable'[q].isCurrent
       /\ \A q \in Procs, l \in {"nextConsumerNode", "nextProducerNode"} :
             shadowProcessTable'[q][l] \in
                {shadowProcessTable[q][l], NULL} \cup (IF l = link THEN {p} ELSE {})

\* A call begins.
Starts(p) ==
    /\ ~Busy(p) /\ Others(p) /\ Stays /\ MailKept /\ HeadsKept
    /\ UNCHANGED messageSlots
    /\ frames'[p] # <<>> /\ Tail(frames'[p]) = <<>>
    /\ Top(p)'.mb \in Mbs /\ mbTable[Top(p)'.mb].isInitialized
    /\ Top(p)'.call \in calls[p]
    /\ \/ /\ Top(p)'.pc = "find" /\ Top(p)'.call \in SendCalls
          /\ TableKept
       \/ /\ Top(p)'.pc = "look" /\ Top(p)'.call \in RecvCalls
          /\ Renewed(p)
          /\ IF Top(p)'.call = "MboxCondRecv"
             THEN mbTable[Top(p)'.mb].mailSlotQueueHead # NULL
             ELSE Top(p)'.max \in BufferSizes \cup {IntSize}

\* A call goes on without a word to the others.
Advances(p) ==
    /\ Busy(p) /\ Others(p) /\ Stays /\ MailKept /\ HeadsKept /\ TableKept
    /\ \/ Top(p).pc = "find" /\ (Ends(p) \/ On(p, "take"))
       \/ Top(p).pc = "take" /\ On(p, IF Top(p).call = "MboxCondSend"
                                      THEN "wake_consumer" ELSE "room")
       \/ Top(p).pc = "room" /\ (On(p, "loop") \/ On(p, "mail"))
       \/ Top(p).pc = "look" /\ On(p, "loop")
       \/ Top(p).pc = "copy" /\ Refused(p) /\ Ends(p)
       \/ Top(p).pc = "copy" /\ On(p, "pop")
       \/ Top(p).pc = "resumed" /\ (IF Box(p).isInitialized THEN On(p, Top(p).then)
                                                            ELSE Ends(p))
       \/ /\ Top(p).pc = "wake_consumer" /\ FirstConsumer(p) = NULL
          /\ IF Top(p).call = "MboxCondSend" THEN On(p, "mail") ELSE Ends(p)
       \/ /\ Top(p).pc = "wake_producer" /\ FirstProducer(p) = NULL
          /\ On(p, "return_size")
       \/ Top(p).pc = "return_size" /\ Ends(p)
       \/ /\ Top(p).pc = "free_consumers" /\ FirstConsumer(p) = NULL
          /\ On(p, "free_producers")
       \/ Top(p).pc = "free_producers" /\ FirstProducer(p) = NULL /\ Ends(p)

JoinsProducers(p) ==
    LET zero == Box(p).mailSlotLimit = 0
    IN  /\ Busy(p) /\ Others(p) /\ Stays /\ MailKept
        /\ Top(p).pc = "room" /\ (zero \/ Full(p))
        /\ Joined(p, "producerQueueHead", "nextProducerNode")
        /\ IF zero /\ FirstConsumer(p) # NULL THEN On(p, "hand")
           ELSE Goes(p, "block", IF zero THEN "hand" ELSE "mail")

JoinsConsumers(p) ==
    LET zero == Box(p).mailSlotLimit = 0 /\ Top(p).call # "MboxCondRecv"
        go   == IF zero THEN "leave" ELSE "copy"
    IN  /\ Busy(p) /\ Others(p) /\ Stays /\ MailKept
        /\ Top(p).pc = "look"
        /\ Joined(p, "consumerQueueHead", "nextConsumerNode")
        /\ \/ Goes(p, "block", go) /\ (go = "copy" => Box(p).mailSlotQueueHead = NULL)
           \/ On(p, go) /\ (go = "copy" /\ Top(p).call # "MboxCondRecv"
                                => Box(p).mailSlotQueueHead # NULL)

\* A message is in the list.
Mails(p) ==
    /\ Busy(p) /\ Others(p) /\ Stays /\ HeadsKept /\ TableKept
    /\ Top(p).pc = "mail"
    /\ \A b \in Mbs :
          /\ mbTable'[b].isInitialized = mbTable[b].isInitialized
          /\ mbTable'[b].mailSlotLimit = mbTable[b].mailSlotLimit
          /\ b # Top(p).mb =>
                /\ mbTable'[b].mailSlotsAvailable = mbTable[b].mailSlotsAvailable
                /\ mbTable'[b].mailSlotQueueHead = mbTable[b].mailSlotQueueHead
    /\ mbTable'[Top(p).mb].mailSlotsAvailable = Box(p).mailSlotsAvailable - 1
    /\ mbTable'[Top(p).mb].mailSlotQueueHead # NULL
    /\ IF Top(p).call = "MboxCondSend" THEN Ends(p) ELSE On(p, "wake_consumer")

\* The first message and the first receiver are off their lists.
TakesOff(p) ==
    /\ Busy(p) /\ Others(p) /\ Stays /\ TableKept
    /\ Top(p).pc = "pop"
    /\ FirstConsumer(p) # NULL /\ Box(p).mailSlotQueueHead # NULL
    /\ HeadIs(Top(p).mb, "consumerQueueHead",
              shadowProcessTable[FirstConsumer(p)].nextConsumerNode)
    /\ \A b \in Mbs :
          /\ mbTable'[b].isInitialized = mbTable[b].isInitialized
          /\ mbTable'[b].mailSlotLimit = mbTable[b].mailSlotLimit
          /\ b # Top(p).mb =>
                /\ mbTable'[b].mailSlotsAvailable = mbTable[b].mailSlotsAvailable
                /\ mbTable'[b].mailSlotQueueHead = mbTable[b].mailSlotQueueHead
    /\ On(p, "wake_producer")

\* The head of a queue leaves it.
Drops(p, head, link) ==
    /\ Busy(p) /\ Others(p) /\ MailKept /\ TableKept
    /\ Box(p)[head] # NULL
    /\ HeadIs(Top(p).mb, head, shadowProcessTable[Box(p)[head]][link])
DropsConsumer(p) ==
    /\ Drops(p, "consumerQueueHead", "nextConsumerNode") /\ Stays
    /\ \/ Top(p).pc = "leave" /\ Ends(p)
       \/ Top(p).pc = "next_consumer" /\ On(p, "free_consumers")
DropsProducer(p) ==
    /\ Drops(p, "producerQueueHead", "nextProducerNode")
    /\ \/ /\ Top(p).pc = "hand" /\ FirstConsumer(p) # NULL
          /\ Wakes(FirstConsumer(p)) /\ Ends(p)
       \/ /\ Top(p).pc = "wake_producer"
          /\ Wakes(FirstProducer(p)) /\ On(p, "return_size")
       \/ Top(p).pc = "next_producer" /\ Stays /\ On(p, "free_producers")

\* The head of a queue is woken, and stays in it.
WakesFirst(p) ==
    /\ Busy(p) /\ Others(p) /\ MailKept /\ HeadsKept /\ TableKept
    /\ \/ /\ Top(p).pc = "wake_consumer" /\ FirstConsumer(p) # NULL
          /\ Wakes(FirstConsumer(p))
          /\ IF Top(p).call = "MboxCondSend" THEN On(p, "mail") ELSE Ends(p)
       \/ /\ Top(p).pc = "free_consumers" /\ FirstConsumer(p) # NULL
          /\ Wakes(FirstConsumer(p)) /\ On(p, "next_consumer")
       \/ /\ Top(p).pc = "free_producers" /\ FirstProducer(p) # NULL
          /\ Wakes(FirstProducer(p)) /\ On(p, "next_producer")

Blocks(p) ==
    /\ Busy(p) /\ Others(p) /\ MailKept /\ HeadsKept /\ TableKept
    /\ Top(p).pc = "block" /\ On(p, "resumed")
    /\ Turned(p, "blocked")

\* User code: a mailbox is closed, or made; the CPU is given away, or a call refused.
Closes(p, b) ==
    /\ ~Busy(p) /\ Others(p) /\ Stays /\ HeadsKept /\ TableKept
    /\ "MboxRelease" \in calls[p] /\ b \notin DeviceMbs
    /\ ~mbTable'[b].isInitialized /\ mbTable'[b].mailSlotQueueHead = NULL
    /\ \A a \in Mbs : mbTable'[a].mailSlotLimit = mbTable[a].mailSlotLimit
    /\ \A a \in Mbs \ {b} : mbTable'[a] = mbTable[a]
    /\ frames'[p] # <<>> /\ Tail(frames'[p]) = <<>>
    /\ Top(p)'.pc = "free_consumers" /\ Top(p)'.mb = b /\ Top(p)'.call = "MboxRelease"
Makes(p, b) ==
    /\ ~Busy(p) /\ current = p /\ Stays /\ UNCHANGED frames /\ TableKept
    /\ "MboxCreate" \in calls[p] /\ ~mbTable[b].isInitialized
    /\ \E n \in SlotLimits : mbTable'[b] = NewMb(n)
    /\ \A a \in Mbs \ {b} : mbTable'[a] = mbTable[a]
Between(p) ==
    /\ ~Busy(p) /\ current = p /\ UNCHANGED <<frames, mbTable, messageSlots, status>>
    /\ \/ /\ current' \in Runnable(status)
          /\ \A l \in {"nextConsumerNode", "nextProducerNode"} :
                shadowProcessTable'[p][l] = shadowProcessTable[p][l]
       \/ Stays /\ Renewed(p)
    /\ \A q \in Procs \ {p} : shadowProcessTable'[q] = shadowProcessTable[q]

WaitStep(p) ==
    \/ Starts(p) \/ Advances(p) \/ JoinsProducers(p) \/ JoinsConsumers(p) \/ Mails(p)
    \/ TakesOff(p) \/ DropsConsumer(p) \/ DropsProducer(p) \/ WakesFirst(p) \/ Blocks(p)
    \/ \E b \in Mbs : Closes(p, b) \/ Makes(p, b)
    \/ Between(p)

\* Goto and BlockThen in these terms.
LEMMA GotoGoes ==
    ASSUME MailTypes, NEW p \in Procs, Busy(p), Tail(frames[p]) = <<>>,
           current = p, NEW pc \in PCs, Goto(p, pc)
    PROVE  On(p, pc) /\ Others(p)
<1>1. PICK g : /\ GoesOn(p, g) /\ g.pc = pc
               /\ g.mb = Top(p).mb /\ g.then = Top(p).then
               /\ g.call = Top(p).call /\ g.max = Top(p).max
  BY GotoAs
<1>2. Top(p)' = g
  BY <1>1 DEF GoesOn, Top
<1> QED
  BY <1>1, <1>2 DEF On, Goes, Others, GoesOn

\* A call that is to wait.
LEMMA BlockGoes ==
    ASSUME MailTypes, NEW p \in Procs, Busy(p), Tail(frames[p]) = <<>>,
           current = p, NEW pc \in PCs, BlockThen(p, pc)
    PROVE  Goes(p, "block", pc) /\ Others(p)
<1>1. PICK g : /\ GoesOn(p, g) /\ g.pc = "block" /\ g.then = pc
               /\ g.mb = Top(p).mb
               /\ g.call = Top(p).call /\ g.max = Top(p).max
  BY BlockAs
<1>2. Top(p)' = g
  BY <1>1 DEF GoesOn, Top
<1> QED
  BY <1>1, <1>2 DEF Goes, Others, GoesOn

\* A call that returns.
LEMMA ReturnEnds ==
    ASSUME MailTypes, NEW p \in Procs, Busy(p), Tail(frames[p]) = <<>>,
           current = p, Return(p)
    PROVE  Ends(p) /\ Others(p)
  BY ReturnEffect DEF MailTypes, Busy, Ends, Others

\* unblockProc wakes one process, and the CPU goes to one that is ready.
LEMMA UnblockWakes ==
    ASSUME MailTypes, NEW q \in Procs, unblockProc(q)
    PROVE  Wakes(q)
  BY DEF unblockProc, Dispatch, Wakes, Turned, MailTypes

\* A head that is written.
LEMMA SetBoxHead ==
    ASSUME MailTypes, NEW p \in Procs, Top(p).mb \in Mbs, NEW head \in Waiting,
           NEW v \in Node, SetBox(p, head, v)
    PROVE  HeadIs(Top(p).mb, head, v) /\ MailKept
<1>1. MailKept
  BY SetBoxEffect DEF MailTypes
<1>2. CASE head = "consumerQueueHead"
  BY <1>1, <1>2 DEF HeadIs, Waiting, SetBox, MailTypes, MB
<1>3. CASE head = "producerQueueHead"
  BY <1>1, <1>3 DEF HeadIs, Waiting, SetBox, MailTypes, MB
<1> QED
  BY <1>1, <1>2, <1>3 DEF Waiting

\* getProcess makes the caller's entry current.
LEMMA getProcessRenews ==
    ASSUME MailTypes, NEW p \in Procs,
           shadowProcessTable' = getProcess(shadowProcessTable, p)
    PROVE  Renewed(p)
  BY DEF getProcess, Renewed, MailTypes, Process

\* A process joins a queue.
LEMMA EnqueueJoins ==
    ASSUME MailTypes, NEW p \in Procs, Top(p).mb \in Mbs, NEW head \in Waiting,
           NEW link \in {"nextConsumerNode", "nextProducerNode"}, Enqueue(p, head, link)
    PROVE  Joined(p, head, link) /\ MailKept
<1> DEFINE table == getProcess(shadowProcessTable, p)
<1>1. table \in [Procs -> Process]
  BY getProcessEffect DEF MailTypes
<1>2. /\ table[p].isCurrent
      /\ \A q \in Procs \ {p} : table[q] = shadowProcessTable[q]
      /\ \A q \in Procs, l \in {"nextConsumerNode", "nextProducerNode"} :
            table[q][l] \in {shadowProcessTable[q][l], NULL}
  BY DEF getProcess, MailTypes, Process
<1> HIDE DEF table
<1>3. MailKept
  BY EnqueueEffect DEF MailTypes
<1>4. CASE Box(p)[head] = NULL
  <2>1. SetBox(p, head, p) /\ shadowProcessTable' = table
    BY <1>4 DEF Enqueue, table
  <2>2. HeadIs(Top(p).mb, head, p)
    BY <2>1, SetBoxHead DEF Node
  <2>3. Renewed(p)
    BY <2>1, getProcessRenews DEF table
  <2> QED
    BY <1>3, <1>4, <2>2, <2>3 DEF Joined
<1>5. CASE Box(p)[head] # NULL
  <2>1. mbTable' = mbTable
    BY <1>5 DEF Enqueue
  <2>2. PICK t : shadowProcessTable' = [table EXCEPT ![t][link] = p]
    BY <1>5 DEF Enqueue, table
  <2>3. HeadsKept
    BY <2>1 DEF HeadsKept
  <2>4. \A q \in Procs : shadowProcessTable'[q].isCurrent = table[q].isCurrent
    BY <1>1, <2>2 DEF Process
  <2>5. ASSUME NEW q \in Procs, NEW l \in {"nextConsumerNode", "nextProducerNode"}
        PROVE  shadowProcessTable'[q][l] \in
                {shadowProcessTable[q][l], NULL} \cup (IF l = link THEN {p} ELSE {})
    <3>1. shadowProcessTable'[q][l] = table[q][l] \/ (l = link /\ shadowProcessTable'[q][l] = p)
      <4>1. CASE link = "nextConsumerNode"
        BY <1>1, <2>2, <4>1 DEF Process
      <4>2. CASE link = "nextProducerNode"
        BY <1>1, <2>2, <4>2 DEF Process
      <4> QED
        BY <4>1, <4>2
    <3> QED
      BY <1>2, <3>1
  <2> QED
    BY <1>2, <1>3, <1>5, <2>3, <2>4, <2>5 DEF Joined
<1> QED
  BY <1>4, <1>5

\* Sending calls begin.
LEMMA SendStarts ==
    ASSUME MailTypes, NEW p \in Procs, MboxSend(p) \/ MboxCondSend(p)
    PROVE  Starts(p) /\ fault' = fault
<1>1. /\ current = p /\ frames[p] = <<>> /\ UNCHANGED <<memVars, cpuVars>>
  BY DEF MboxSend, MboxCondSend, InUserCode
<1>2. PICK call \in SendCalls, b \in Mbs, m \in Messages :
          /\ call \in calls[p] /\ mbTable[b].isInitialized
          /\ Enter(p, call, "find", b, m, 0)
  BY DEF MboxSend, MboxCondSend, InUserCode, SendCalls, Sendable
<1>3. /\ frames'[p] # <<>> /\ Head(frames'[p]) = Called(call, "find", b, m, 0)
      /\ Tail(frames'[p]) = <<>>
      /\ \A q \in Procs \ {p} : frames'[q] = frames[q]
  <2>1. call \in AllCalls /\ "find" \in PCs /\ 0 \in Nat /\ frames \in [Procs -> Seq(Frame)]
    BY DEF SendCalls, AllCalls, PCs, MailTypes
  <2> QED
    BY <1>1, <1>2, <2>1, EnterEffect
<1>4. Top(p)'.pc = "find" /\ Top(p)'.call = call /\ Top(p)'.mb = b
  BY <1>3 DEF Top, Called
<1> QED
  BY <1>1, <1>2, <1>3, <1>4
  DEF Starts, Busy, Others, Stays, MailKept, HeadsKept, TableKept, memVars, cpuVars

\* Receiving calls begin, or are refused.
LEMMA RecvStarts ==
    ASSUME MailTypes, NEW p \in Procs, MboxRecv(p) \/ MboxCondRecv(p) \/ waitDevice(p)
    PROVE  (Starts(p) \/ Between(p)) /\ fault' = fault
<1>1. /\ current = p /\ frames[p] = <<>>
      /\ shadowProcessTable' = getProcess(shadowProcessTable, p)
      /\ UNCHANGED <<mbTable, messageSlots, messageIDCounter, buffer, cpuVars>>
  BY DEF MboxRecv, MboxCondRecv, waitDevice, StartRecv, InUserCode
<1>0. Renewed(p)
  BY <1>1, getProcessRenews
<1>5. CASE UNCHANGED frames
  BY <1>0, <1>1, <1>5 DEF Between, Busy, Stays, Renewed, cpuVars
<1> SUFFICES ASSUME ~ UNCHANGED frames
             PROVE  Starts(p) /\ fault' = fault
  BY <1>5
<1>2. PICK call \in RecvCalls, b \in Mbs, max \in Nat :
          /\ call \in calls[p] /\ mbTable[b].isInitialized
          /\ IF call = "MboxCondRecv" THEN mbTable[b].mailSlotQueueHead # NULL
             ELSE max \in BufferSizes \cup {IntSize}
          /\ Enter(p, call, "look", b, Empty, max)
  <2>1. CASE MboxRecv(p)
    <3>1. PICK b \in Mbs, max \in BufferSizes : StartRecv(p, "MboxRecv", b, max)
      BY <2>1 DEF MboxRecv
    <3>2. "MboxRecv" \in RecvCalls /\ max \in Nat /\ "MboxRecv" # "MboxCondRecv"
      BY MailboxAssumption DEF RecvCalls
    <3> QED
      BY <3>1, <3>2 DEF StartRecv, InUserCode
  <2>2. CASE waitDevice(p)
    <3>1. PICK d \in DeviceMbs : StartRecv(p, "waitDevice", d, IntSize)
      BY <2>2 DEF waitDevice
    <3>2. /\ "waitDevice" \in RecvCalls /\ IntSize \in Nat /\ "waitDevice" # "MboxCondRecv"
          /\ d \in Mbs
      BY MailboxAssumption DEF RecvCalls, Mbs
    <3> QED
      BY <3>1, <3>2 DEF StartRecv, InUserCode
  <2>3. CASE MboxCondRecv(p)
    <3>1. "MboxCondRecv" \in RecvCalls /\ 0 \in Nat
      BY DEF RecvCalls
    <3> QED
      BY <2>3, <3>1 DEF MboxCondRecv, InUserCode
  <2> QED
    BY <2>1, <2>2, <2>3
<1>3. /\ frames'[p] # <<>> /\ Head(frames'[p]) = Called(call, "look", b, Empty, max)
      /\ Tail(frames'[p]) = <<>>
      /\ \A q \in Procs \ {p} : frames'[q] = frames[q]
  <2>1. call \in AllCalls /\ "look" \in PCs /\ frames \in [Procs -> Seq(Frame)]
    BY DEF RecvCalls, AllCalls, PCs, MailTypes
  <2> QED
    BY <1>1, <1>2, <2>1, EnterEffect
<1>4. Top(p)'.pc = "look" /\ Top(p)'.call = call /\ Top(p)'.mb = b /\ Top(p)'.max = max
  BY <1>3 DEF Top, Called
<1> QED
  BY <1>0, <1>1, <1>2, <1>3, <1>4
  DEF Starts, Busy, Others, Stays, MailKept, HeadsKept, cpuVars

\* A mailbox is released, or made.
LEMMA UserWrites ==
    ASSUME MailTypes, NEW p \in Procs, MboxRelease(p) \/ MboxCreate(p)
    PROVE  (\E b \in Mbs : Closes(p, b) \/ Makes(p, b)) /\ fault' = fault
<1>1. CASE MboxRelease(p)
  <2>1. PICK b \in Mbs \ DeviceMbs :
          /\ mbTable' = [mbTable EXCEPT ![b].isInitialized = FALSE,
                                        ![b].released = TRUE,
                                        ![b].mailSlotQueueHead = NULL]
          /\ Enter(p, "MboxRelease", "free_consumers", b, Empty, 0)
    BY <1>1 DEF MboxRelease
  <2>2. /\ current = p /\ frames[p] = <<>> /\ "MboxRelease" \in calls[p]
        /\ UNCHANGED <<shadowProcessTable, cpuVars>>
    BY <1>1 DEF MboxRelease, InUserCode
  <2>3. /\ frames'[p] # <<>> /\ Tail(frames'[p]) = <<>>
        /\ Head(frames'[p]) = Called("MboxRelease", "free_consumers", b, Empty, 0)
        /\ \A q \in Procs \ {p} : frames'[q] = frames[q]
    <3>1. /\ "MboxRelease" \in AllCalls /\ "free_consumers" \in PCs /\ 0 \in Nat
          /\ frames \in [Procs -> Seq(Frame)]
      BY DEF AllCalls, PCs, MailTypes
    <3> QED
      BY <2>1, <2>2, <3>1, EnterEffect
  <2>4. Top(p)'.pc = "free_consumers" /\ Top(p)'.mb = b /\ Top(p)'.call = "MboxRelease"
    BY <2>3 DEF Top, Called
  <2>5. /\ ~mbTable'[b].isInitialized /\ mbTable'[b].mailSlotQueueHead = NULL
        /\ \A a \in Mbs : /\ mbTable'[a].mailSlotLimit = mbTable[a].mailSlotLimit
                          /\ mbTable'[a].consumerQueueHead = mbTable[a].consumerQueueHead
                          /\ mbTable'[a].producerQueueHead = mbTable[a].producerQueueHead
        /\ \A a \in Mbs \ {b} : mbTable'[a] = mbTable[a]
    BY <2>1 DEF MailTypes, MB
  <2>6. Closes(p, b)
    BY <2>2, <2>3, <2>4, <2>5
    DEF Closes, Busy, Others, Stays, HeadsKept, TableKept, cpuVars
  <2> QED
    BY <2>2, <2>6 DEF cpuVars
<1>2. CASE MboxCreate(p)
  <2>1. PICK b \in OpenMbs, n \in SlotLimits : mbTable' = [mbTable EXCEPT ![b] = NewMb(n)]
    BY <1>2 DEF MboxCreate
  <2>2. b \in Mbs /\ ~mbTable[b].isInitialized
    BY DEF OpenMbs
  <2>3. mbTable'[b] = NewMb(n) /\ \A a \in Mbs \ {b} : mbTable'[a] = mbTable[a]
    BY <2>1, <2>2 DEF MailTypes
  <2>4. Makes(p, b)
    BY <1>2, <2>2, <2>3
    DEF MboxCreate, InUserCode, Makes, Busy, Stays, TableKept, cpuVars
  <2> QED
    BY <1>2, <2>2, <2>4 DEF MboxCreate, cpuVars
<1> QED
  BY <1>1, <1>2

\* User code gives the CPU away.
LEMMA UserBetween ==
    ASSUME MailTypes, NEW p \in Procs, Yield(p) \/ Replace(p)
    PROVE  Between(p) /\ fault' = fault
<1>1. /\ current = p /\ ~Busy(p) /\ UNCHANGED <<frames, mbTable, messageSlots>>
      /\ Dispatch(status)
  BY DEF Yield, Replace, InUserCode, Busy, memVars
<1>2. /\ \A q \in Procs, l \in {"nextConsumerNode", "nextProducerNode"} :
            shadowProcessTable'[q][l] = shadowProcessTable[q][l]
      /\ \A q \in Procs \ {p} : shadowProcessTable'[q] = shadowProcessTable[q]
  <2>1. CASE Yield(p)
    BY <2>1 DEF Yield, memVars
  <2>2. CASE Replace(p)
    BY <2>2 DEF Replace, MailTypes, Process
  <2> QED
    BY <2>1, <2>2
<1> QED
  BY <1>1, <1>2 DEF Between, Dispatch

\* The steps of a call that concern nobody else.
LEMMA CallAdvances ==
    ASSUME MailTypes, NEW p \in Procs, Tail(frames[p]) = <<>>,
           FindSlot(p) \/ TakeSlot(p) \/ Refused(p) \/ Copies(p) \/ ReturnSize(p) \/ Resumed(p)
    PROVE  Advances(p) /\ fault' = fault
<1>1. /\ MailKept /\ HeadsKept /\ TableKept /\ Stays /\ fault' = fault
  BY DEF FindSlot, TakeSlot, Refused, Copies, ReturnSize, Resumed, MailKept, HeadsKept,
         TableKept, Stays, memVars, cpuVars
<1>2. Busy(p) /\ current = p /\ Top(p) \in Frame /\ Top(p).then \in PCs
      /\ frames[p] # <<>> /\ frames \in [Procs -> Seq(Frame)]
  BY AtEffect DEF FindSlot, TakeSlot, Refused, Copies, ReturnSize, Resumed, Frame
<1>3. CASE FindSlot(p)
  <2>1. Top(p).pc = "find"
    BY <1>3 DEF FindSlot, At
  <2>2. CASE Return(p)
    BY <1>1, <1>2, <2>1, <2>2, ReturnEnds DEF Advances
  <2>3. CASE ~Return(p)
    <3> DEFINE g == [Top(p) EXCEPT !.slot = 1 + FirstOpen, !.pc = "take"]
    <3>1. frames' = [frames EXCEPT ![p][1].slot = 1 + FirstOpen, ![p][1].pc = "take"]
          /\ OpenSteps # {}
      BY <1>3, <2>3 DEF FindSlot
    <3>2. 1 + FirstOpen \in Slots
      BY <3>1, FirstOpenIsFree
    <3>3. /\ g \in Frame /\ g.pc = "take" /\ g.mb = Top(p).mb /\ g.then = Top(p).then
          /\ g.call = Top(p).call /\ g.max = Top(p).max
      BY <1>2, <3>2 DEF Frame, PCs
    <3>4. frames' = [frames EXCEPT ![p] = [@ EXCEPT ![1] = g]]
      BY <1>2, <3>1, TopTyped
    <3> HIDE DEF g
    <3>5. GoesOn(p, g)
      BY <1>2, <3>3, <3>4, TopWritten
    <3>6. On(p, "take") /\ Others(p)
      BY <1>2, <3>3, <3>5 DEF GoesOn, On, Goes, Others, Top
    <3> QED
      BY <1>1, <1>2, <2>1, <3>6 DEF Advances
  <2> QED
    BY <2>2, <2>3
<1>4. CASE TakeSlot(p)
  <2>1. Top(p).pc = "take"
        /\ Goto(p, IF Top(p).call = "MboxCondSend" THEN "wake_consumer" ELSE "room")
    BY <1>4 DEF TakeSlot, At
  <2>2. (IF Top(p).call = "MboxCondSend" THEN "wake_consumer" ELSE "room") \in PCs
    BY DEF PCs
  <2> QED
    BY <1>1, <1>2, <2>1, <2>2, GotoGoes DEF Advances
<1>5. CASE Refused(p)
  <2>1. Top(p).pc = "copy" /\ Return(p)
    BY <1>5 DEF Refused, At
  <2> QED
    BY <1>1, <1>2, <1>5, <2>1, ReturnEnds DEF Advances
<1>6. CASE Copies(p)
  <2>1. Top(p).pc = "copy" /\ Box(p).mailSlotQueueHead # NULL
    BY <1>6 DEF Copies, At
  <2> DEFINE g == [Top(p) EXCEPT !.slot = Box(p).mailSlotQueueHead, !.pc = "pop"]
  <2>2. frames' = [frames EXCEPT ![p][1].slot = Box(p).mailSlotQueueHead, ![p][1].pc = "pop"]
    BY <1>6 DEF Copies
  <2>3. Box(p).mailSlotQueueHead \in Slots
    BY <1>6, <2>1, AtEffect DEF Copies, MB
  <2>4. /\ g \in Frame /\ g.pc = "pop" /\ g.mb = Top(p).mb /\ g.then = Top(p).then
        /\ g.call = Top(p).call /\ g.max = Top(p).max
    BY <1>2, <2>3 DEF Frame, PCs
  <2>5. frames' = [frames EXCEPT ![p] = [@ EXCEPT ![1] = g]]
    BY <1>2, <2>2, TopTyped
  <2> HIDE DEF g
  <2>6. GoesOn(p, g)
    BY <1>2, <2>4, <2>5, TopWritten
  <2>7. On(p, "pop") /\ Others(p)
    BY <1>2, <2>4, <2>6 DEF GoesOn, On, Goes, Others, Top
  <2> QED
    BY <1>1, <1>2, <2>1, <2>7 DEF Advances
<1>7. CASE ReturnSize(p)
  <2>1. Top(p).pc = "return_size" /\ Return(p)
    BY <1>7 DEF ReturnSize, At
  <2> QED
    BY <1>1, <1>2, <2>1, ReturnEnds DEF Advances
<1>8. CASE Resumed(p)
  <2>1. Top(p).pc = "resumed"
        /\ IF Box(p).isInitialized THEN Goto(p, Top(p).then) ELSE Return(p)
    BY <1>8 DEF Resumed, At
  <2> QED
    BY <1>1, <1>2, <2>1, GotoGoes, ReturnEnds DEF Advances
<1> QED
  BY <1>3, <1>4, <1>5, <1>6, <1>7, <1>8

\* A sender finds room, or joins the producers.
LEMMA SenderJoins ==
    ASSUME MailTypes, NEW p \in Procs, Tail(frames[p]) = <<>>, addToProducerQueue(p)
    PROVE  (Advances(p) \/ JoinsProducers(p)) /\ fault' = fault
<1>1. /\ Busy(p) /\ current = p /\ Top(p).pc = "room" /\ Top(p).mb \in Mbs
      /\ UNCHANGED <<messageSlots, messageIDCounter, buffer, cpuVars>>
  BY AtEffect DEF addToProducerQueue
<1> DEFINE zero == Box(p).mailSlotLimit = 0
<1>2. /\ Stays /\ fault' = fault
      /\ {"mail", "hand", "loop"} \subseteq PCs
  BY <1>1 DEF Stays, cpuVars, PCs
<1>3. CASE UNCHANGED <<mbTable, shadowProcessTable>> /\ (Goto(p, "mail") \/ Goto(p, "loop"))
  <2>1. MailKept /\ HeadsKept /\ TableKept
    BY <1>3 DEF MailKept, HeadsKept, TableKept
  <2> QED
    BY <1>1, <1>2, <1>3, <2>1, GotoGoes DEF Advances
<1>4. CASE /\ zero \/ Full(p)
           /\ Enqueue(p, "producerQueueHead", "nextProducerNode")
           /\ IF zero /\ FirstConsumer(p) # NULL THEN Goto(p, "hand")
              ELSE BlockThen(p, IF zero THEN "hand" ELSE "mail")
  <2>1. Joined(p, "producerQueueHead", "nextProducerNode") /\ MailKept
    BY <1>1, <1>4, EnqueueJoins DEF Waiting
  <2>2. CASE zero /\ FirstConsumer(p) # NULL
    <3>1. On(p, "hand") /\ Others(p)
      BY <1>1, <1>2, <1>4, <2>2, GotoGoes
    <3> QED
      BY <1>1, <1>2, <1>4, <2>1, <2>2, <3>1 DEF JoinsProducers
  <2>3. CASE ~(zero /\ FirstConsumer(p) # NULL)
    <3>1. (IF zero THEN "hand" ELSE "mail") \in PCs
      BY <1>2
    <3>2. Goes(p, "block", IF zero THEN "hand" ELSE "mail") /\ Others(p)
      BY <1>1, <1>4, <2>3, <3>1, BlockGoes
    <3> QED
      BY <1>1, <1>2, <1>4, <2>1, <2>3, <3>2 DEF JoinsProducers
  <2> QED
    BY <2>2, <2>3
<1> QED
  BY <1>3, <1>4 DEF addToProducerQueue, Ring

\* A receiver joins the consumers.
LEMMA ReceiverJoins ==
    ASSUME MailTypes, NEW p \in Procs, Tail(frames[p]) = <<>>, addToConsumerQueue(p)
    PROVE  (Advances(p) \/ JoinsConsumers(p)) /\ fault' = fault
<1>1. /\ Busy(p) /\ current = p /\ Top(p).pc = "look" /\ Top(p).mb \in Mbs
      /\ UNCHANGED <<messageSlots, messageIDCounter, buffer, cpuVars>>
  BY AtEffect DEF addToConsumerQueue
<1> DEFINE zero == Box(p).mailSlotLimit = 0 /\ Top(p).call # "MboxCondRecv"
           go   == IF zero THEN "leave" ELSE "copy"
           none == IF zero THEN FirstProducer(p) = NULL
                           ELSE Box(p).mailSlotQueueHead = NULL
<1>2. /\ Stays /\ fault' = fault
      /\ {"leave", "copy", "loop"} \subseteq PCs
  BY <1>1 DEF Stays, cpuVars, PCs
<1>3. CASE UNCHANGED <<mbTable, shadowProcessTable>> /\ Goto(p, "loop")
  <2>1. MailKept /\ HeadsKept /\ TableKept
    BY <1>3 DEF MailKept, HeadsKept, TableKept
  <2> QED
    BY <1>1, <1>2, <1>3, <2>1, GotoGoes DEF Advances
<1>4. CASE /\ Enqueue(p, "consumerQueueHead", "nextConsumerNode")
           /\ IF none /\ Top(p).call # "MboxCondRecv"
              THEN BlockThen(p, go) ELSE Goto(p, go)
  <2>1. Joined(p, "consumerQueueHead", "nextConsumerNode") /\ MailKept
    BY <1>1, <1>4, EnqueueJoins DEF Waiting
  <2>2. go \in PCs
    BY <1>2
  <2>3. CASE none /\ Top(p).call # "MboxCondRecv"
    <3>1. Goes(p, "block", go) /\ Others(p)
      BY <1>1, <1>4, <2>2, <2>3, BlockGoes
    <3> QED
      BY <1>1, <1>2, <2>1, <2>3, <3>1 DEF JoinsConsumers
  <2>4. CASE ~(none /\ Top(p).call # "MboxCondRecv")
    <3>1. On(p, go) /\ Others(p)
      BY <1>1, <1>4, <2>2, <2>4, GotoGoes
    <3> QED
      BY <1>1, <1>2, <2>1, <2>4, <3>1 DEF JoinsConsumers
  <2> QED
    BY <2>3, <2>4
<1> QED
  BY <1>3, <1>4 DEF addToConsumerQueue, Ring

\* A sender's message is in the list, and the list not empty.
LEMMA MessageMails ==
    ASSUME MailTypes, NEW p \in Procs, Tail(frames[p]) = <<>>, FrameSound(p),
           addToMailQueue(p)
    PROVE  Mails(p) /\ fault' = fault
<1>1. /\ Busy(p) /\ current = p /\ Top(p).pc = "mail" /\ Top(p).mb \in Mbs
      /\ UNCHANGED <<messageIDCounter, shadowProcessTable, buffer, cpuVars>>
  BY AtEffect DEF addToMailQueue
<1> DEFINE b == Top(p).mb
<1>2. Top(p).slot \in Slots /\ Top(p).slot # NULL
  BY <1>1, SlotsFinite DEF FrameSound, Holding
<1>3. mbTable' = [mbTable EXCEPT ![b].mailSlotsAvailable = @ - 1,
                     ![b].mailSlotQueueHead = IF @ = NULL THEN Top(p).slot ELSE @]
  BY DEF addToMailQueue
<1>4. /\ \A a \in Mbs \ {b} : mbTable'[a] = mbTable[a]
      /\ mbTable'[b].isInitialized = mbTable[b].isInitialized
      /\ mbTable'[b].mailSlotLimit = mbTable[b].mailSlotLimit
      /\ mbTable'[b].mailSlotsAvailable = mbTable[b].mailSlotsAvailable - 1
      /\ mbTable'[b].mailSlotQueueHead # NULL
      /\ mbTable'[b].consumerQueueHead = mbTable[b].consumerQueueHead
      /\ mbTable'[b].producerQueueHead = mbTable[b].producerQueueHead
  <2> DEFINE h == IF mbTable[b].mailSlotQueueHead = NULL THEN Top(p).slot
                  ELSE mbTable[b].mailSlotQueueHead
             mb1 == [mbTable[b] EXCEPT !.mailSlotsAvailable = @ - 1]
             mb2 == [mb1 EXCEPT !.mailSlotQueueHead = h]
  <2>1. mbTable[b] \in MB /\ mbTable \in [Mbs -> MB]
    BY <1>1 DEF MailTypes
  <2>2. /\ mb1.isInitialized = mbTable[b].isInitialized
        /\ mb1.mailSlotLimit = mbTable[b].mailSlotLimit
        /\ mb1.mailSlotsAvailable = mbTable[b].mailSlotsAvailable - 1
        /\ mb1.mailSlotQueueHead = mbTable[b].mailSlotQueueHead
        /\ mb1.consumerQueueHead = mbTable[b].consumerQueueHead
        /\ mb1.producerQueueHead = mbTable[b].producerQueueHead
        /\ DOMAIN mb1 = DOMAIN mbTable[b]
    BY <2>1 DEF MB
  <2>3. /\ mb2.isInitialized = mb1.isInitialized
        /\ mb2.mailSlotLimit = mb1.mailSlotLimit
        /\ mb2.mailSlotsAvailable = mb1.mailSlotsAvailable
        /\ mb2.mailSlotQueueHead = h
        /\ mb2.consumerQueueHead = mb1.consumerQueueHead
        /\ mb2.producerQueueHead = mb1.producerQueueHead
    BY <2>1 DEF MB
  <2>4. mbTable' = [mbTable EXCEPT ![b] = mb2]
    <3> DEFINE then == [mbTable EXCEPT ![b].mailSlotsAvailable = @ - 1]
    <3>1. then = [mbTable EXCEPT ![b] = mb1] /\ then[b] = mb1
      BY <1>1, <2>1
    <3>2. mbTable' = [then EXCEPT ![b].mailSlotQueueHead =
                          IF @ = NULL THEN Top(p).slot ELSE @]
      BY <1>3
    <3>3. DOMAIN then = Mbs /\ b \in Mbs
      BY <1>1, <2>1
    <3> HIDE DEF then
    <3>4. mbTable' = [then EXCEPT ![b] = mb2]
      BY <2>2, <3>1, <3>2, <3>3
    <3> HIDE DEF mb1, mb2
    <3> QED
      BY <2>1, <3>1, <3>4
  <2> HIDE DEF mb1, mb2
  <2>5. /\ mbTable'[b] = mb2 /\ \A a \in Mbs \ {b} : mbTable'[a] = mbTable[a]
    BY <1>1, <2>1, <2>4
  <2>6. h # NULL
    BY <1>2
  <2> QED
    BY <2>2, <2>3, <2>5, <2>6
<1>5. IF Top(p).call = "MboxCondSend" THEN Ends(p) ELSE On(p, "wake_consumer")
  BY <1>1, GotoGoes, ReturnEnds DEF addToMailQueue, PCs
<1>6. Others(p)
  BY <1>1, GotoGoes, ReturnEnds DEF addToMailQueue, PCs
<1>7. HeadsKept /\ TableKept /\ Stays /\ fault' = fault
  BY <1>1, <1>4 DEF HeadsKept, TableKept, Stays, cpuVars
<1> QED
  BY <1>1, <1>4, <1>5, <1>6, <1>7 DEF Mails, Box

\* The receiver has copied its message.
LEMMA MessageTakesOff ==
    ASSUME MailTypes, NEW p \in Procs, Tail(frames[p]) = <<>>, Pops(p)
    PROVE  TakesOff(p) /\ fault' = fault
<1>1. /\ Busy(p) /\ current = p /\ Top(p).pc = "pop" /\ Top(p).mb \in Mbs /\ Box(p) \in MB
      /\ FirstConsumer(p) # NULL /\ Box(p).mailSlotQueueHead # NULL
      /\ UNCHANGED <<messageSlots, messageIDCounter, shadowProcessTable, buffer, cpuVars>>
  BY AtEffect DEF Pops
<1> DEFINE b == Top(p).mb
           v == shadowProcessTable[FirstConsumer(p)].nextConsumerNode
           n == messageSlots[Box(p).mailSlotQueueHead].nextMessage
<1>2. mbTable' = [mbTable EXCEPT ![b] = Popped(@)] /\ mbTable \in [Mbs -> MB]
  BY DEF Pops, MailTypes
<1>3. mbTable'[b] = Popped(mbTable[b]) /\ \A a \in Mbs \ {b} : mbTable'[a] = mbTable[a]
  BY <1>1, <1>2
<1>4. /\ mbTable'[b].consumerQueueHead = v
      /\ mbTable'[b].producerQueueHead = mbTable[b].producerQueueHead
      /\ mbTable'[b].isInitialized = mbTable[b].isInitialized
      /\ mbTable'[b].mailSlotLimit = mbTable[b].mailSlotLimit
  BY <1>1, <1>3 DEF Popped, MB, Box, FirstConsumer
<1>5. HeadIs(b, "consumerQueueHead", v)
  BY <1>3, <1>4 DEF HeadIs, Waiting
<1>6. On(p, "wake_producer") /\ Others(p)
  BY <1>1, GotoGoes DEF Pops, PCs
<1> QED
  BY <1>1, <1>3, <1>4, <1>5, <1>6 DEF TakesOff, Stays, TableKept, cpuVars

\* A head of a queue is a process, and has a next one.
LEMMA HeadTyped ==
    ASSUME MailTypes, NEW p \in Procs, Top(p).mb \in Mbs, NEW head \in Waiting,
           Box(p)[head] # NULL
    PROVE  /\ Box(p)[head] \in Procs
           /\ \A link \in {"nextConsumerNode", "nextProducerNode"} :
                 shadowProcessTable[Box(p)[head]][link] \in Node
<1>1. Box(p) \in MB
  BY DEF Box, MailTypes
<1>2. Box(p)[head] \in Procs
  BY <1>1 DEF MB, Waiting, Node
<1> QED
  BY <1>2 DEF MailTypes, Process

\* The rendezvous, and the wakeups at the end of a send or a receive.
LEMMA CallWakes ==
    ASSUME MailTypes, NEW p \in Procs, Tail(frames[p]) = <<>>, ~Crash,
           HandOver(p) \/ WakeConsumer(p) \/ WakeProducer(p) \/ Leave(p)
    PROVE  /\ Advances(p) \/ WakesFirst(p) \/ DropsConsumer(p) \/ DropsProducer(p)
           /\ fault' = fault
<1>1. /\ Busy(p) /\ current = p /\ Top(p).mb \in Mbs /\ Box(p) \in MB
      /\ frames[p] # <<>> /\ frames \in [Procs -> Seq(Frame)]
  BY AtEffect DEF HandOver, WakeConsumer, WakeProducer, Leave
<1>2. FirstConsumer(p) = Box(p)["consumerQueueHead"]
      /\ FirstProducer(p) = Box(p)["producerQueueHead"]
  BY DEF FirstConsumer, FirstProducer
<1>3. {"mail", "return_size"} \subseteq PCs
      /\ {"consumerQueueHead", "producerQueueHead"} \subseteq Waiting
  BY DEF PCs, Waiting
<1>4. CASE HandOver(p)
  <2>1. /\ Top(p).pc = "hand" /\ FirstProducer(p) # NULL /\ FirstConsumer(p) # NULL
        /\ SetBox(p, "producerQueueHead",
                  shadowProcessTable[FirstProducer(p)].nextProducerNode)
        /\ Return(p) /\ unblockProc(FirstConsumer(p))
        /\ UNCHANGED shadowProcessTable
    BY <1>4 DEF HandOver, At
  <2>2. FirstConsumer(p) \in Procs /\ shadowProcessTable[FirstProducer(p)].nextProducerNode \in Node
    BY <1>1, <1>2, <1>3, <2>1, HeadTyped
  <2>3. Wakes(FirstConsumer(p)) /\ fault' = fault
    BY <2>1, <2>2, UnblockWakes DEF unblockProc, Dispatch
  <2>4. Drops(p, "producerQueueHead", "nextProducerNode") /\ Ends(p)
    BY <1>1, <1>2, <1>3, <2>1, <2>2, SetBoxHead, ReturnEnds DEF Drops, TableKept
  <2> QED
    BY <2>1, <2>3, <2>4 DEF DropsProducer
<1>5. CASE Leave(p)
  <2>1. /\ Top(p).pc = "leave" /\ FirstConsumer(p) # NULL
        /\ SetBox(p, "consumerQueueHead",
                  shadowProcessTable[FirstConsumer(p)].nextConsumerNode)
        /\ Return(p)
        /\ UNCHANGED <<shadowProcessTable, cpuVars>>
    BY <1>5 DEF Leave, At
  <2>2. shadowProcessTable[FirstConsumer(p)].nextConsumerNode \in Node
    BY <1>1, <1>2, <1>3, <2>1, HeadTyped
  <2>3. Drops(p, "consumerQueueHead", "nextConsumerNode") /\ Ends(p)
    BY <1>1, <1>2, <1>3, <2>1, <2>2, SetBoxHead, ReturnEnds DEF Drops, TableKept
  <2> QED
    BY <2>1, <2>3 DEF DropsConsumer, Stays, cpuVars
<1>6. CASE WakeConsumer(p)
  <2>1. /\ Top(p).pc = "wake_consumer" /\ UNCHANGED memVars
        /\ IF Top(p).call = "MboxCondSend" THEN Goto(p, "mail") ELSE Return(p)
        /\ IF FirstConsumer(p) = NULL THEN UNCHANGED cpuVars
           ELSE unblockProc(FirstConsumer(p))
    BY <1>6 DEF WakeConsumer, At
  <2>2. MailKept /\ HeadsKept /\ TableKept
    BY <2>1 DEF MailKept, HeadsKept, TableKept, memVars
  <2>3. (IF Top(p).call = "MboxCondSend" THEN On(p, "mail") ELSE Ends(p)) /\ Others(p)
    BY <1>1, <1>3, <2>1, GotoGoes, ReturnEnds
  <2>4. CASE FirstConsumer(p) = NULL
    BY <1>1, <2>1, <2>2, <2>3, <2>4 DEF Advances, Stays, cpuVars
  <2>5. CASE FirstConsumer(p) # NULL
    <3>1. FirstConsumer(p) \in Procs
      BY <1>1, <1>2, <1>3, <2>5, HeadTyped
    <3>2. Wakes(FirstConsumer(p)) /\ fault' = fault
      BY <2>1, <2>5, <3>1, UnblockWakes DEF unblockProc, Dispatch
    <3> QED
      BY <1>1, <2>1, <2>2, <2>3, <2>5, <3>2 DEF WakesFirst
  <2> QED
    BY <2>4, <2>5
<1>7. CASE WakeProducer(p)
  <2>1. /\ Top(p).pc = "wake_producer" /\ UNCHANGED <<messageSlots, shadowProcessTable>>
        /\ Goto(p, "return_size")
    BY <1>7 DEF WakeProducer, At
  <2>2. On(p, "return_size") /\ Others(p)
    BY <1>1, <1>3, <2>1, GotoGoes
  <2>3. CASE FirstProducer(p) = NULL
    <3>1. UNCHANGED <<mbTable, cpuVars>>
      BY <1>7, <2>3 DEF WakeProducer
    <3>2. MailKept /\ HeadsKept /\ TableKept /\ Stays /\ fault' = fault
      BY <2>1, <3>1 DEF MailKept, HeadsKept, TableKept, Stays, cpuVars
    <3> QED
      BY <1>1, <2>1, <2>2, <2>3, <3>2 DEF Advances
  <2>4. CASE FirstProducer(p) # NULL
    <3>1. /\ SetBox(p, "producerQueueHead",
                    shadowProcessTable[FirstProducer(p)].nextProducerNode)
          /\ unblockProc(FirstProducer(p))
      BY <1>7, <2>4 DEF WakeProducer
    <3>2. FirstProducer(p) \in Procs
          /\ shadowProcessTable[FirstProducer(p)].nextProducerNode \in Node
      BY <1>1, <1>2, <1>3, <2>4, HeadTyped
    <3>3. Wakes(FirstProducer(p)) /\ fault' = fault
      BY <3>1, <3>2, UnblockWakes DEF unblockProc, Dispatch
    <3>4. Drops(p, "producerQueueHead", "nextProducerNode")
      BY <1>1, <1>2, <1>3, <2>1, <2>2, <2>4, <3>1, <3>2, SetBoxHead DEF Drops, TableKept
    <3> QED
      BY <2>1, <2>2, <3>3, <3>4 DEF DropsProducer
  <2> QED
    BY <2>3, <2>4
<1> QED
  BY <1>4, <1>5, <1>6, <1>7

\* MboxRelease wakes a process, or goes on, or is done.
LEMMA ReleaseWakes ==
    ASSUME MailTypes, NEW p \in Procs, Tail(frames[p]) = <<>>, ~Crash,
           FreeConsumers(p) \/ FreeProducers(p)
    PROVE  /\ Advances(p) \/ WakesFirst(p) \/ DropsConsumer(p) \/ DropsProducer(p)
           /\ fault' = fault
<1>1. /\ Busy(p) /\ current = p /\ Top(p).mb \in Mbs /\ Box(p) \in MB
      /\ frames[p] # <<>> /\ frames \in [Procs -> Seq(Frame)]
  BY AtEffect DEF FreeConsumers, FreeProducers, FreeQueue, FreeNext
<1>2. FirstConsumer(p) = Box(p)["consumerQueueHead"]
      /\ FirstProducer(p) = Box(p)["producerQueueHead"]
  BY DEF FirstConsumer, FirstProducer
<1>3. {"free_consumers", "next_consumer", "free_producers", "next_producer"} \subseteq PCs
      /\ {"consumerQueueHead", "producerQueueHead"} \subseteq Waiting
  BY DEF PCs, Waiting
<1>4. CASE FreeQueue(p, "free_consumers", "consumerQueueHead", "next_consumer",
                     Goto(p, "free_producers"))
  <2>1. /\ Top(p).pc = "free_consumers" /\ UNCHANGED memVars
        /\ IF FirstConsumer(p) = NULL THEN Goto(p, "free_producers") /\ UNCHANGED cpuVars
           ELSE unblockProc(FirstConsumer(p)) /\ Goto(p, "next_consumer")
    BY <1>2, <1>4 DEF FreeQueue, At
  <2>2. MailKept /\ HeadsKept /\ TableKept
    BY <2>1 DEF MailKept, HeadsKept, TableKept, memVars
  <2>3. CASE FirstConsumer(p) = NULL
    <3>1. On(p, "free_producers") /\ Others(p)
      BY <1>1, <1>3, <2>1, <2>3, GotoGoes
    <3> QED
      BY <1>1, <2>1, <2>2, <2>3, <3>1 DEF Advances, Stays, cpuVars
  <2>4. CASE FirstConsumer(p) # NULL
    <3>1. FirstConsumer(p) \in Procs
      BY <1>1, <1>2, <1>3, <2>4, HeadTyped
    <3>2. Wakes(FirstConsumer(p)) /\ fault' = fault
      BY <2>1, <2>4, <3>1, UnblockWakes DEF unblockProc, Dispatch
    <3>3. On(p, "next_consumer") /\ Others(p)
      BY <1>1, <1>3, <2>1, <2>4, GotoGoes
    <3> QED
      BY <1>1, <2>1, <2>2, <2>4, <3>2, <3>3 DEF WakesFirst
  <2> QED
    BY <2>3, <2>4
<1>5. CASE FreeQueue(p, "free_producers", "producerQueueHead", "next_producer", Return(p))
  <2>1. /\ Top(p).pc = "free_producers" /\ UNCHANGED memVars
        /\ IF FirstProducer(p) = NULL THEN Return(p) /\ UNCHANGED cpuVars
           ELSE unblockProc(FirstProducer(p)) /\ Goto(p, "next_producer")
    BY <1>2, <1>5 DEF FreeQueue, At
  <2>2. MailKept /\ HeadsKept /\ TableKept
    BY <2>1 DEF MailKept, HeadsKept, TableKept, memVars
  <2>3. CASE FirstProducer(p) = NULL
    <3>1. Ends(p) /\ Others(p)
      BY <1>1, <2>1, <2>3, ReturnEnds
    <3> QED
      BY <1>1, <2>1, <2>2, <2>3, <3>1 DEF Advances, Stays, cpuVars
  <2>4. CASE FirstProducer(p) # NULL
    <3>1. FirstProducer(p) \in Procs
      BY <1>1, <1>2, <1>3, <2>4, HeadTyped
    <3>2. Wakes(FirstProducer(p)) /\ fault' = fault
      BY <2>1, <2>4, <3>1, UnblockWakes DEF unblockProc, Dispatch
    <3>3. On(p, "next_producer") /\ Others(p)
      BY <1>1, <1>3, <2>1, <2>4, GotoGoes
    <3> QED
      BY <1>1, <2>1, <2>2, <2>4, <3>2, <3>3 DEF WakesFirst
  <2> QED
    BY <2>3, <2>4
<1>6. CASE FreeNext(p, "next_consumer", "consumerQueueHead", "nextConsumerNode",
                    "free_consumers")
  <2>1. /\ Top(p).pc = "next_consumer" /\ FirstConsumer(p) # NULL
        /\ SetBox(p, "consumerQueueHead",
                  shadowProcessTable[FirstConsumer(p)]["nextConsumerNode"])
        /\ Goto(p, "free_consumers") /\ UNCHANGED <<shadowProcessTable, cpuVars>>
    BY <1>2, <1>6 DEF FreeNext, At
  <2>2. shadowProcessTable[FirstConsumer(p)]["nextConsumerNode"] \in Node
    BY <1>1, <1>2, <1>3, <2>1, HeadTyped
  <2>3. On(p, "free_consumers") /\ Others(p)
    BY <1>1, <1>3, <2>1, GotoGoes
  <2>4. Drops(p, "consumerQueueHead", "nextConsumerNode")
    BY <1>1, <1>2, <1>3, <2>1, <2>2, <2>3, SetBoxHead DEF Drops, TableKept
  <2> QED
    BY <2>1, <2>3, <2>4 DEF DropsConsumer, Stays, cpuVars
<1>7. CASE FreeNext(p, "next_producer", "producerQueueHead", "nextProducerNode",
                    "free_producers")
  <2>1. /\ Top(p).pc = "next_producer" /\ FirstProducer(p) # NULL
        /\ SetBox(p, "producerQueueHead",
                  shadowProcessTable[FirstProducer(p)]["nextProducerNode"])
        /\ Goto(p, "free_producers") /\ UNCHANGED <<shadowProcessTable, cpuVars>>
    BY <1>2, <1>7 DEF FreeNext, At
  <2>2. shadowProcessTable[FirstProducer(p)]["nextProducerNode"] \in Node
    BY <1>1, <1>2, <1>3, <2>1, HeadTyped
  <2>3. On(p, "free_producers") /\ Others(p)
    BY <1>1, <1>3, <2>1, GotoGoes
  <2>4. Drops(p, "producerQueueHead", "nextProducerNode")
    BY <1>1, <1>2, <1>3, <2>1, <2>2, <2>3, SetBoxHead DEF Drops, TableKept
  <2> QED
    BY <2>1, <2>3, <2>4 DEF DropsProducer, Stays, cpuVars
<1> QED
  BY <1>4, <1>5, <1>6, <1>7 DEF FreeConsumers, FreeProducers

\* A process blocks.
LEMMA CallBlocks ==
    ASSUME MailTypes, NEW p \in Procs, Tail(frames[p]) = <<>>, BlockMe(p)
    PROVE  Blocks(p) /\ fault' = fault
<1>1. /\ Busy(p) /\ current = p /\ Top(p).pc = "block"
      /\ Goto(p, "resumed") /\ UNCHANGED memVars
      /\ Dispatch([status EXCEPT ![p] = "blocked"])
  BY AtEffect DEF BlockMe
<1>2. On(p, "resumed") /\ Others(p)
  BY <1>1, GotoGoes DEF PCs
<1>3. Turned(p, "blocked") /\ fault' = fault
  BY <1>1 DEF Dispatch, Turned, MailTypes
<1> QED
  BY <1>1, <1>2, <1>3 DEF Blocks, MailKept, HeadsKept, TableKept, memVars

\* Whatever a process does without a handler, the queues see it as one of these.
LEMMA WaitSteps ==
    ASSUME MailTypes, NEW p \in Procs, FrameSound(p), Calling(p) \/ CallStep(p)
    PROVE  Crash \/ (WaitStep(p) /\ fault' = fault)
<1> SUFFICES ASSUME ~Crash
             PROVE  WaitStep(p) /\ fault' = fault
  OBVIOUS
<1>1. CASE Calling(p)
  <2>1. CASE MboxSend(p) \/ MboxCondSend(p)
    BY <2>1, SendStarts DEF WaitStep
  <2>2. CASE MboxRecv(p) \/ MboxCondRecv(p) \/ waitDevice(p)
    BY <2>2, RecvStarts DEF WaitStep
  <2>3. CASE MboxRelease(p) \/ MboxCreate(p)
    BY <2>3, UserWrites DEF WaitStep
  <2>4. CASE Yield(p) \/ Replace(p)
    BY <2>4, UserBetween DEF WaitStep
  <2> QED
    BY <1>1, <2>1, <2>2, <2>3, <2>4 DEF Calling
<1>2. CASE CallStep(p)
  <2>1. Tail(frames[p]) = <<>>
    BY <1>2 DEF FrameSound, CallStep, Busy, At, FindSlot, TakeSlot, addToProducerQueue,
                HandOver, addToMailQueue, WakeConsumer, addToConsumerQueue, Leave,
                CopyMail, PopMail, WakeProducer, ReturnSize, BlockMe, Resumed,
                FreeConsumers, FreeProducers, FreeQueue, FreeNext
  <2>2. CASE FindSlot(p) \/ TakeSlot(p) \/ CopyMail(p) \/ ReturnSize(p) \/ Resumed(p)
    BY <2>1, <2>2, CopyMailIs, CallAdvances DEF WaitStep
  <2>3. CASE addToProducerQueue(p)
    BY <2>1, <2>3, SenderJoins DEF WaitStep
  <2>4. CASE addToConsumerQueue(p)
    BY <2>1, <2>4, ReceiverJoins DEF WaitStep
  <2>5. CASE addToMailQueue(p)
    BY <2>1, <2>5, MessageMails DEF WaitStep
  <2>6. CASE PopMail(p)
    BY <2>1, <2>6, PopMailIs, MessageTakesOff DEF WaitStep
  <2>7. CASE HandOver(p) \/ WakeConsumer(p) \/ WakeProducer(p) \/ Leave(p)
    BY <2>1, <2>7, CallWakes DEF WaitStep
  <2>8. CASE FreeConsumers(p) \/ FreeProducers(p)
    BY <2>1, <2>8, ReleaseWakes DEF WaitStep
  <2>9. CASE BlockMe(p)
    BY <2>1, <2>9, CallBlocks DEF WaitStep
  <2> QED
    BY <1>2, <2>2, <2>3, <2>4, <2>5, <2>6, <2>7, <2>8, <2>9 DEF CallStep
<1> QED
  BY <1>1, <1>2

-----------------------------------------------------------------------------
(* Whose turn it is *)

RecvPCs == {"look", "copy", "pop", "leave", "wake_producer", "return_size"}
SendPCs == {"find", "take", "room", "hand", "mail", "wake_consumer"}
FreePCs == {"free_consumers", "next_consumer", "free_producers", "next_producer"}

\* Where a process may be without the CPU.
OffCPU == {"resumed", "return_size", "next_consumer", "next_producer", "mail"}

\* What a call is at, or will be at after its wait.
Part(f) == IF f.pc \in {"block", "resumed"} THEN f.then ELSE f.pc

\* A call is where its kind of call can be, with the CPU unless it has given it away,
\* and a process that is blocked is in the middle of a call.
Turn(p) ==
    /\ Busy(p) =>
          /\ Top(p).pc \notin OffCPU => current = p
          /\ Top(p).call \in calls[p]
          /\ Part(Top(p)) \in RecvPCs => Top(p).call \in RecvCalls
          /\ Part(Top(p)) \in SendPCs => Top(p).call \in SendCalls
          /\ Top(p).pc \in FreePCs => Top(p).call = "MboxRelease"
    /\ status[p] = "blocked" => Busy(p) /\ Top(p).pc = "resumed" /\ current # p

\* The sentinel has the CPU when nobody else can.
SentinelLast == current = Sentinel => \A q \in Procs \ {Sentinel} : status[q] = "blocked"
Turns == (\A p \in Procs : Turn(p)) /\ SentinelLast

\* What every step has in common.
LEMMA WaitStepCommon ==
    ASSUME MailTypes, NEW p \in Procs, WaitStep(p)
    PROVE  /\ current = p /\ \A q \in Procs \ {p} : frames'[q] = frames[q]
           /\ \A q \in Procs \ {p} : status'[q] \in {status[q], "ready"}
           /\ ~Blocks(p) => status'[p] \in {status[p], "ready"}
           /\ Stays \/ current' \in Runnable(status')
<1>1. CASE \/ Starts(p) \/ Advances(p) \/ JoinsProducers(p) \/ JoinsConsumers(p)
           \/ Mails(p) \/ TakesOff(p) \/ DropsConsumer(p)
           \/ \E b \in Mbs : Closes(p, b) \/ Makes(p, b)
  BY <1>1 DEF Starts, Advances, JoinsProducers, JoinsConsumers, Mails, TakesOff,
              DropsConsumer, Drops, Closes, Makes, Others, Stays
<1>2. CASE DropsProducer(p) \/ WakesFirst(p)
  BY <1>2 DEF DropsProducer, Drops, WakesFirst, Others, Stays, Wakes, Turned
<1>3. CASE Blocks(p)
  BY <1>3 DEF Blocks, Others, Turned
<1>4. CASE Between(p)
  BY <1>4 DEF Between
<1> QED
  BY <1>1, <1>2, <1>3, <1>4 DEF WaitStep

\* Who is dispatched is ready, and not the sentinel if it can be another.
LEMMA RunnableIs ==
    ASSUME NEW st \in [Procs -> {"ready", "blocked"}], NEW c \in Runnable(st)
    PROVE  /\ c \in Procs => st[c] = "ready"
           /\ c = Sentinel => \A q \in Procs \ {Sentinel} : st[q] = "blocked"
  BY MailboxAssumption DEF Runnable, NULL

\* Where the call of the process that takes the step goes on.
LEMMA TurnKept ==
    ASSUME MailTypes, NEW p \in Procs, Turn(p), FrameSound(p), WaitStep(p),
           UNCHANGED calls, Busy(p)'
    PROVE  /\ Top(p)'.call \in calls[p]
           /\ Part(Top(p)') \in RecvPCs => Top(p)'.call \in RecvCalls
           /\ Part(Top(p)') \in SendPCs => Top(p)'.call \in SendCalls
           /\ Top(p)'.pc \in FreePCs => Top(p)'.call = "MboxRelease"
           /\ Top(p)'.pc \notin OffCPU => Stays \/ current' = p
<1> USE DEF RecvPCs, SendPCs, FreePCs, OffCPU, RecvCalls, SendCalls, Part, Busy
<1>1. CASE Starts(p)
  BY <1>1 DEF Starts
<1>2. CASE Advances(p)
  BY <1>2 DEF Advances, On, Goes, Ends, Turn, FrameSound
<1>3. CASE JoinsProducers(p)
  BY <1>3 DEF JoinsProducers, On, Goes, Turn
<1>4. CASE JoinsConsumers(p)
  BY <1>4 DEF JoinsConsumers, On, Goes, Turn
<1>5. CASE Mails(p) \/ TakesOff(p) \/ Blocks(p)
  BY <1>5 DEF Mails, TakesOff, Blocks, On, Goes, Ends, Turn
<1>6. CASE DropsConsumer(p) \/ DropsProducer(p) \/ WakesFirst(p)
  BY <1>6 DEF DropsConsumer, DropsProducer, Drops, WakesFirst, On, Goes, Ends, Turn
<1>7. CASE \E b \in Mbs : Closes(p, b) \/ Makes(p, b)
  BY <1>7 DEF Closes, Makes
<1>8. CASE Between(p)
  BY <1>8 DEF Between
<1> QED
  BY <1>1, <1>2, <1>3, <1>4, <1>5, <1>6, <1>7, <1>8 DEF WaitStep

\* Turns is inductive.
LEMMA TurnsKept ==
    ASSUME MailTypes, MailTypes', Turns, NEW p \in Procs, FrameSound(p), WaitStep(p),
           UNCHANGED calls
    PROVE  Turns'
<1>1. /\ current = p /\ \A q \in Procs \ {p} : frames'[q] = frames[q]
      /\ \A q \in Procs \ {p} : status'[q] \in {status[q], "ready"}
      /\ ~Blocks(p) => status'[p] \in {status[p], "ready"}
      /\ Stays \/ current' \in Runnable(status')
  BY WaitStepCommon
<1>2. status' \in [Procs -> {"ready", "blocked"}] /\ status \in [Procs -> {"ready", "blocked"}]
  BY DEF MailTypes
<1>3. status[p] = "ready"
  BY <1>1, <1>2 DEF Turns, Turn
<1>4. \A q \in Procs : status'[q] = "blocked" => current' # q
  <2>1. CASE Stays
    BY <1>1, <1>2, <1>3, <2>1 DEF Turns, Turn, Stays
  <2>2. CASE current' \in Runnable(status')
    BY <1>2, <2>2, RunnableIs
  <2> QED
    BY <1>1, <2>1, <2>2
<1>5. SentinelLast'
  <2>1. CASE Stays
    BY <2>1 DEF Turns, SentinelLast, Stays
  <2>2. CASE current' \in Runnable(status')
    BY <1>2, <2>2, RunnableIs DEF SentinelLast
  <2> QED
    BY <1>1, <2>1, <2>2
<1>6. ASSUME NEW q \in Procs \ {p}
      PROVE  Turn(q)'
  <2>1. Busy(q)' = Busy(q) /\ Top(q)' = Top(q)
    BY <1>1 DEF Busy, Top
  <2>2. Busy(q) => Top(q).pc \in OffCPU
    BY <1>1 DEF Turns, Turn
  <2>3. status'[q] = "blocked" => status[q] = "blocked"
    BY <1>1
  <2> QED
    BY <1>4, <2>1, <2>2, <2>3 DEF Turns, Turn
<1>7. Turn(p)'
  <2>1. status'[p] = "blocked" => Busy(p)' /\ Top(p)'.pc = "resumed"
    BY <1>1, <1>3 DEF Blocks, On, Goes, Busy
  <2>2. Busy(p)' => /\ Top(p)'.pc \notin OffCPU => Stays \/ current' = p
                    /\ Top(p)'.call \in calls[p]
                    /\ Part(Top(p)') \in RecvPCs => Top(p)'.call \in RecvCalls
                    /\ Part(Top(p)') \in SendPCs => Top(p)'.call \in SendCalls
                    /\ Top(p)'.pc \in FreePCs => Top(p)'.call = "MboxRelease"
    BY TurnKept DEF Turns
  <2>3. Stays => current' = p
    BY <1>1 DEF Stays
  <2> QED
    BY <1>4, <2>1, <2>2, <2>3 DEF Turn
<1> QED
  BY <1>5, <1>6, <1>7 DEF Turns

-----------------------------------------------------------------------------
(* One receiver, one sender, one who makes and releases *)

Receivers == Callers({"MboxRecv", "MboxCondRecv", "waitDevice"})
Senders == Callers({"MboxSend", "MboxCondSend", "handler"})
Owners == Callers({"MboxCreate", "MboxRelease"})
Releasers == Callers({"MboxRelease"})

\* Who releases mailboxes is the only one who does, and who makes them.
OneOwns == \A r \in Releasers, o \in Owners : r = o

\* A set of one has no other member.
LEMMA AtMostOne ==
    ASSUME NEW S \in SUBSET Procs, Cardinality(S) <= 1, NEW x \in S, NEW y \in S
    PROVE  x = y
<1>1. IsFiniteSet(S) /\ Cardinality(S) \in Nat
  BY FS_Subset, FS_CardinalityType, MailboxAssumption
<1> SUFFICES ASSUME x # y
             PROVE  FALSE
  OBVIOUS
<1>2. IsFiniteSet(S \ {x}) /\ Cardinality(S \ {x}) = Cardinality(S) - 1
  BY <1>1, FS_RemoveElement
<1>3. Cardinality((S \ {x}) \ {y}) = Cardinality(S \ {x}) - 1
      /\ IsFiniteSet((S \ {x}) \ {y})
  BY <1>2, FS_RemoveElement
<1>4. Cardinality((S \ {x}) \ {y}) \in Nat
  BY <1>3, FS_CardinalityType
<1> QED
  BY <1>1, <1>2, <1>3, <1>4

\* Asleep, or on the way to it: from the queue to blockMe nobody else has the CPU.
Sleeps(p, thens) ==
    /\ Busy(p)
    /\ Top(p).pc = "block" \/ (Top(p).pc = "resumed" /\ status[p] = "blocked")
    /\ Top(p).then \in thens
AsReceiver == {"copy", "leave"}
AsSender == {"mail", "hand"}

\* Somebody is at one of these steps with mailbox b.
Doer(b, pcs) == \E t \in Procs : Busy(t) /\ Top(t).mb = b /\ Top(t).pc \in pcs

\* Where a call has just seen its mailbox open; and a mailbox being released is closed.
OpenPCs == {"find", "take", "room", "look", "copy", "leave", "hand", "pop",
            "wake_producer", "block"}
Owned ==
    \A p \in Procs : Busy(p) =>
        /\ Top(p).pc \in OpenPCs => Box(p).isInitialized
        /\ Top(p).pc \in FreePCs => ~Box(p).isInitialized

\* Who makes the calls.
LEMMA CallersAre ==
    ASSUME NEW p \in Procs, Turn(p), Busy(p)
    PROVE  /\ Part(Top(p)) \in RecvPCs => p \in Receivers
           /\ Part(Top(p)) \in SendPCs => p \in Senders
           /\ Top(p).pc \in FreePCs => p \in Releasers
  BY DEF Turn, Receivers, Senders, Releasers, Callers, RecvCalls, SendCalls

\* A step that makes a mailbox is of an owner.
LEMMA OwnersMake ==
    ASSUME NEW p \in Procs, NEW b \in Mbs, Closes(p, b) \/ Makes(p, b)
    PROVE  p \in Owners
  BY DEF Closes, Makes, Owners, Callers

\* What the mailboxes that a step does not open or close do.
LEMMA OpenKept ==
    ASSUME MailTypes, NEW p \in Procs, WaitStep(p), NEW b \in Mbs,
           ~Closes(p, b), ~Makes(p, b)
    PROVE  mbTable'[b].isInitialized = mbTable[b].isInitialized
<1>1. CASE Starts(p) \/ Advances(p) \/ JoinsProducers(p) \/ JoinsConsumers(p)
           \/ DropsConsumer(p) \/ DropsProducer(p) \/ WakesFirst(p) \/ Blocks(p)
  BY <1>1 DEF Starts, Advances, JoinsProducers, JoinsConsumers, DropsConsumer,
              DropsProducer, Drops, WakesFirst, Blocks, MailKept
<1>2. CASE Mails(p) \/ TakesOff(p)
  BY <1>2 DEF Mails, TakesOff
<1>3. CASE \E a \in Mbs : Closes(p, a) \/ Makes(p, a)
  BY <1>3 DEF Closes, Makes
<1>4. CASE Between(p)
  BY <1>4 DEF Between
<1> QED
  BY <1>1, <1>2, <1>3, <1>4 DEF WaitStep

\* The mailbox of a call in progress is one.
LEMMA BusyMb ==
    ASSUME MailTypes, NEW p \in Procs, Busy(p)
    PROVE  Top(p).mb \in Mbs
  BY TopTyped DEF MailTypes, Busy, Frame

\* Owned is inductive.
LEMMA OwnedKept ==
    ASSUME MailTypes, MailTypes', Turns, OneOwns, Owned, NEW p \in Procs, FrameSound(p),
           WaitStep(p), UNCHANGED calls
    PROVE  Owned'
<1>1. current = p /\ \A q \in Procs \ {p} : frames'[q] = frames[q]
  BY WaitStepCommon
<1>2. \A q \in Releasers : p \in Owners => q = p
  BY DEF OneOwns
<1>3. ASSUME NEW q \in Procs \ {p}, Busy(q)'
      PROVE  /\ Top(q)'.pc \in OpenPCs => Box(q)'.isInitialized
             /\ Top(q)'.pc \in FreePCs => ~Box(q)'.isInitialized
  <2>1. Busy(q) /\ Top(q)' = Top(q) /\ Top(q).mb \in Mbs
    BY <1>1, <1>3, BusyMb DEF Busy, Top
  <2>2. Top(q).pc \notin OpenPCs
    BY <1>1, <2>1 DEF Turns, Turn, OpenPCs, OffCPU
  <2>3. ASSUME Top(q).pc \in FreePCs
        PROVE  ~mbTable'[Top(q).mb].isInitialized
    <3>1. q \in Releasers
      BY <2>1, <2>3, CallersAre DEF Turns
    <3>2. ~Makes(p, Top(q).mb)
      BY <1>2, <2>1, <3>1, OwnersMake
    <3>3. CASE Closes(p, Top(q).mb)
      BY <3>3 DEF Closes
    <3>4. CASE ~Closes(p, Top(q).mb)
      BY <2>1, <2>3, <3>2, <3>4, OpenKept DEF Owned, Box
    <3> QED
      BY <3>3, <3>4
  <2> QED
    BY <2>1, <2>2, <2>3 DEF Box
<1>4. ASSUME Busy(p)'
      PROVE  /\ Top(p)'.pc \in OpenPCs => Box(p)'.isInitialized
             /\ Top(p)'.pc \in FreePCs => ~Box(p)'.isInitialized
  <2> USE DEF OpenPCs, FreePCs
  <2>1. CASE Starts(p)
    BY <2>1 DEF Starts, MailKept, Box
  <2>2. CASE Advances(p)
    <3>1. Busy(p) /\ Top(p).mb \in Mbs /\ MailKept
      BY <2>2, BusyMb DEF Advances
    <3>2. Top(p)'.mb = Top(p).mb
      BY <1>4, <2>2 DEF Advances, On, Goes, Ends, Busy
    <3>3. mbTable'[Top(p).mb].isInitialized = Box(p).isInitialized
      BY <3>1 DEF MailKept, Box
    <3>4. Top(p).pc = "resumed" => Top(p).then \in {"mail", "hand", "copy", "leave"}
      BY <3>1 DEF FrameSound
    <3>5. /\ Top(p)'.pc \in OpenPCs => Box(p).isInitialized
          /\ Top(p)'.pc \in FreePCs => ~Box(p).isInitialized
      BY <1>4, <2>2, <3>1, <3>4 DEF Advances, On, Goes, Ends, Owned, Busy
    <3> QED
      BY <3>2, <3>3, <3>5 DEF Box
  <2>3. CASE JoinsProducers(p) \/ JoinsConsumers(p)
    <3>1. /\ Busy(p) /\ Top(p).mb \in Mbs /\ MailKept /\ Top(p)'.mb = Top(p).mb
          /\ Top(p).pc \in OpenPCs /\ Top(p)'.pc \notin FreePCs
      BY <2>3, BusyMb DEF JoinsProducers, JoinsConsumers, On, Goes
    <3> QED
      BY <3>1 DEF Owned, MailKept, Box
  <2>4. CASE Mails(p) \/ TakesOff(p)
    <3>1. Busy(p) /\ Top(p).mb \in Mbs
      BY <2>4, BusyMb DEF Mails, TakesOff
    <3> QED
      BY <1>4, <2>4, <3>1 DEF Owned, Mails, TakesOff, On, Goes, Ends, Busy, Box
  <2>5. CASE DropsConsumer(p) \/ DropsProducer(p) \/ WakesFirst(p) \/ Blocks(p)
    <3>1. Busy(p) /\ Top(p).mb \in Mbs /\ MailKept
      BY <2>5, BusyMb DEF DropsConsumer, DropsProducer, Drops, WakesFirst, Blocks
    <3>2. /\ Top(p)'.mb = Top(p).mb /\ Top(p)'.pc \notin OpenPCs
          /\ Top(p)'.pc \in FreePCs => Top(p).pc \in FreePCs
      BY <1>4, <2>5 DEF DropsConsumer, DropsProducer, WakesFirst, Blocks, On, Goes, Ends, Busy
    <3> QED
      BY <3>1, <3>2 DEF Owned, MailKept, Box
  <2>6. CASE \E b \in Mbs : Closes(p, b)
    BY <2>6 DEF Closes, Box
  <2>7. CASE (\E b \in Mbs : Makes(p, b)) \/ Between(p)
    BY <1>4, <2>7 DEF Makes, Between, Busy
  <2> QED
    BY <2>1, <2>2, <2>3, <2>4, <2>5, <2>6, <2>7 DEF WaitStep
<1> QED
  BY <1>3, <1>4 DEF Owned

-----------------------------------------------------------------------------
(* A receiver that sleeps, or is on the way to it *)

\* The one receiver is the head of the queue it sleeps in, and its mailbox is open or
\* about to wake it.
ConsumersSound ==
    /\ \A b \in Mbs : mbTable[b].consumerQueueHead \in Receivers \cup {NULL}
    /\ \A q \in Procs : shadowProcessTable[q].nextConsumerNode \in Receivers \cup {NULL}
    /\ \A p \in Procs : Sleeps(p, AsReceiver) =>
          /\ Box(p).consumerQueueHead = p /\ shadowProcessTable[p].isCurrent
          /\ Box(p).isInitialized \/ Doer(Top(p).mb, {"free_consumers"})

\* The one of a kind.
LEMMA OneOfAKind ==
    ASSUME NEW x \in Procs, NEW y \in Procs
    PROVE  /\ OneReceives /\ x \in Receivers /\ y \in Receivers => x = y
           /\ OneSends /\ x \in Senders /\ y \in Senders => x = y
           /\ OneOwns /\ x \in Releasers /\ y \in Owners => x = y
           /\ x \in Releasers => x \in Owners
<1>1. \A kinds : Callers(kinds) \in SUBSET Procs
  BY DEF Callers
<1> QED
  BY <1>1, AtMostOne DEF OneReceives, OneSends, OneOwns, Receivers, Senders, Owners, Releasers, Callers

\* Who sleeps after a step did before, or has just joined a queue.
LEMMA SleptBefore ==
    ASSUME MailTypes, Turns, NEW p \in Procs, FrameSound(p), WaitStep(p), NEW q \in Procs,
           NEW thens, Sleeps(q, thens)'
    PROVE  \/ /\ Sleeps(q, thens)
              /\ Top(q)'.mb = Top(q).mb /\ Top(q)'.then = Top(q).then /\ Top(q).mb \in Mbs
              /\ \/ /\ q # p /\ Top(q)' = Top(q) /\ Top(q).pc # "block"
                    /\ status[q] = "blocked" /\ status'[q] = "blocked"
                 \/ q = p /\ Blocks(p)
           \/ /\ q = p /\ Top(p)'.pc = "block" /\ Top(p)'.then \in thens
              /\ JoinsProducers(p) \/ JoinsConsumers(p)
<1>1. /\ current = p /\ \A x \in Procs \ {p} : frames'[x] = frames[x]
      /\ \A x \in Procs \ {p} : status'[x] \in {status[x], "ready"}
      /\ ~Blocks(p) => status'[p] \in {status[p], "ready"}
  BY WaitStepCommon
<1>2. status[p] # "blocked"
  BY <1>1 DEF Turns, Turn
<1>3. CASE q # p
  <2>1. Busy(q) /\ Top(q)' = Top(q) /\ Top(q).mb \in Mbs
    BY <1>1, <1>3, BusyMb DEF Sleeps, Busy, Top
  <2>2. Top(q).pc # "block"
    BY <1>1, <1>3, <2>1 DEF Turns, Turn, OffCPU
  <2> QED
    BY <1>1, <1>3, <2>1, <2>2 DEF Sleeps
<1>4. CASE q = p /\ Blocks(p)
  <2>1. Busy(p) /\ Top(p).pc = "block" /\ On(p, "resumed") /\ Top(p).mb \in Mbs
    BY <1>4, BusyMb DEF Blocks
  <2> QED
    BY <1>4, <2>1 DEF Sleeps, On, Goes
<1>5. CASE q = p /\ ~Blocks(p)
  <2>1. Top(p)'.pc = "block" /\ Top(p)'.then \in thens /\ Busy(p)'
    BY <1>1, <1>2, <1>5 DEF Sleeps
  <2>2. JoinsProducers(p) \/ JoinsConsumers(p)
    <3>1. CASE Starts(p)
      BY <2>1, <3>1 DEF Starts
    <3>2. CASE Advances(p)
      BY <2>1, <3>2 DEF Advances, On, Goes, Ends, Busy, FrameSound
    <3>3. CASE Mails(p) \/ TakesOff(p)
      BY <2>1, <3>3 DEF Mails, TakesOff, On, Goes, Ends, Busy
    <3>4. CASE DropsConsumer(p) \/ DropsProducer(p) \/ WakesFirst(p)
      BY <2>1, <3>4 DEF DropsConsumer, DropsProducer, WakesFirst, On, Goes, Ends, Busy
    <3>5. CASE (\E b \in Mbs : Closes(p, b) \/ Makes(p, b)) \/ Between(p)
      BY <2>1, <3>5 DEF Closes, Makes, Between, Busy
    <3> QED
      BY <1>5, <3>1, <3>2, <3>3, <3>4, <3>5 DEF WaitStep
  <2> QED
    BY <1>5, <2>1, <2>2
<1> QED
  BY <1>3, <1>4, <1>5

\* A process at another step of a call than the one that has the CPU.
LEMMA DoerStays ==
    ASSUME NEW p \in Procs, NEW t \in Procs \ {p}, frames'[t] = frames[t], NEW b, NEW pcs,
           Busy(t), Top(t).mb = b, Top(t).pc \in pcs
    PROVE  Doer(b, pcs)'
  BY DEF Doer, Busy, Top

\* Nobody else's entry becomes another process's.
LEMMA EntriesStayCurrent ==
    ASSUME MailTypes, NEW p \in Procs, WaitStep(p), NEW q \in Procs \ {p},
           shadowProcessTable[q].isCurrent
    PROVE  shadowProcessTable'[q].isCurrent
<1>1. CASE TableKept
  BY <1>1 DEF TableKept
<1>2. CASE Renewed(p)
  BY <1>2 DEF Renewed
<1>3. CASE JoinsProducers(p) \/ JoinsConsumers(p)
  BY <1>2, <1>3 DEF JoinsProducers, JoinsConsumers, Joined
<1>4. CASE Between(p)
  BY <1>4 DEF Between
<1>5. CASE Starts(p) \/ Advances(p) \/ Mails(p) \/ TakesOff(p) \/ DropsConsumer(p)
           \/ DropsProducer(p) \/ WakesFirst(p) \/ Blocks(p)
           \/ (\E a \in Mbs : Closes(p, a) \/ Makes(p, a))
  BY <1>1, <1>2, <1>5 DEF Starts, Advances, Mails, TakesOff, DropsConsumer,
           DropsProducer, Drops, WakesFirst, Blocks, Closes, Makes
<1> QED
  BY <1>3, <1>4, <1>5 DEF WaitStep

\* Nobody but the receiver writes what its queue has for it.
LEMMA ConsumerHeadKept ==
    ASSUME MailTypes, Turns, OneReceives, OneOwns, Owned, ConsumersSound,
           NEW p \in Procs, WaitStep(p), NEW q \in Procs \ {p}, Sleeps(q, AsReceiver)
    PROVE  /\ Box(q)'.consumerQueueHead = q
           /\ shadowProcessTable'[q].isCurrent
<1> DEFINE b == Top(q).mb
<1>1. Busy(q) /\ b \in Mbs /\ mbTable[b].consumerQueueHead = q
      /\ shadowProcessTable[q].isCurrent
  BY BusyMb DEF Sleeps, ConsumersSound, Box
<1>2. q \in Receivers
  BY <1>1, MailboxAssumption DEF ConsumersSound, NULL
<1>3. p \notin Receivers
  BY <1>2, OneOfAKind
<1>4. frames'[q] = frames[q] /\ b = Top(q)'.mb
  BY WaitStepCommon DEF Top
<1>5. ASSUME Part(Top(p)) \in RecvPCs, Busy(p)
      PROVE  FALSE
  BY <1>3, <1>5, CallersAre DEF Turns
<1>6. ASSUME NEW t \in Procs, Busy(t), Top(t).mb = b, Top(t).pc \in FreePCs, p \in Owners
      PROVE  t = p /\ Top(p).pc = "free_consumers"
  <2>1. t \in Releasers /\ t = p
    BY <1>6, CallersAre, OneOfAKind DEF Turns
  <2>2. ~Box(q).isInitialized
    BY <1>6, <2>1 DEF Owned, Box
  <2>3. PICK s \in Procs : Busy(s) /\ Top(s).mb = b /\ Top(s).pc = "free_consumers"
    BY <2>2 DEF ConsumersSound, Doer
  <2>4. s = p
    BY <1>6, <2>3, CallersAre, OneOfAKind DEF Turns, FreePCs
  <2> QED
    BY <2>1, <2>3, <2>4
<1>7. mbTable'[b].consumerQueueHead = q
  <2>1. CASE HeadsKept
    BY <1>1, <2>1 DEF HeadsKept
  <2>2. CASE JoinsProducers(p)
    <3>1. CASE HeadIs(Top(p).mb, "producerQueueHead", p)
      BY <1>1, <3>1 DEF HeadIs, Waiting
    <3> QED
      BY <2>1, <2>2, <3>1 DEF JoinsProducers, Joined
  <2>3. CASE JoinsConsumers(p) \/ TakesOff(p)
    BY <1>5, <2>3 DEF JoinsConsumers, TakesOff, Part, RecvPCs
  <2>4. CASE DropsConsumer(p)
    <3>1. Top(p).pc = "next_consumer" /\ Busy(p)
      BY <1>5, <2>4 DEF DropsConsumer, Drops, Part, RecvPCs
    <3>2. Top(p).mb # b
      BY <1>6, <3>1, CallersAre, OneOfAKind DEF Turns, FreePCs
    <3> QED
      BY <1>1, <2>4, <3>2 DEF DropsConsumer, Drops, HeadIs, Waiting
  <2>5. CASE DropsProducer(p)
    BY <1>1, <2>5 DEF DropsProducer, Drops, HeadIs, Waiting
  <2>6. CASE \E a \in Mbs : Makes(p, a)
    <3>1. PICK a \in Mbs : Makes(p, a)
      BY <2>6
    <3>2. p \in Owners /\ ~Busy(p)
      BY <3>1, OwnersMake DEF Makes
    <3>3. a # b
      <4> SUFFICES ASSUME a = b
                   PROVE  FALSE
        OBVIOUS
      <4>1. ~Box(q).isInitialized
        BY <3>1 DEF Makes, Box
      <4> QED
        BY <1>6, <3>2, <4>1 DEF ConsumersSound, Doer, FreePCs
    <3> QED
      BY <1>1, <3>1, <3>3 DEF Makes
  <2>7. CASE Starts(p) \/ Advances(p) \/ Mails(p) \/ WakesFirst(p) \/ Blocks(p)
             \/ (\E a \in Mbs : Closes(p, a))
    BY <2>1, <2>7 DEF Starts, Advances, Mails, WakesFirst, Blocks, Closes
  <2>8. CASE Between(p)
    BY <1>1, <2>8 DEF Between
  <2> QED
    BY <2>2, <2>3, <2>4, <2>5, <2>6, <2>7, <2>8 DEF WaitStep
<1>8. shadowProcessTable'[q].isCurrent
  BY <1>1, EntriesStayCurrent
<1> QED
  BY <1>4, <1>7, <1>8 DEF Box

\* The queue's heads and links are of the receiver.
LEMMA ConsumerNodesKept ==
    ASSUME MailTypes, Turns, ConsumersSound, NEW p \in Procs, WaitStep(p), UNCHANGED calls
    PROVE  /\ \A b \in Mbs : mbTable'[b].consumerQueueHead \in Receivers' \cup {NULL}
           /\ \A q \in Procs : shadowProcessTable'[q].nextConsumerNode \in Receivers' \cup {NULL}
<1>1. Receivers' = Receivers
  BY DEF Receivers, Callers
<1>2. /\ \A b \in Mbs : mbTable[b].consumerQueueHead \in Receivers \cup {NULL}
      /\ \A q \in Procs : shadowProcessTable[q].nextConsumerNode \in Receivers \cup {NULL}
  BY DEF ConsumersSound
<1>3. JoinsConsumers(p) => p \in Receivers
  BY CallersAre DEF Turns, JoinsConsumers, Part, RecvPCs
<1>4. ASSUME NEW b \in Mbs
      PROVE  mbTable'[b].consumerQueueHead \in Receivers \cup {NULL}
  <2>1. CASE HeadsKept
    BY <1>2, <2>1 DEF HeadsKept
  <2>2. ASSUME NEW v \in Receivers \cup {NULL}, HeadIs(Top(p).mb, "consumerQueueHead", v)
        PROVE  mbTable'[b].consumerQueueHead \in Receivers \cup {NULL}
    BY <1>2, <2>2 DEF HeadIs, Waiting
  <2>3. ASSUME NEW v, HeadIs(Top(p).mb, "producerQueueHead", v)
        PROVE  mbTable'[b].consumerQueueHead \in Receivers \cup {NULL}
    BY <1>2, <2>3 DEF HeadIs, Waiting
  <2>4. CASE JoinsProducers(p)
    BY <2>1, <2>3, <2>4 DEF JoinsProducers, Joined
  <2>5. CASE JoinsConsumers(p)
    BY <1>3, <2>1, <2>2, <2>5 DEF JoinsConsumers, Joined
  <2>6. CASE TakesOff(p) \/ DropsConsumer(p)
    <3>1. Busy(p) /\ Top(p).mb \in Mbs /\ Box(p).consumerQueueHead # NULL
      BY <2>6, BusyMb DEF TakesOff, DropsConsumer, Drops, FirstConsumer
    <3>2. Box(p).consumerQueueHead \in Procs
      BY <3>1, HeadTyped DEF Waiting
    <3>3. shadowProcessTable[Box(p).consumerQueueHead].nextConsumerNode \in Receivers \cup {NULL}
      BY <1>2, <3>2
    <3>4. HeadIs(Top(p).mb, "consumerQueueHead",
                 shadowProcessTable[Box(p).consumerQueueHead].nextConsumerNode)
      BY <2>6 DEF TakesOff, DropsConsumer, Drops, FirstConsumer
    <3> QED
      BY <2>2, <3>3, <3>4
  <2>7. CASE DropsProducer(p)
    BY <2>3, <2>7 DEF DropsProducer, Drops
  <2>8. CASE \E a \in Mbs : Makes(p, a)
    BY <1>2, <2>8 DEF Makes, NewMb
  <2>9. CASE Starts(p) \/ Advances(p) \/ Mails(p) \/ WakesFirst(p) \/ Blocks(p)
             \/ (\E a \in Mbs : Closes(p, a)) \/ Between(p)
    BY <1>2, <2>1, <2>9 DEF Starts, Advances, Mails, WakesFirst, Blocks, Closes, Between
  <2> QED
    BY <2>4, <2>5, <2>6, <2>7, <2>8, <2>9 DEF WaitStep
<1>5. ASSUME NEW q \in Procs
      PROVE  shadowProcessTable'[q].nextConsumerNode \in Receivers \cup {NULL}
  <2>1. CASE TableKept
    BY <1>2, <2>1 DEF TableKept
  <2>2. CASE Renewed(p)
    BY <1>2, <2>2 DEF Renewed
  <2>3. CASE JoinsProducers(p)
    BY <1>2, <2>2, <2>3 DEF JoinsProducers, Joined
  <2>4. CASE JoinsConsumers(p)
    BY <1>2, <1>3, <2>2, <2>4 DEF JoinsConsumers, Joined
  <2>5. CASE Between(p)
    BY <1>2, <2>2, <2>5 DEF Between
  <2>6. CASE Starts(p) \/ Advances(p) \/ Mails(p) \/ TakesOff(p) \/ DropsConsumer(p)
             \/ DropsProducer(p) \/ WakesFirst(p) \/ Blocks(p)
             \/ (\E a \in Mbs : Closes(p, a) \/ Makes(p, a))
    BY <2>1, <2>2, <2>6 DEF Starts, Advances, Mails, TakesOff, DropsConsumer,
             DropsProducer, Drops, WakesFirst, Blocks, Closes, Makes
  <2> QED
    BY <2>3, <2>4, <2>5, <2>6 DEF WaitStep
<1> QED
  BY <1>1, <1>4, <1>5

\* A mailbox that is closed stays so, and the one who closes it is at the first loop.
LEMMA OpenOrCloser ==
    ASSUME MailTypes, NEW p \in Procs, WaitStep(p), NEW b \in Mbs,
           mbTable[b].isInitialized, ~mbTable'[b].isInitialized
    PROVE  Doer(b, {"free_consumers"})'
<1>1. Closes(p, b) \/ Makes(p, b)
  BY OpenKept
<1> QED
  BY <1>1 DEF Closes, Makes, Doer, Busy

\* ConsumersSound is inductive.
LEMMA ConsumersKept ==
    ASSUME MailTypes, MailTypes', Turns, OneReceives, OneOwns, Owned, ConsumersSound,
           NEW p \in Procs, FrameSound(p), WaitStep(p), UNCHANGED calls
    PROVE  ConsumersSound'
<1>1. ASSUME NEW q \in Procs, Sleeps(q, AsReceiver)', Sleeps(q, AsReceiver), q # p
      PROVE  Box(q)'.isInitialized \/ Doer(Top(q).mb, {"free_consumers"})'
  <2>1. /\ Top(q)' = Top(q) /\ Top(q).mb \in Mbs
        /\ status[q] = "blocked" /\ status'[q] = "blocked"
    BY <1>1, SleptBefore
  <2>2. CASE Box(q).isInitialized
    BY <2>1, <2>2, OpenOrCloser DEF Box
  <2>3. CASE ~Box(q).isInitialized
    <3>1. PICK t \in Procs : Busy(t) /\ Top(t).mb = Top(q).mb /\ Top(t).pc = "free_consumers"
      BY <1>1, <2>3 DEF ConsumersSound, Doer
    <3>2. CASE t # p
      BY <2>1, <3>1, <3>2, DoerStays, WaitStepCommon
    <3>3. CASE t = p
      <4>1. FirstConsumer(p) = q /\ q # NULL /\ shadowProcessTable[q].isCurrent
        BY <1>1, <3>1, <3>3, MailboxAssumption DEF ConsumersSound, FirstConsumer, Box, NULL
      <4>2. ~Wakes(q)
        BY <2>1, <4>1 DEF Wakes, Turned, MailTypes
      <4>3. FALSE
        BY <3>1, <3>3, <4>1, <4>2
           DEF WaitStep, Starts, Advances, JoinsProducers, JoinsConsumers, Mails, TakesOff,
               DropsConsumer, DropsProducer, WakesFirst, Blocks, Closes, Makes, Between
      <4> QED
        BY <4>3
    <3> QED
      BY <3>2, <3>3
  <2> QED
    BY <2>2, <2>3
<1>2. ASSUME NEW q \in Procs, Sleeps(q, AsReceiver)'
      PROVE  /\ Box(q)'.consumerQueueHead = q /\ shadowProcessTable'[q].isCurrent
             /\ Box(q)'.isInitialized \/ Doer(Top(q).mb, {"free_consumers"})'
  <2>1. CASE q # p /\ Sleeps(q, AsReceiver)
    BY <1>1, <1>2, <2>1, ConsumerHeadKept
  <2>2. CASE q = p /\ Blocks(p) /\ Sleeps(p, AsReceiver)
    <3>1. Top(p)'.mb = Top(p).mb /\ Top(p).mb \in Mbs /\ MailKept /\ HeadsKept /\ TableKept
      BY <2>2, BusyMb DEF Blocks, On, Goes
    <3>2. Box(p).isInitialized
      BY <2>2 DEF Blocks, Owned, OpenPCs
    <3> QED
      BY <2>2, <3>1, <3>2 DEF ConsumersSound, Box, MailKept, HeadsKept, TableKept
  <2>3. CASE q = p /\ Top(p)'.pc = "block" /\ JoinsConsumers(p)
    <3>1. /\ Busy(p) /\ Top(p).mb \in Mbs /\ Top(p)'.mb = Top(p).mb /\ MailKept
          /\ Top(p).pc = "look" /\ Joined(p, "consumerQueueHead", "nextConsumerNode")
      BY <2>3, BusyMb DEF JoinsConsumers, On, Goes
    <3>2. p \in Receivers
      BY <3>1, CallersAre DEF Turns, Part, RecvPCs
    <3>3. Box(p)'.isInitialized
      BY <3>1 DEF Owned, OpenPCs, MailKept, Box
    <3>4. shadowProcessTable'[p].isCurrent
      BY <3>1 DEF Joined, Renewed
    <3>5. mbTable'[Top(p).mb].consumerQueueHead = p
      <4>1. CASE HeadIs(Top(p).mb, "consumerQueueHead", p)
        BY <4>1 DEF HeadIs
      <4>2. CASE HeadsKept /\ Box(p).consumerQueueHead # NULL
        <5>1. Box(p).consumerQueueHead \in Receivers
          BY <3>1, <4>2 DEF ConsumersSound, Box
        <5>2. Box(p).consumerQueueHead = p
          BY <3>2, <5>1, OneOfAKind DEF Receivers, Callers
        <5> QED
          BY <3>1, <4>2, <5>2 DEF HeadsKept, Box
      <4> QED
        BY <3>1, <4>1, <4>2 DEF Joined
    <3> QED
      BY <2>3, <3>1, <3>3, <3>4, <3>5 DEF Box
  <2>4. ~(q = p /\ JoinsProducers(p) /\ Top(p)'.then \in AsReceiver /\ Top(p)'.pc = "block")
    BY DEF JoinsProducers, On, Goes, AsReceiver
  <2> QED
    BY <1>2, <2>1, <2>2, <2>3, <2>4, SleptBefore
<1> QED
  BY <1>2, ConsumerNodesKept DEF ConsumersSound

\* MboxCondSend wakes the receiver before the message is there.
NoConds == Callers({"MboxCondSend"}) = {}

\* A receiver that has a message and sleeps on is about to be woken.
WokenReceiver ==
    \A p \in Procs :
        Sleeps(p, {"copy"}) /\ Box(p).isInitialized /\ Box(p).mailSlotQueueHead # NULL
            => Top(p).pc # "block" /\ Doer(Top(p).mb, {"wake_consumer"})

\* Who sleeps in one way sleeps.
LEMMA SleepsAmong ==
    ASSUME NEW p, NEW some, NEW thens, some \subseteq thens, Sleeps(p, some)
    PROVE  Sleeps(p, thens)
  BY DEF Sleeps

\* WokenReceiver is inductive.
LEMMA WokenReceiverKept ==
    ASSUME MailTypes, MailTypes', Turns, OneReceives, OneOwns, NoConds, Owned, ConsumersSound,
           WokenReceiver, NEW p \in Procs, FrameSound(p), WaitStep(p), UNCHANGED calls
    PROVE  WokenReceiver'
<1> SUFFICES ASSUME NEW q \in Procs, Sleeps(q, {"copy"})', Box(q)'.isInitialized,
                    Box(q)'.mailSlotQueueHead # NULL
             PROVE  Top(q)'.pc # "block" /\ Doer(Top(q).mb, {"wake_consumer"})'
  BY DEF WokenReceiver
<1>1. CASE q = p /\ Blocks(p) /\ Sleeps(p, {"copy"})
  <2>1. Busy(p) /\ MailKept /\ Top(p)'.mb = Top(p).mb /\ Top(p).mb \in Mbs /\ Top(p).pc = "block"
    BY <1>1, BusyMb DEF Blocks, On, Goes
  <2>2. Box(p).isInitialized /\ Box(p).mailSlotQueueHead # NULL
    BY <1>1, <2>1 DEF MailKept, Box
  <2> QED
    BY <1>1, <2>1, <2>2 DEF WokenReceiver
<1>2. CASE q = p /\ JoinsConsumers(p) /\ Top(p)'.pc = "block" /\ Top(p)'.then = "copy"
  <2>1. Busy(p) /\ MailKept /\ Top(p)'.mb = Top(p).mb /\ Top(p).mb \in Mbs
        /\ Box(p).mailSlotQueueHead = NULL
    BY <1>2, BusyMb DEF JoinsConsumers, On, Goes
  <2> QED
    BY <1>2, <2>1 DEF MailKept, Box
<1>3. CASE q # p /\ Sleeps(q, {"copy"})
  <2> DEFINE b == Top(q).mb
  <2>1. /\ Top(q)' = Top(q) /\ b \in Mbs /\ Top(q).pc # "block"
        /\ status[q] = "blocked" /\ status'[q] = "blocked"
    BY <1>3, SleptBefore
  <2>2. /\ mbTable[b].consumerQueueHead = q /\ shadowProcessTable[q].isCurrent
        /\ q # NULL
    BY <1>3, SleepsAmong, MailboxAssumption DEF ConsumersSound, AsReceiver, Box, NULL
  <2>3. mbTable'[b].isInitialized /\ mbTable'[b].mailSlotQueueHead # NULL
    BY <2>1 DEF Box
  <2>4. CASE mbTable[b].isInitialized /\ mbTable[b].mailSlotQueueHead # NULL
    <3>1. PICK t \in Procs : Busy(t) /\ Top(t).mb = b /\ Top(t).pc = "wake_consumer"
      BY <1>3, <2>4 DEF WokenReceiver, Box, Doer
    <3>2. CASE t # p
      BY <2>1, <3>1, <3>2, DoerStays, WaitStepCommon
    <3>3. CASE t = p
      <4>1. FirstConsumer(p) = q
        BY <2>2, <3>1, <3>3 DEF FirstConsumer, Box
      <4>2. ~Wakes(q)
        BY <2>1, <2>2 DEF Wakes, Turned, MailTypes
      <4>3. FALSE
        BY <2>2, <3>1, <3>3, <4>1, <4>2
           DEF WaitStep, Starts, Advances, JoinsProducers, JoinsConsumers, Mails, TakesOff,
               DropsConsumer, DropsProducer, WakesFirst, Blocks, Closes, Makes, Between
      <4> QED
        BY <4>3
    <3> QED
      BY <3>2, <3>3
  <2>5. CASE ~(mbTable[b].isInitialized /\ mbTable[b].mailSlotQueueHead # NULL)
    <3>1. ASSUME mbTable[b].isInitialized = mbTable'[b].isInitialized,
                 mbTable[b].mailSlotQueueHead = mbTable'[b].mailSlotQueueHead
          PROVE  FALSE
      BY <2>3, <2>5, <3>1
    <3>2. Mails(p) \/ TakesOff(p)
      <4>1. ~MailKept
        BY <2>1, <3>1 DEF MailKept
      <4>2. ASSUME NEW a \in Mbs, Closes(p, a) \/ Makes(p, a)
            PROVE  FALSE
        <5>1. CASE a # b
          BY <2>1, <3>1, <4>2, <5>1 DEF Closes, Makes
        <5>2. CASE a = b
          <6>1. ~Closes(p, b)
            BY <2>3 DEF Closes
          <6>2. PICK n \in SlotLimits : mbTable'[b] = NewMb(n)
            BY <4>2, <5>2, <6>1 DEF Makes
          <6> QED
            BY <2>3, <6>2 DEF NewMb
        <5> QED
          BY <5>1, <5>2
      <4>3. ~Between(p)
        BY <3>1 DEF Between
      <4> QED
        BY <4>1, <4>2, <4>3 DEF WaitStep, Starts, Advances, JoinsProducers, JoinsConsumers,
               DropsConsumer, DropsProducer, Drops, WakesFirst, Blocks
    <3>3. Busy(p) /\ Top(p).mb = b
      BY <2>1, <3>1, <3>2 DEF Mails, TakesOff
    <3>4. CASE TakesOff(p)
      <4>1. p \in Receivers
        BY <3>4, CallersAre DEF Turns, TakesOff, Part, RecvPCs
      <4>2. q \in Receivers
        BY <2>1, <2>2 DEF ConsumersSound
      <4> QED
        BY <1>3, <4>1, <4>2, OneOfAKind
    <3>5. CASE Mails(p)
      <4>1. Top(p).call # "MboxCondSend"
        BY <3>5 DEF Turns, Turn, Mails, NoConds, Callers
      <4>2. frames'[p] # <<>> /\ Top(p)'.pc = "wake_consumer" /\ Top(p)'.mb = b
        BY <3>3, <3>5, <4>1 DEF Mails, On, Goes
      <4> QED
        BY <2>1, <4>2 DEF Doer, Busy
    <3> QED
      BY <3>2, <3>4, <3>5
  <2> QED
    BY <2>4, <2>5
<1>4. ~(q = p /\ JoinsProducers(p) /\ Top(p)'.then = "copy" /\ Top(p)'.pc = "block")
  BY DEF JoinsProducers, On, Goes
<1> QED
  BY <1>1, <1>2, <1>3, <1>4, SleptBefore

-----------------------------------------------------------------------------
(* A sender that sleeps, or is on the way to it *)

BeforeProducers == {"free_consumers", "next_consumer", "free_producers"}

\* The one sender is the head of the queue it sleeps in, and its mailbox is open or
\* about to wake it.
ProducersSound ==
    /\ \A b \in Mbs : mbTable[b].producerQueueHead \in Senders \cup {NULL}
    /\ \A q \in Procs : shadowProcessTable[q].nextProducerNode \in Senders \cup {NULL}
    /\ \A p \in Procs : Sleeps(p, AsSender) =>
          /\ Box(p).producerQueueHead = p /\ shadowProcessTable[p].isCurrent
          /\ Box(p).isInitialized \/ Doer(Top(p).mb, BeforeProducers)

\* Nobody but the sender writes what its queue has for it, unless it is woken.
LEMMA ProducerHeadKept ==
    ASSUME MailTypes, MailTypes', Turns, OneSends, OneOwns, Owned, ProducersSound,
           NEW p \in Procs, WaitStep(p), NEW q \in Procs \ {p}, Sleeps(q, AsSender),
           status'[q] = "blocked"
    PROVE  /\ Box(q)'.producerQueueHead = q
           /\ shadowProcessTable'[q].isCurrent
<1> DEFINE b == Top(q).mb
<1>1. Busy(q) /\ b \in Mbs /\ mbTable[b].producerQueueHead = q
      /\ shadowProcessTable[q].isCurrent
  BY BusyMb DEF Sleeps, ProducersSound, Box
<1>2. q \in Senders
  BY <1>1, MailboxAssumption DEF ProducersSound, NULL
<1>3. p \notin Senders
  BY <1>2, OneOfAKind
<1>4. frames'[q] = frames[q] /\ b = Top(q)'.mb
  BY WaitStepCommon DEF Top
<1>5. ASSUME Part(Top(p)) \in SendPCs, Busy(p)
      PROVE  FALSE
  BY <1>3, <1>5, CallersAre DEF Turns
<1>6. ASSUME ~mbTable[b].isInitialized, p \in Owners
      PROVE  Busy(p) /\ Top(p).pc \in BeforeProducers
  <2>1. PICK s \in Procs : Busy(s) /\ Top(s).mb = b /\ Top(s).pc \in BeforeProducers
    BY <1>6 DEF ProducersSound, Doer, Box
  <2>2. s = p
    BY <1>6, <2>1, CallersAre, OneOfAKind DEF Turns, FreePCs, BeforeProducers
  <2> QED
    BY <2>1, <2>2
<1>7. mbTable'[b].producerQueueHead = q
  <2>1. CASE HeadsKept
    BY <1>1, <2>1 DEF HeadsKept
  <2>2. CASE JoinsConsumers(p)
    <3>1. CASE HeadIs(Top(p).mb, "consumerQueueHead", p)
      BY <1>1, <3>1 DEF HeadIs, Waiting
    <3> QED
      BY <2>1, <2>2, <3>1 DEF JoinsConsumers, Joined
  <2>3. CASE JoinsProducers(p)
    BY <1>5, <2>3 DEF JoinsProducers, Part, SendPCs
  <2>4. CASE DropsProducer(p)
    <3>1. Busy(p) /\ (Top(p).pc = "wake_producer" \/ Top(p).pc = "next_producer")
      BY <1>5, <2>4 DEF DropsProducer, Drops, Part, SendPCs
    <3>2. Top(p).mb # b
      <4>1. CASE Top(p).pc = "next_producer"
        BY <1>6, <3>1, <4>1, CallersAre, OneOfAKind DEF Turns, FreePCs, Owned, Box, BeforeProducers
      <4>2. CASE Top(p).pc = "wake_producer" /\ Top(p).mb = b
        <5>1. FirstProducer(p) = q /\ Wakes(q)
          BY <1>1, <2>4, <4>2 DEF DropsProducer, FirstProducer, Box
        <5> QED
          BY <1>1, <5>1 DEF Wakes, Turned, MailTypes
      <4> QED
        BY <3>1, <4>1, <4>2
    <3> QED
      BY <1>1, <2>4, <3>2 DEF DropsProducer, Drops, HeadIs, Waiting
  <2>5. CASE DropsConsumer(p) \/ TakesOff(p)
    BY <1>1, <2>5 DEF DropsConsumer, Drops, TakesOff, HeadIs, Waiting
  <2>6. CASE \E a \in Mbs : Makes(p, a)
    <3>1. PICK a \in Mbs : Makes(p, a)
      BY <2>6
    <3>2. p \in Owners /\ ~Busy(p)
      BY <3>1, OwnersMake DEF Makes
    <3>3. a # b
      BY <1>6, <3>1, <3>2 DEF Makes
    <3> QED
      BY <1>1, <3>1, <3>3 DEF Makes
  <2>7. CASE Starts(p) \/ Advances(p) \/ Mails(p) \/ WakesFirst(p) \/ Blocks(p)
             \/ (\E a \in Mbs : Closes(p, a))
    BY <2>1, <2>7 DEF Starts, Advances, Mails, WakesFirst, Blocks, Closes
  <2>8. CASE Between(p)
    BY <1>1, <2>8 DEF Between
  <2> QED
    BY <2>2, <2>3, <2>4, <2>5, <2>6, <2>7, <2>8 DEF WaitStep
<1>8. shadowProcessTable'[q].isCurrent
  BY <1>1, EntriesStayCurrent
<1> QED
  BY <1>4, <1>7, <1>8 DEF Box

\* The queue's heads and links are of the sender.
LEMMA ProducerNodesKept ==
    ASSUME MailTypes, Turns, ProducersSound, NEW p \in Procs, WaitStep(p), UNCHANGED calls
    PROVE  /\ \A b \in Mbs : mbTable'[b].producerQueueHead \in Senders' \cup {NULL}
           /\ \A q \in Procs : shadowProcessTable'[q].nextProducerNode \in Senders' \cup {NULL}
<1>1. Senders' = Senders
  BY DEF Senders, Callers
<1>2. /\ \A b \in Mbs : mbTable[b].producerQueueHead \in Senders \cup {NULL}
      /\ \A q \in Procs : shadowProcessTable[q].nextProducerNode \in Senders \cup {NULL}
  BY DEF ProducersSound
<1>3. JoinsProducers(p) => p \in Senders
  BY CallersAre DEF Turns, JoinsProducers, Part, SendPCs
<1>4. ASSUME NEW b \in Mbs
      PROVE  mbTable'[b].producerQueueHead \in Senders \cup {NULL}
  <2>1. CASE HeadsKept
    BY <1>2, <2>1 DEF HeadsKept
  <2>2. ASSUME NEW v \in Senders \cup {NULL}, HeadIs(Top(p).mb, "producerQueueHead", v)
        PROVE  mbTable'[b].producerQueueHead \in Senders \cup {NULL}
    BY <1>2, <2>2 DEF HeadIs, Waiting
  <2>3. ASSUME NEW v, HeadIs(Top(p).mb, "consumerQueueHead", v)
        PROVE  mbTable'[b].producerQueueHead \in Senders \cup {NULL}
    BY <1>2, <2>3 DEF HeadIs, Waiting
  <2>4. CASE JoinsConsumers(p)
    BY <2>1, <2>3, <2>4 DEF JoinsConsumers, Joined
  <2>5. CASE JoinsProducers(p)
    BY <1>3, <2>1, <2>2, <2>5 DEF JoinsProducers, Joined
  <2>6. CASE TakesOff(p) \/ DropsConsumer(p)
    BY <2>3, <2>6 DEF TakesOff, DropsConsumer, Drops
  <2>7. CASE DropsProducer(p)
    <3>1. Busy(p) /\ Top(p).mb \in Mbs /\ Box(p).producerQueueHead # NULL
      BY <2>7, BusyMb DEF DropsProducer, Drops
    <3>2. Box(p).producerQueueHead \in Procs
      BY <3>1, HeadTyped DEF Waiting
    <3>3. shadowProcessTable[Box(p).producerQueueHead].nextProducerNode \in Senders \cup {NULL}
      BY <1>2, <3>2
    <3>4. HeadIs(Top(p).mb, "producerQueueHead",
                 shadowProcessTable[Box(p).producerQueueHead].nextProducerNode)
      BY <2>7 DEF DropsProducer, Drops
    <3> QED
      BY <2>2, <3>3, <3>4
  <2>8. CASE \E a \in Mbs : Makes(p, a)
    BY <1>2, <2>8 DEF Makes, NewMb
  <2>9. CASE Starts(p) \/ Advances(p) \/ Mails(p) \/ WakesFirst(p) \/ Blocks(p)
             \/ (\E a \in Mbs : Closes(p, a)) \/ Between(p)
    BY <1>2, <2>1, <2>9 DEF Starts, Advances, Mails, WakesFirst, Blocks, Closes, Between
  <2> QED
    BY <2>4, <2>5, <2>6, <2>7, <2>8, <2>9 DEF WaitStep
<1>5. ASSUME NEW q \in Procs
      PROVE  shadowProcessTable'[q].nextProducerNode \in Senders \cup {NULL}
  <2>1. CASE TableKept
    BY <1>2, <2>1 DEF TableKept
  <2>2. CASE Renewed(p)
    BY <1>2, <2>2 DEF Renewed
  <2>3. CASE JoinsConsumers(p)
    BY <1>2, <2>2, <2>3 DEF JoinsConsumers, Joined
  <2>4. CASE JoinsProducers(p)
    BY <1>2, <1>3, <2>2, <2>4 DEF JoinsProducers, Joined
  <2>5. CASE Between(p)
    BY <1>2, <2>2, <2>5 DEF Between
  <2>6. CASE Starts(p) \/ Advances(p) \/ Mails(p) \/ TakesOff(p) \/ DropsConsumer(p)
             \/ DropsProducer(p) \/ WakesFirst(p) \/ Blocks(p)
             \/ (\E a \in Mbs : Closes(p, a) \/ Makes(p, a))
    BY <2>1, <2>2, <2>6 DEF Starts, Advances, Mails, TakesOff, DropsConsumer,
             DropsProducer, Drops, WakesFirst, Blocks, Closes, Makes
  <2> QED
    BY <2>3, <2>4, <2>5, <2>6 DEF WaitStep
<1> QED
  BY <1>1, <1>4, <1>5

\* ProducersSound is inductive.
LEMMA ProducersKept ==
    ASSUME MailTypes, MailTypes', Turns, OneSends, OneOwns, Owned, ProducersSound,
           NEW p \in Procs, FrameSound(p), WaitStep(p), UNCHANGED calls
    PROVE  ProducersSound'
<1>1. ASSUME NEW q \in Procs, Sleeps(q, AsSender)', Sleeps(q, AsSender), q # p
      PROVE  Box(q)'.isInitialized \/ Doer(Top(q).mb, BeforeProducers)'
  <2>1. /\ Top(q)' = Top(q) /\ Top(q).mb \in Mbs
        /\ status[q] = "blocked" /\ status'[q] = "blocked"
    BY <1>1, SleptBefore
  <2>2. CASE Box(q).isInitialized
    <3>1. CASE mbTable'[Top(q).mb].isInitialized
      BY <2>1, <3>1 DEF Box
    <3>2. CASE ~mbTable'[Top(q).mb].isInitialized
      BY <2>1, <2>2, <3>2, OpenOrCloser DEF Box, Doer, BeforeProducers
    <3> QED
      BY <3>1, <3>2
  <2>3. CASE ~Box(q).isInitialized
    <3>1. PICK t \in Procs : Busy(t) /\ Top(t).mb = Top(q).mb /\ Top(t).pc \in BeforeProducers
      BY <1>1, <2>3 DEF ProducersSound, Doer
    <3>2. CASE t # p
      BY <2>1, <3>1, <3>2, DoerStays, WaitStepCommon DEF BeforeProducers
    <3>3. CASE t = p
      <4>1. FirstProducer(p) = q /\ q # NULL /\ shadowProcessTable[q].isCurrent
        BY <1>1, <3>1, <3>3, MailboxAssumption DEF ProducersSound, FirstProducer, Box, NULL
      <4>2. ~Wakes(q)
        BY <2>1, <4>1 DEF Wakes, Turned, MailTypes
      <4>3. Top(p)'.pc \in BeforeProducers /\ Top(p)'.mb = Top(p).mb /\ Busy(p)'
        BY <3>1, <3>3, <4>1, <4>2
           DEF WaitStep, Starts, Advances, JoinsProducers, JoinsConsumers, Mails, TakesOff,
               DropsConsumer, DropsProducer, WakesFirst, Blocks, Closes, Makes, Between,
               On, Goes, Busy, BeforeProducers
      <4> QED
        BY <2>1, <3>1, <3>3, <4>3 DEF Doer
    <3> QED
      BY <3>2, <3>3
  <2> QED
    BY <2>2, <2>3
<1>2. ASSUME NEW q \in Procs, Sleeps(q, AsSender)'
      PROVE  /\ Box(q)'.producerQueueHead = q /\ shadowProcessTable'[q].isCurrent
             /\ Box(q)'.isInitialized \/ Doer(Top(q).mb, BeforeProducers)'
  <2>1. CASE q # p /\ Sleeps(q, AsSender)
    <3>1. status'[q] = "blocked"
      BY <1>2, <2>1, SleptBefore
    <3> QED
      BY <1>1, <1>2, <2>1, <3>1, ProducerHeadKept
  <2>2. CASE q = p /\ Blocks(p) /\ Sleeps(p, AsSender)
    <3>1. Top(p)'.mb = Top(p).mb /\ Top(p).mb \in Mbs /\ MailKept /\ HeadsKept /\ TableKept
      BY <2>2, BusyMb DEF Blocks, On, Goes
    <3>2. Box(p).isInitialized
      BY <2>2 DEF Blocks, Owned, OpenPCs
    <3> QED
      BY <2>2, <3>1, <3>2 DEF ProducersSound, Box, MailKept, HeadsKept, TableKept
  <2>3. CASE q = p /\ Top(p)'.pc = "block" /\ JoinsProducers(p)
    <3>1. /\ Busy(p) /\ Top(p).mb \in Mbs /\ Top(p)'.mb = Top(p).mb /\ MailKept
          /\ Top(p).pc = "room" /\ Joined(p, "producerQueueHead", "nextProducerNode")
      BY <2>3, BusyMb DEF JoinsProducers, On, Goes
    <3>2. p \in Senders
      BY <3>1, CallersAre DEF Turns, Part, SendPCs
    <3>3. Box(p)'.isInitialized
      BY <3>1 DEF Owned, OpenPCs, MailKept, Box
    <3>4. shadowProcessTable'[p].isCurrent
      BY <3>1 DEF Joined, Renewed
    <3>5. mbTable'[Top(p).mb].producerQueueHead = p
      <4>1. CASE HeadIs(Top(p).mb, "producerQueueHead", p)
        BY <4>1 DEF HeadIs
      <4>2. CASE HeadsKept /\ Box(p).producerQueueHead # NULL
        <5>1. Box(p).producerQueueHead \in Senders
          BY <3>1, <4>2 DEF ProducersSound, Box
        <5>2. Box(p).producerQueueHead = p
          BY <3>2, <5>1, OneOfAKind DEF Senders, Callers
        <5> QED
          BY <3>1, <4>2, <5>2 DEF HeadsKept, Box
      <4> QED
        BY <3>1, <4>1, <4>2 DEF Joined
    <3> QED
      BY <2>3, <3>1, <3>3, <3>4, <3>5 DEF Box
  <2>4. ~(q = p /\ JoinsConsumers(p) /\ Top(p)'.then \in AsSender /\ Top(p)'.pc = "block")
    BY DEF JoinsConsumers, On, Goes, AsSender
  <2> QED
    BY <1>2, <2>1, <2>2, <2>3, <2>4, SleptBefore
<1> QED
  BY <1>2, ProducerNodesKept DEF ProducersSound

\* A sender that has room and sleeps on is about to be woken.
WokenSender ==
    \A p \in Procs :
        Sleeps(p, {"mail"}) /\ Box(p).isInitialized /\ Box(p).mailSlotsAvailable > 0
            => Top(p).pc # "block" /\ Doer(Top(p).mb, {"wake_producer"})

\* WokenSender is inductive.
LEMMA WokenSenderKept ==
    ASSUME MailTypes, MailTypes', Turns, OneSends, OneOwns, Owned, ProducersSound,
           WokenSender, NEW p \in Procs, FrameSound(p), WaitStep(p), UNCHANGED calls
    PROVE  WokenSender'
<1> SUFFICES ASSUME NEW q \in Procs, Sleeps(q, {"mail"})', Box(q)'.isInitialized,
                    Box(q)'.mailSlotsAvailable > 0
             PROVE  Top(q)'.pc # "block" /\ Doer(Top(q).mb, {"wake_producer"})'
  BY DEF WokenSender
<1>1. CASE q = p /\ Blocks(p) /\ Sleeps(p, {"mail"})
  <2>1. Busy(p) /\ MailKept /\ Top(p)'.mb = Top(p).mb /\ Top(p).mb \in Mbs /\ Top(p).pc = "block"
    BY <1>1, BusyMb DEF Blocks, On, Goes
  <2>2. Box(p).isInitialized /\ Box(p).mailSlotsAvailable > 0
    BY <1>1, <2>1 DEF MailKept, Box
  <2> QED
    BY <1>1, <2>1, <2>2 DEF WokenSender
<1>2. CASE q = p /\ JoinsProducers(p) /\ Top(p)'.pc = "block" /\ Top(p)'.then = "mail"
  <2>1. Busy(p) /\ MailKept /\ Top(p)'.mb = Top(p).mb /\ Top(p).mb \in Mbs /\ Full(p)
    BY <1>2, BusyMb DEF JoinsProducers, On, Goes
  <2>2. mbTable'[Top(p).mb].mailSlotsAvailable = Box(p).mailSlotsAvailable
        /\ Box(p).mailSlotsAvailable \in Int
    BY <2>1 DEF MailKept, Box, MailTypes, MB
  <2> QED
    BY <1>2, <2>1, <2>2 DEF Box, Full
<1>3. CASE q # p /\ Sleeps(q, {"mail"})
  <2> DEFINE b == Top(q).mb
  <2>1. /\ Top(q)' = Top(q) /\ b \in Mbs /\ Top(q).pc # "block"
        /\ status[q] = "blocked" /\ status'[q] = "blocked"
    BY <1>3, SleptBefore
  <2>2. /\ mbTable[b].producerQueueHead = q /\ shadowProcessTable[q].isCurrent
        /\ mbTable[b].isInitialized \/ Doer(b, BeforeProducers)
        /\ q # NULL
    BY <1>3, SleepsAmong, MailboxAssumption DEF ProducersSound, AsSender, Box, NULL
  <2>3. mbTable'[b].isInitialized /\ mbTable'[b].mailSlotsAvailable > 0
    BY <2>1 DEF Box
  <2>4. CASE mbTable[b].isInitialized /\ mbTable[b].mailSlotsAvailable > 0
    <3>1. PICK t \in Procs : Busy(t) /\ Top(t).mb = b /\ Top(t).pc = "wake_producer"
      BY <1>3, <2>4 DEF WokenSender, Box, Doer
    <3>2. CASE t # p
      BY <2>1, <3>1, <3>2, DoerStays, WaitStepCommon
    <3>3. CASE t = p
      <4>1. FirstProducer(p) = q
        BY <2>2, <3>1, <3>3 DEF FirstProducer, Box
      <4>2. ~Wakes(q)
        BY <2>1, <2>2 DEF Wakes, Turned, MailTypes
      <4>3. FALSE
        BY <2>2, <3>1, <3>3, <4>1, <4>2
           DEF WaitStep, Starts, Advances, JoinsProducers, JoinsConsumers, Mails, TakesOff,
               DropsConsumer, DropsProducer, WakesFirst, Blocks, Closes, Makes, Between
      <4> QED
        BY <4>3
    <3> QED
      BY <3>2, <3>3
  <2>5. CASE ~(mbTable[b].isInitialized /\ mbTable[b].mailSlotsAvailable > 0)
    <3>1. ASSUME mbTable[b].isInitialized = mbTable'[b].isInitialized,
                 mbTable[b].mailSlotsAvailable = mbTable'[b].mailSlotsAvailable
          PROVE  FALSE
      BY <2>3, <2>5, <3>1
    <3>2. Mails(p) \/ TakesOff(p)
      <4>1. ~MailKept
        BY <2>1, <3>1 DEF MailKept
      <4>2. ASSUME NEW a \in Mbs, Closes(p, a) \/ Makes(p, a)
            PROVE  FALSE
        <5>1. CASE a # b
          BY <2>1, <3>1, <4>2, <5>1 DEF Closes, Makes
        <5>2. CASE a = b
          <6>1. ~Closes(p, b)
            BY <2>3 DEF Closes
          <6>2. ~mbTable[b].isInitialized /\ p \in Owners /\ ~Busy(p)
            BY <4>2, <5>2, <6>1, OwnersMake DEF Makes
          <6>3. PICK t \in Procs : Busy(t) /\ Top(t).pc \in BeforeProducers
            BY <2>2, <6>2 DEF Doer
          <6>4. t \in Releasers
            BY <6>3, CallersAre DEF Turns, FreePCs, BeforeProducers
          <6> QED
            BY <6>2, <6>3, <6>4, OneOfAKind
        <5> QED
          BY <5>1, <5>2
      <4>3. ~Between(p)
        BY <3>1 DEF Between
      <4> QED
        BY <4>1, <4>2, <4>3 DEF WaitStep, Starts, Advances, JoinsProducers, JoinsConsumers,
               DropsConsumer, DropsProducer, Drops, WakesFirst, Blocks
    <3>3. Busy(p) /\ Top(p).mb = b
      BY <2>1, <3>1, <3>2 DEF Mails, TakesOff
    <3>4. CASE Mails(p)
      <4>1. p \in Senders
        BY <3>4, CallersAre DEF Turns, Mails, Part, SendPCs
      <4>2. q \in Senders
        BY <2>1, <2>2 DEF ProducersSound
      <4> QED
        BY <1>3, <4>1, <4>2, OneOfAKind
    <3>5. CASE TakesOff(p)
      <4>1. frames'[p] # <<>> /\ Top(p)'.pc = "wake_producer" /\ Top(p)'.mb = b
        BY <3>3, <3>5 DEF TakesOff, On, Goes
      <4> QED
        BY <2>1, <4>1 DEF Doer, Busy
    <3> QED
      BY <3>2, <3>4, <3>5
  <2> QED
    BY <2>4, <2>5
<1>4. ~(q = p /\ JoinsConsumers(p) /\ Top(p)'.then = "mail" /\ Top(p)'.pc = "block")
  BY DEF JoinsConsumers, On, Goes
<1> QED
  BY <1>1, <1>2, <1>3, <1>4, SleptBefore

-----------------------------------------------------------------------------
(* The invariant of the waiting processes *)

\* With one who makes and releases; one receiver; one sender.
Asleep ==
    OneOwns =>
        /\ Owned
        /\ OneReceives => ConsumersSound /\ (NoConds => WokenReceiver)
        /\ OneSends => ProducersSound /\ WokenSender
WaitSound == Slotted /\ (Uninterrupted => Turns /\ Asleep)

\* At first nobody is in a call.
LEMMA InitWaits == Init => WaitSound
<1> SUFFICES ASSUME Init
             PROVE  WaitSound
  OBVIOUS
<1>1. MailTypes /\ Slotted
  BY InitTypes DEF Slotted
<1>2. \A p \in Procs : ~Busy(p) /\ status[p] = "ready"
  BY DEF Init, Busy
<1>3. Turns
  <2>1. current \in Runnable(status) /\ status \in [Procs -> {"ready", "blocked"}]
    BY <1>1 DEF Init, MailTypes
  <2> QED
    BY <1>2, <2>1, RunnableIs DEF Turns, Turn, SentinelLast
<1>4. /\ \A b \in Mbs : mbTable[b].consumerQueueHead = NULL /\ mbTable[b].producerQueueHead = NULL
      /\ \A q \in Procs : /\ shadowProcessTable[q].nextConsumerNode = NULL
                          /\ shadowProcessTable[q].nextProducerNode = NULL
  <2>1. ASSUME NEW b \in Mbs
        PROVE  mbTable[b] = NewMb(1) \/ mbTable[b] = [NewMb(0) EXCEPT !.isInitialized = FALSE]
    BY DEF Init
  <2>2. \A q \in Procs : /\ shadowProcessTable[q].nextConsumerNode = NULL
                         /\ shadowProcessTable[q].nextProducerNode = NULL
    BY DEF Init
  <2> QED
    BY <2>1, <2>2 DEF NewMb
<1>5. Asleep
  BY <1>2, <1>4 DEF Asleep, Owned, ConsumersSound, WokenReceiver, ProducersSound, WokenSender,
                    Sleeps
<1> QED
  BY <1>1, <1>3, <1>5 DEF WaitSound

\* Asleep after a step that the calls make.
LEMMA AsleepKept ==
    ASSUME MailTypes, MailTypes', Turns, Asleep, NEW p \in Procs, FrameSound(p), WaitStep(p),
           UNCHANGED calls
    PROVE  Asleep'
<1>1. /\ OneOwns' = OneOwns /\ OneReceives' = OneReceives /\ OneSends' = OneSends
      /\ NoConds' = NoConds
  BY DEF OneOwns, OneReceives, OneSends, NoConds, Owners, Releasers, Callers
<1> QED
  BY <1>1, OwnedKept, ConsumersKept, WokenReceiverKept, ProducersKept, WokenSenderKept DEF Asleep

\* Turns and Asleep after a step that changes nothing they speak of.
LEMMA WaitsUnchanged ==
    ASSUME Turns, Asleep,
           UNCHANGED <<mbTable, shadowProcessTable, frames, status, current, calls>>
    PROVE  (Turns /\ Asleep)'
<1>1. /\ OneOwns' = OneOwns /\ OneReceives' = OneReceives /\ OneSends' = OneSends
      /\ NoConds' = NoConds /\ Receivers' = Receivers /\ Senders' = Senders
  BY DEF OneOwns, OneReceives, OneSends, NoConds, Owners, Releasers, Callers, Receivers, Senders
<1>2. \A p \in Procs : Busy(p)' = Busy(p) /\ Top(p)' = Top(p) /\ Box(p)' = Box(p)
  BY DEF Busy, Top, Box
<1>3. \A p \in Procs : \A thens : Sleeps(p, thens)' = Sleeps(p, thens)
  BY <1>2 DEF Sleeps
<1>4. \A b, pcs : Doer(b, pcs)' = Doer(b, pcs)
  BY <1>2 DEF Doer
<1>5. Turns'
  BY <1>2 DEF Turns, Turn, SentinelLast
<1>6. Owned => Owned'
  BY <1>2 DEF Owned
<1>7. ConsumersSound => ConsumersSound'
  BY <1>1, <1>2, <1>3, <1>4 DEF ConsumersSound
<1>8. WokenReceiver => WokenReceiver'
  BY <1>1, <1>2, <1>3, <1>4 DEF WokenReceiver
<1>9. ProducersSound => ProducersSound'
  BY <1>1, <1>2, <1>3, <1>4 DEF ProducersSound
<1>10. WokenSender => WokenSender'
  BY <1>1, <1>2, <1>3, <1>4 DEF WokenSender
<1> QED
  BY <1>1, <1>5, <1>6, <1>7, <1>8, <1>9, <1>10 DEF Asleep

\* WaitSound is inductive.
LEMMA WaitSoundStep ==
    ASSUME WaitSound, [Next]_vars
    PROVE  WaitSound'
<1>1. Slotted /\ Slotted' /\ MailTypes /\ MailTypes'
  BY SlottedStep DEF WaitSound, Slotted
<1>2. CASE UNCHANGED vars
  BY <1>1, <1>2, WaitsUnchanged DEF WaitSound, vars, memVars, cpuVars, Uninterrupted, Callers
<1>3. CASE Next
  <2>1. PICK p \in Procs : Calling(p) \/ Handler(p) \/ CallStep(p)
    BY <1>3 DEF Next
  <2>2. UNCHANGED calls /\ Uninterrupted' = Uninterrupted
    BY <2>1, CallsKept DEF Uninterrupted, Callers
  <2>3. ASSUME Uninterrupted
        PROVE  (Turns /\ Asleep)'
    <3>1. FrameSound(p) /\ Turns /\ Asleep
      BY <1>1, <2>3 DEF WaitSound, Slotted, Sound
    <3>2. Crash \/ WaitStep(p)
      BY <1>1, <2>1, <2>3, <3>1, NoHandler, WaitSteps
    <3>3. CASE Crash
      BY <3>1, <3>3, WaitsUnchanged DEF Crash, memVars
    <3>4. CASE WaitStep(p)
      BY <1>1, <2>2, <3>1, <3>4, TurnsKept, AsleepKept
    <3> QED
      BY <3>2, <3>3, <3>4
  <2> QED
    BY <1>1, <2>2, <2>3 DEF WaitSound
<1> QED
  BY <1>2, <1>3

\* WaitSound holds throughout.
LEMMA WaitSoundAlways == Spec => []WaitSound
<1>1. Init => WaitSound
  BY InitWaits
<1>2. WaitSound /\ [Next]_vars => WaitSound'
  BY WaitSoundStep
<1> QED
  BY <1>1, <1>2, PTL DEF Spec

\* What the properties say of waiting and doing.
LEMMA WaitsSleeps ==
    ASSUME Turns, NEW p \in Procs, NEW b, NEW then, Waits(p, b, then)
    PROVE  Sleeps(p, {then}) /\ Top(p).mb = b
  BY DEF Turns, Turn, Waits, Sleeps

\* Who is at a step has a frame that is.
LEMMA DoerDoing ==
    ASSUME MailTypes, NEW b, NEW pcs, Doer(b, pcs)
    PROVE  Doing(b, pcs)
<1>1. PICK t \in Procs : Busy(t) /\ Top(t).mb = b /\ Top(t).pc \in pcs
  BY DEF Doer
<1>2. frames[t] \in Seq(Frame) /\ Top(t) = frames[t][1] /\ 1 \in DOMAIN frames[t]
  BY <1>1, TopTyped, EmptySeq DEF MailTypes, Busy
<1>3. Top(t) \in AllFrames
  BY <1>2 DEF AllFrames
<1> QED
  BY <1>1, <1>3 DEF Doing

\* A mailbox with messages in it has a first one.
LEMMA QueuedHead ==
    ASSUME Slotted, Uninterrupted, NEW b \in Mbs, Queued(b) # {}
    PROVE  mbTable[b].mailSlotQueueHead # NULL
<1>1. PICK L : Sound(L) /\ MailTypes
  BY DEF Slotted
<1>2. L[b] # <<>>
  BY <1>1, QueuedAre DEF InList
<1>3. Heads[b] = L[b][1] /\ L[b] \in Seq(Slots) /\ 1 \in 1 .. Len(L[b])
  BY <1>1, <1>2, EmptySeq DEF Sound, InBoxes, Chains
<1>4. Heads[b] \in Slots
  BY <1>3
<1> QED
  BY <1>4 DEF Heads, Slots, NULL

\* With one receiver, and one process that makes and releases mailboxes, the receiver
\* never sleeps in MboxRecv or waitDevice beside a message, unless its wakeup is on the
\* way: for any number of senders, mailboxes and slots, as long as nobody calls
\* MboxCondSend, which wakes the receiver before the message is there.
THEOREM ReceiverNotLost == Spec => [](OneOwns /\ NoConds => NoLostReceiver)
<1>1. ASSUME WaitSound, OneOwns, NoConds
      PROVE  NoLostReceiver
  <2> SUFFICES ASSUME OneReceives, Uninterrupted, NEW p \in Procs, NEW b \in Open,
                      Waits(p, b, "copy"), Queued(b) # {}
               PROVE  Doing(b, {"wake_consumer"})
    BY DEF NoLostReceiver
  <2>1. Sleeps(p, {"copy"}) /\ Top(p).mb = b
    BY <1>1, WaitsSleeps DEF WaitSound
  <2>2. Box(p).isInitialized /\ Box(p).mailSlotQueueHead # NULL
    BY <1>1, <2>1, QueuedHead DEF WaitSound, Open, Box
  <2>3. Doer(b, {"wake_consumer"})
    BY <1>1, <2>1, <2>2 DEF WaitSound, Asleep, WokenReceiver
  <2> QED
    BY <1>1, <2>3, DoerDoing DEF WaitSound, Slotted
<1>2. WaitSound => (OneOwns /\ NoConds => NoLostReceiver)
  BY <1>1
<1> QED
  BY <1>2, WaitSoundAlways, PTL

\* With one sender, and one process that makes and releases mailboxes, the sender never
\* sleeps beside free room, unless a receiver is about to wake it.
THEOREM SenderNotLost == Spec => [](Uninterrupted /\ OneOwns => NoLostSender)
<1>1. ASSUME WaitSound, Uninterrupted, OneOwns
      PROVE  NoLostSender
  <2> SUFFICES ASSUME OneSends, NEW p \in Procs, NEW b \in Open,
                      Waits(p, b, "mail"), mbTable[b].mailSlotsAvailable > 0
               PROVE  Doing(b, {"wake_producer"})
    BY DEF NoLostSender
  <2>1. Sleeps(p, {"mail"}) /\ Top(p).mb = b
    BY <1>1, WaitsSleeps DEF WaitSound
  <2>2. Doer(b, {"wake_producer"})
    BY <1>1, <2>1 DEF WaitSound, Asleep, WokenSender, Open, Box
  <2> QED
    BY <1>1, <2>2, DoerDoing DEF WaitSound, Slotted
<1>2. WaitSound => (Uninterrupted /\ OneOwns => NoLostSender)
  BY <1>1
<1> QED
  BY <1>2, WaitSoundAlways, PTL

\* Nobody is left asleep on a mailbox whose release is over, if one process receives, one
\* sends, and one makes and releases.
THEOREM ReleaseWakesBoth ==
    Spec => [](OneReceives /\ OneSends /\ Uninterrupted /\ OneOwns => ReleaseWakesAll)
<1>1. ASSUME WaitSound, OneReceives, OneSends, Uninterrupted, OneOwns
      PROVE  ReleaseWakesAll
  <2> SUFFICES ASSUME NEW p \in Procs, NEW b \in Mbs \ Open,
                      NEW then \in {"copy", "leave", "mail", "hand"}, Waits(p, b, then)
               PROVE  Doing(b, {"free_consumers", "next_consumer",
                                "free_producers", "next_producer"})
    BY DEF ReleaseWakesAll
  <2>1. Sleeps(p, {then}) /\ Top(p).mb = b /\ ~Box(p).isInitialized
    BY <1>1, WaitsSleeps DEF WaitSound, Open, Box
  <2>2. Doer(b, {"free_consumers", "next_consumer", "free_producers", "next_producer"})
    <3>1. CASE then \in AsReceiver
      BY <1>1, <2>1, <3>1, SleepsAmong DEF WaitSound, Asleep, ConsumersSound, Doer
    <3>2. CASE then \in AsSender
      BY <1>1, <2>1, <3>2, SleepsAmong DEF WaitSound, Asleep, ProducersSound, Doer, BeforeProducers
    <3> QED
      BY <3>1, <3>2 DEF AsReceiver, AsSender
  <2> QED
    BY <1>1, <2>2, DoerDoing DEF WaitSound, Slotted
<1>2. WaitSound => (OneReceives /\ OneSends /\ Uninterrupted /\ OneOwns => ReleaseWakesAll)
  BY <1>1
<1> QED
  BY <1>2, WaitSoundAlways, PTL

-----------------------------------------------------------------------------
(* Receivers whose buffers hold every message *)

BuffersHold == \A m \in Messages : Size[m] <= IntSize /\ \A max \in BufferSizes : Size[m] <= max

\* A slot in use holds a message, and a receiver has one of the buffers.
Fits ==
    /\ \A s \in Slots : messageSlots[s].isInitialized => messageSlots[s].message \in Messages
    /\ \A p \in Procs : Busy(p) /\ Top(p).call \in {"MboxRecv", "waitDevice"}
            => Top(p).max \in BufferSizes \cup {IntSize}

\* Steps that write messages write whole ones.
LEMMA MessagesKept ==
    ASSUME MailTypes, NEW L, Sound(L), Fits, NEW p \in Procs, Writes(p) \/ Quiet(p),
           NEW s \in Slots, messageSlots'[s].isInitialized
    PROVE  messageSlots'[s].message \in Messages
<1>1. messageSlots[s].isInitialized => messageSlots[s].message \in Messages
  BY DEF Fits
<1>2. CASE TakeSlot(p)
  <2>1. Busy(p) /\ Top(p).pc = "take" /\ FrameSound(p)
    BY <1>2, AtEffect DEF TakeSlot, Sound
  <2>2. Top(p).slot \in Slots /\ Top(p).message \in Messages
    BY <2>1 DEF FrameSound
  <2> QED
    BY <1>1, <1>2, <2>2 DEF TakeSlot, MailTypes, Message
<1>3. CASE Copies(p)
  <2>1. Box(p).mailSlotQueueHead \in Slots
    BY <1>3, AtEffect DEF Copies, Box, MailTypes, MB, NULL
  <2> QED
    BY <1>1, <1>3, <2>1 DEF Copies, MailTypes, Message
<1>4. CASE Pops(p) \/ (\E b \in Mbs : Creates(p, b)) \/ Quiet(p)
  BY <1>1, <1>4 DEF Pops, Creates, Quiet
<1>5. CASE addToMailQueue(p)
  <2>1. /\ Busy(p) /\ Top(p).pc = "mail" /\ Top(p).mb \in Mbs
        /\ messageSlots' = Mailed(Top(p).slot, Box(p).mailSlotQueueHead)
    BY <1>5, AtEffect, BusyMb DEF addToMailQueue
  <2>2. Holds(p) /\ FrameSound(p)
    BY <2>1 DEF Holds, Holding, Sound
  <2>3. Top(p).slot \in Slots /\ \A a \in Mbs : ~InList(Top(p).slot, L[a])
    BY <2>2 DEF FrameSound, Holds, Sound, InBoxes
  <2>4. /\ messageSlots'[s].isInitialized = messageSlots[s].isInitialized
        /\ messageSlots'[s].message = messageSlots[s].message
    BY <2>1, <2>3, MailedEffect DEF Sound, InBoxes, Box
  <2> QED
    BY <1>1, <2>4
<1>6. CASE \E b \in Mbs : Releases(p, b)
  <2>1. PICK free : messageSlots'[s] = [messageSlots[s] EXCEPT !.isInitialized = @ /\ free]
    BY <1>6 DEF Releases
  <2>2. messageSlots[s] \in Message /\ messageSlots[s].isInitialized \in BOOLEAN
    BY DEF MailTypes, Message
  <2>3. messageSlots'[s].message = messageSlots[s].message
    BY <2>1, <2>2 DEF Message
  <2>4. messageSlots'[s].isInitialized = (messageSlots[s].isInitialized /\ free)
    BY <2>1, <2>2 DEF Message
  <2> QED
    BY <1>1, <2>3, <2>4
<1> QED
  BY <1>2, <1>3, <1>4, <1>5, <1>6 DEF Writes

\* A call keeps the buffer it was given.
LEMMA BuffersKept ==
    ASSUME MailTypes, Fits, NEW p \in Procs, WaitStep(p), NEW q \in Procs, Busy(q)',
           Top(q)'.call \in {"MboxRecv", "waitDevice"}
    PROVE  Top(q)'.max \in BufferSizes \cup {IntSize}
<1>1. CASE q # p
  BY <1>1, WaitStepCommon DEF Fits, Busy, Top
<1>2. CASE q = p
  <2> USE DEF Busy
  <2>1. CASE Starts(p)
    BY <1>2, <2>1 DEF Starts, SendCalls
  <2>2. CASE \/ Advances(p) \/ JoinsProducers(p) \/ JoinsConsumers(p) \/ Mails(p) \/ TakesOff(p)
             \/ DropsConsumer(p) \/ DropsProducer(p) \/ WakesFirst(p) \/ Blocks(p)
    <3>1. Busy(p) /\ Top(p)'.call = Top(p).call /\ Top(p)'.max = Top(p).max
      BY <1>2, <2>2 DEF Advances, JoinsProducers, JoinsConsumers, Mails, TakesOff,
             DropsConsumer, DropsProducer, Drops, WakesFirst, Blocks, On, Goes, Ends
    <3> QED
      BY <1>2, <3>1 DEF Fits
  <2>3. CASE \E b \in Mbs : Closes(p, b)
    BY <1>2, <2>3 DEF Closes
  <2>4. CASE (\E b \in Mbs : Makes(p, b)) \/ Between(p)
    BY <1>2, <2>4 DEF Makes, Between, Fits, Top
  <2> QED
    BY <2>1, <2>2, <2>3, <2>4 DEF WaitStep
<1> QED
  BY <1>1, <1>2

\* Buffers that hold every message refuse none.
LEMMA NotRefused ==
    ASSUME MailTypes, NEW L, Sound(L), Turns, Fits, BuffersHold, NEW p \in Procs
    PROVE  ~Refused(p)
<1> SUFFICES ASSUME Refused(p)
             PROVE  FALSE
  OBVIOUS
<1> DEFINE b == Top(p).mb
           h == mbTable[b].mailSlotQueueHead
<1>1. /\ Busy(p) /\ current = p /\ Top(p).pc = "copy" /\ b \in Mbs /\ h # NULL
      /\ Top(p).call # "MboxCondRecv" /\ Size[messageSlots[h].message] > Top(p).max
  BY AtEffect, BusyMb DEF Refused, TooLarge, Box
<1>2. h \in Slots
  BY <1>1 DEF MailTypes, MB, NULL
<1>3. L[b] # <<>> /\ h = L[b][1] /\ L[b] \in Seq(Slots) /\ 1 \in 1 .. Len(L[b])
  BY <1>1, EmptySeq DEF Sound, InBoxes, Chains, Heads
<1>4. ~\E q \in Procs : Popping(q, b)
  BY <1>1 DEF Turns, Turn, OffCPU, Popping, Busy
<1>5. messageSlots[h].message \in Messages
  BY <1>1, <1>2, <1>3, <1>4 DEF Sound, InBoxes, Fits
<1>6. Top(p).call \in {"MboxRecv", "waitDevice"}
  BY <1>1 DEF Turns, Turn, Part, RecvPCs, RecvCalls
<1>7. Top(p).max \in BufferSizes \cup {IntSize}
  BY <1>1, <1>6 DEF Fits
<1>8. Size[messageSlots[h].message] <= Top(p).max /\ Size[messageSlots[h].message] \in Nat
      /\ Top(p).max \in Nat
  BY <1>5, <1>7, MailboxAssumption DEF BuffersHold
<1> QED
  BY <1>1, <1>8

-----------------------------------------------------------------------------
(* Who is in the queue of receivers *)

\* c has queued itself to receive from b, and has not yet left the queue.
Takes(c, b) == Busy(c) /\ Top(c).mb = b /\ Part(Top(c)) \in {"copy", "pop", "leave"}

\* The queue of a mailbox that is open, or that is being released, holds the receiver
\* while it receives from it, and nobody else; no queue has a second.
ConsumersExact ==
    /\ \A q \in Procs : shadowProcessTable[q].nextConsumerNode = NULL
    /\ \A b \in Mbs, c \in Procs :
          /\ mbTable[b].isInitialized \/ Doer(b, {"free_consumers"})
          /\ mbTable[b].consumerQueueHead = c
          => Takes(c, b)
    /\ \A b \in Mbs :
          ~mbTable[b].isInitialized /\ mbTable[b].consumerQueueHead # NULL
            => Doer(b, {"free_consumers", "next_consumer"})

\* A receiver joins an empty queue.
LEMMA ConsumersEmpty ==
    ASSUME MailTypes, Turns, OneReceives, ConsumersSound, ConsumersExact,
           NEW p \in Procs, FrameSound(p), JoinsConsumers(p)
    PROVE  Box(p).consumerQueueHead = NULL
<1>1. Busy(p) /\ Top(p).pc = "look" /\ Top(p).mb \in Mbs
  BY BusyMb DEF JoinsConsumers
<1>2. p \in Receivers
  BY <1>1, CallersAre DEF Turns, Part, RecvPCs
<1> SUFFICES ASSUME Box(p).consumerQueueHead # NULL
             PROVE  FALSE
  OBVIOUS
<1>3. Box(p).consumerQueueHead \in Receivers
  BY <1>1 DEF ConsumersSound, Box
<1>4. Box(p).consumerQueueHead = p
  BY <1>2, <1>3, OneOfAKind DEF Receivers, Callers
<1>5. Takes(p, Top(p).mb)
  BY <1>1, <1>4 DEF ConsumersExact, FrameSound, Box
<1> QED
  BY <1>1, <1>5 DEF Takes, Part

\* Who heads a queue did before, or has just joined it.
LEMMA ConsumerHeadFrom ==
    ASSUME MailTypes, Turns, OneReceives, ConsumersSound, ConsumersExact,
           NEW p \in Procs, FrameSound(p), WaitStep(p),
           NEW b \in Mbs, NEW c \in Procs, mbTable'[b].consumerQueueHead = c
    PROVE  \/ /\ mbTable[b].consumerQueueHead = c /\ ~Makes(p, b)
              /\ TakesOff(p) \/ DropsConsumer(p) => Top(p).mb # b
           \/ JoinsConsumers(p) /\ c = p /\ Top(p).mb = b
<1>1. c # NULL
  BY MailboxAssumption DEF NULL
<1>2. CASE TakesOff(p) \/ DropsConsumer(p)
  <2>1. Busy(p) /\ Top(p).mb \in Mbs /\ Box(p).consumerQueueHead # NULL
    BY <1>2, BusyMb DEF TakesOff, DropsConsumer, Drops, FirstConsumer
  <2>2. Box(p).consumerQueueHead \in Procs
    BY <2>1, HeadTyped DEF Waiting
  <2>3. shadowProcessTable[Box(p).consumerQueueHead].nextConsumerNode = NULL
    BY <2>2 DEF ConsumersExact
  <2>4. HeadIs(Top(p).mb, "consumerQueueHead", NULL)
    BY <1>2, <2>3 DEF TakesOff, DropsConsumer, Drops, FirstConsumer
  <2>5. ~Makes(p, b)
    BY <2>1 DEF Makes
  <2> QED
    BY <1>1, <2>1, <2>4, <2>5 DEF HeadIs, Waiting
<1>3. CASE JoinsConsumers(p)
  <2>1. HeadIs(Top(p).mb, "consumerQueueHead", p) /\ Busy(p)
    BY <1>3, ConsumersEmpty DEF JoinsConsumers, Joined
  <2>2. ~Makes(p, b) /\ ~TakesOff(p) /\ ~DropsConsumer(p)
    BY <1>3, <2>1 DEF Makes, TakesOff, DropsConsumer, JoinsConsumers
  <2>3. CASE Top(p).mb = b
    BY <1>3, <2>1, <2>3 DEF HeadIs
  <2>4. CASE Top(p).mb # b
    BY <2>1, <2>2, <2>4 DEF HeadIs, Waiting
  <2> QED
    BY <2>3, <2>4
<1>4. ASSUME ~TakesOff(p), ~DropsConsumer(p), ~JoinsConsumers(p)
      PROVE  mbTable[b].consumerQueueHead = c /\ ~Makes(p, b)
  <2>1. ASSUME Makes(p, b)
        PROVE  FALSE
    <3>1. PICK n \in SlotLimits : mbTable'[b] = NewMb(n)
      BY <2>1 DEF Makes
    <3> QED
      BY <1>1, <3>1 DEF NewMb
  <2>2. CASE HeadsKept
    BY <2>1, <2>2 DEF HeadsKept
  <2>3. ASSUME NEW v, HeadIs(Top(p).mb, "producerQueueHead", v)
        PROVE  mbTable[b].consumerQueueHead = c
    BY <2>3 DEF HeadIs, Waiting
  <2>4. CASE JoinsProducers(p) \/ DropsProducer(p)
    BY <2>1, <2>2, <2>3, <2>4 DEF JoinsProducers, Joined, DropsProducer, Drops
  <2>5. CASE \E a \in Mbs : Makes(p, a)
    BY <2>1, <2>5 DEF Makes
  <2>6. CASE Starts(p) \/ Advances(p) \/ Mails(p) \/ WakesFirst(p) \/ Blocks(p)
             \/ (\E a \in Mbs : Closes(p, a)) \/ Between(p)
    BY <2>1, <2>2, <2>6 DEF Starts, Advances, Mails, WakesFirst, Blocks, Closes, Between
  <2> QED
    BY <1>4, <2>4, <2>5, <2>6 DEF WaitStep
<1> QED
  BY <1>2, <1>3, <1>4

\* A receiver leaves its queue only by the steps that take it off.
LEMMA TakesKept ==
    ASSUME MailTypes, Turns, NEW p \in Procs, FrameSound(p), WaitStep(p), ~Refused(p),
           NEW b \in Mbs, NEW c \in Procs, Takes(c, b), Box(c).isInitialized \/ Top(p).pc = "free_consumers",
           TakesOff(p) \/ DropsConsumer(p) => Top(p).mb # b
    PROVE  Takes(c, b)'
<1>1. CASE c # p
  BY <1>1, WaitStepCommon DEF Takes, Busy, Top
<1>2. CASE c = p
  <2>1. Busy(p) /\ Top(p).mb = b /\ ~TakesOff(p) /\ ~DropsConsumer(p)
    BY <1>2 DEF Takes
  <2>2. Top(p).pc \in {"copy", "pop", "leave", "block", "resumed"}
    BY <1>2 DEF Takes, Part
  <2>3. CASE Blocks(p)
    BY <1>2, <2>1, <2>3 DEF Takes, Blocks, On, Goes, Busy, Part
  <2>4. CASE Advances(p)
    BY <1>2, <2>1, <2>2, <2>4 DEF Takes, Advances, On, Goes, Busy, Part
  <2> QED
    BY <2>1, <2>2, <2>3, <2>4 DEF WaitStep, Starts, JoinsProducers, JoinsConsumers, Mails,
           DropsProducer, WakesFirst, Closes, Makes, Between
<1> QED
  BY <1>1, <1>2

\* No link leads from one receiver to another.
LEMMA ConsumersUnlinked ==
    ASSUME MailTypes, Turns, OneReceives, ConsumersSound, ConsumersExact,
           NEW p \in Procs, FrameSound(p), WaitStep(p), NEW q \in Procs
    PROVE  shadowProcessTable'[q].nextConsumerNode = NULL
<1>1. shadowProcessTable[q].nextConsumerNode = NULL
  BY DEF ConsumersExact
<1>2. CASE TableKept
  BY <1>1, <1>2 DEF TableKept
<1>3. CASE Renewed(p)
  BY <1>1, <1>3 DEF Renewed
<1>4. CASE JoinsProducers(p)
  BY <1>1, <1>3, <1>4 DEF JoinsProducers, Joined
<1>5. CASE JoinsConsumers(p)
  BY <1>3, <1>5, ConsumersEmpty DEF JoinsConsumers, Joined
<1>6. CASE Between(p)
  BY <1>1, <1>3, <1>6 DEF Between
<1>7. CASE Starts(p) \/ Advances(p) \/ Mails(p) \/ TakesOff(p) \/ DropsConsumer(p)
           \/ DropsProducer(p) \/ WakesFirst(p) \/ Blocks(p)
           \/ (\E a \in Mbs : Closes(p, a) \/ Makes(p, a))
  BY <1>2, <1>3, <1>7 DEF Starts, Advances, Mails, TakesOff, DropsConsumer,
           DropsProducer, Drops, WakesFirst, Blocks, Closes, Makes
<1> QED
  BY <1>4, <1>5, <1>6, <1>7 DEF WaitStep

\* ConsumersExact is inductive.
LEMMA ConsumersExactKept ==
    ASSUME MailTypes, MailTypes', Turns, OneReceives, OneOwns, Owned, ConsumersSound, ConsumersExact,
           NEW p \in Procs, FrameSound(p), WaitStep(p), ~Refused(p)
    PROVE  ConsumersExact'
<1>1. current = p /\ \A t \in Procs \ {p} : frames'[t] = frames[t]
  BY WaitStepCommon
<1>2. ASSUME NEW t \in Procs, Busy(t), Top(t).pc = "free_consumers"
      PROVE  t = p
  BY <1>1, <1>2 DEF Turns, Turn, OffCPU
<1>3. ASSUME NEW b \in Mbs, NEW c \in Procs, mbTable'[b].consumerQueueHead = c,
             mbTable'[b].isInitialized \/ Doer(b, {"free_consumers"})'
      PROVE  Takes(c, b)'
  <2>1. CASE JoinsConsumers(p) /\ c = p /\ Top(p).mb = b
    BY <2>1 DEF JoinsConsumers, On, Goes, Takes, Busy, Part
  <2>2. CASE /\ mbTable[b].consumerQueueHead = c /\ ~Makes(p, b)
             /\ TakesOff(p) \/ DropsConsumer(p) => Top(p).mb # b
    <3>1. CASE mbTable[b].isInitialized
      <4>1. Takes(c, b)
        BY <2>2, <3>1 DEF ConsumersExact
      <4> QED
        BY <2>2, <3>1, <4>1, TakesKept DEF Takes, Box
    <3>2. CASE Doer(b, {"free_consumers"})
      <4>1. Takes(c, b)
        BY <2>2, <3>2 DEF ConsumersExact
      <4>2. Top(p).pc = "free_consumers"
        BY <1>2, <3>2 DEF Doer
      <4> QED
        BY <2>2, <4>1, <4>2, TakesKept
    <3>3. CASE ~mbTable[b].isInitialized /\ ~Doer(b, {"free_consumers"})
      <4>1. ~mbTable'[b].isInitialized
        BY <2>2, <3>3, OpenKept DEF Closes
      <4>2. PICK t \in Procs : (Busy(t) /\ Top(t).mb = b /\ Top(t).pc = "free_consumers")'
        BY <1>3, <4>1 DEF Doer
      <4>3. t = p
        BY <1>1, <3>3, <4>2 DEF Doer, Busy, Top
      <4>4. c # NULL
        BY MailboxAssumption DEF NULL
      <4>5. PICK s \in Procs : Busy(s) /\ Top(s).mb = b /\ Top(s).pc \in {"free_consumers", "next_consumer"}
        BY <2>2, <3>3, <4>4 DEF ConsumersExact, Doer
      <4>6. s \in Releasers
        BY <4>5, CallersAre DEF Turns, FreePCs
      <4>7. Closes(p, b) \/ (DropsConsumer(p) /\ Top(p).mb = b)
        <5> USE DEF Busy
        <5>1. CASE Starts(p) \/ Mails(p) \/ TakesOff(p) \/ Blocks(p) \/ DropsProducer(p)
                   \/ WakesFirst(p)
          BY <4>2, <4>3, <5>1 DEF Starts, Mails, TakesOff, Blocks, DropsProducer, WakesFirst,
                 On, Goes, Ends
        <5>2. CASE Advances(p)
          BY <4>2, <4>3, <5>2 DEF Advances, On, Goes, Ends, FrameSound
        <5>3. CASE JoinsProducers(p) \/ JoinsConsumers(p)
          BY <4>2, <4>3, <5>3 DEF JoinsProducers, JoinsConsumers, On, Goes
        <5>4. CASE DropsConsumer(p)
          BY <4>2, <4>3, <5>4 DEF DropsConsumer, On, Goes, Ends
        <5>5. CASE \E a \in Mbs : Closes(p, a)
          BY <4>2, <4>3, <5>5 DEF Closes
        <5>6. CASE (\E a \in Mbs : Makes(p, a)) \/ Between(p)
          BY <4>2, <4>3, <5>6 DEF Makes, Between
        <5> QED
          BY <5>1, <5>2, <5>3, <5>4, <5>5, <5>6 DEF WaitStep
      <4>8. CASE Closes(p, b)
        <5>1. p \in Owners /\ ~Busy(p)
          BY <4>8, OwnersMake DEF Closes
        <5> QED
          BY <4>5, <4>6, <5>1, OneOfAKind
      <4> QED
        BY <2>2, <4>7, <4>8
    <3> QED
      BY <3>1, <3>2, <3>3
  <2> QED
    BY <1>3, <2>1, <2>2, ConsumerHeadFrom
<1>4. ASSUME NEW b \in Mbs, ~mbTable'[b].isInitialized, mbTable'[b].consumerQueueHead # NULL,
             mbTable'[b].consumerQueueHead \in Procs
      PROVE  Doer(b, {"free_consumers", "next_consumer"})'
  <2>1. CASE JoinsConsumers(p) /\ Top(p).mb = b
    BY <1>4, <2>1 DEF JoinsConsumers, MailKept, FrameSound, Box
  <2>2. CASE mbTable[b].consumerQueueHead = mbTable'[b].consumerQueueHead
    <3>1. CASE mbTable[b].isInitialized
      BY <1>4, <3>1, OpenOrCloser DEF Doer
    <3>2. CASE ~mbTable[b].isInitialized
      <4>1. PICK s \in Procs : Busy(s) /\ Top(s).mb = b /\ Top(s).pc \in {"free_consumers", "next_consumer"}
        BY <1>4, <2>2, <3>2 DEF ConsumersExact, Doer
      <4>2. CASE s # p
        BY <1>1, <4>1, <4>2, DoerStays
      <4>3. CASE s = p
        <5>1. Busy(p)' /\ Top(p)'.mb = b /\ Top(p)'.pc \in {"free_consumers", "next_consumer"}
          BY <1>4, <2>2, <4>1, <4>3
             DEF WaitStep, Starts, Advances, JoinsProducers, JoinsConsumers, Mails, TakesOff,
                 DropsConsumer, DropsProducer, WakesFirst, Blocks, Closes, Makes, Between,
                 On, Goes, Busy, FirstConsumer, Box
        <5> QED
          BY <5>1 DEF Doer
      <4> QED
        BY <4>2, <4>3
    <3> QED
      BY <3>1, <3>2
  <2> QED
    BY <1>4, <2>1, <2>2, ConsumerHeadFrom
<1>5. \A b \in Mbs : mbTable'[b].consumerQueueHead # NULL => mbTable'[b].consumerQueueHead \in Procs
  BY DEF MailTypes, MB, Node
<1> QED
  BY <1>3, <1>4, <1>5, ConsumersUnlinked DEF ConsumersExact

-----------------------------------------------------------------------------
(* Who is in the queue of senders *)

\* c has queued itself to send to b, and nobody has woken it.
Gives(c, b) == Busy(c) /\ Top(c).mb = b /\ (Sleeps(c, AsSender) \/ Top(c).pc = "hand")

\* The queue of a mailbox that is open, or about to wake its senders, holds the sender
\* until it is woken, and nobody else; no queue has a second.
ProducersExact ==
    /\ \A q \in Procs : shadowProcessTable[q].nextProducerNode = NULL
    /\ \A b \in Mbs, c \in Procs :
          /\ mbTable[b].isInitialized \/ Doer(b, BeforeProducers)
          /\ mbTable[b].producerQueueHead = c
          => Gives(c, b)
    /\ \A b \in Mbs :
          ~mbTable[b].isInitialized /\ mbTable[b].producerQueueHead # NULL
            => Doer(b, FreePCs)

\* A sender joins an empty queue.
LEMMA ProducersEmpty ==
    ASSUME MailTypes, Turns, OneSends, Owned, ProducersSound, ProducersExact,
           NEW p \in Procs, JoinsProducers(p)
    PROVE  Box(p).producerQueueHead = NULL /\ Box(p).isInitialized
<1>1. Busy(p) /\ Top(p).pc = "room" /\ Top(p).mb \in Mbs
  BY BusyMb DEF JoinsProducers
<1>2. p \in Senders /\ Box(p).isInitialized
  BY <1>1, CallersAre DEF Turns, Part, SendPCs, Owned, OpenPCs
<1> SUFFICES ASSUME Box(p).producerQueueHead # NULL
             PROVE  FALSE
  BY <1>2
<1>3. Box(p).producerQueueHead \in Senders
  BY <1>1 DEF ProducersSound, Box
<1>4. Box(p).producerQueueHead = p
  BY <1>2, <1>3, OneOfAKind DEF Senders, Callers
<1>5. Gives(p, Top(p).mb)
  BY <1>1, <1>2, <1>4 DEF ProducersExact, Box
<1> QED
  BY <1>1, <1>5 DEF Gives, Sleeps

\* Who heads a queue did before, or has just joined it.
LEMMA ProducerHeadFrom ==
    ASSUME MailTypes, Turns, OneSends, Owned, ProducersSound, ProducersExact,
           NEW p \in Procs, WaitStep(p),
           NEW b \in Mbs, NEW c \in Procs, mbTable'[b].producerQueueHead = c
    PROVE  \/ /\ mbTable[b].producerQueueHead = c /\ ~Makes(p, b)
              /\ DropsProducer(p) => Top(p).mb # b
           \/ JoinsProducers(p) /\ c = p /\ Top(p).mb = b
<1>1. c # NULL
  BY MailboxAssumption DEF NULL
<1>2. CASE DropsProducer(p)
  <2>1. Busy(p) /\ Top(p).mb \in Mbs /\ Box(p).producerQueueHead # NULL
    BY <1>2, BusyMb DEF DropsProducer, Drops
  <2>2. Box(p).producerQueueHead \in Procs
    BY <2>1, HeadTyped DEF Waiting
  <2>3. shadowProcessTable[Box(p).producerQueueHead].nextProducerNode = NULL
    BY <2>2 DEF ProducersExact
  <2>4. HeadIs(Top(p).mb, "producerQueueHead", NULL)
    BY <1>2, <2>3 DEF DropsProducer, Drops
  <2>5. ~Makes(p, b)
    BY <2>1 DEF Makes
  <2> QED
    BY <1>1, <2>1, <2>4, <2>5 DEF HeadIs, Waiting
<1>3. CASE JoinsProducers(p)
  <2>1. HeadIs(Top(p).mb, "producerQueueHead", p) /\ Busy(p)
    BY <1>3, ProducersEmpty DEF JoinsProducers, Joined
  <2>2. ~Makes(p, b) /\ ~DropsProducer(p)
    BY <1>3, <2>1 DEF Makes, DropsProducer, JoinsProducers
  <2>3. CASE Top(p).mb = b
    BY <1>3, <2>1, <2>3 DEF HeadIs
  <2>4. CASE Top(p).mb # b
    BY <2>1, <2>2, <2>4 DEF HeadIs, Waiting
  <2> QED
    BY <2>3, <2>4
<1>4. ASSUME ~DropsProducer(p), ~JoinsProducers(p)
      PROVE  mbTable[b].producerQueueHead = c /\ ~Makes(p, b)
  <2>1. ASSUME Makes(p, b)
        PROVE  FALSE
    <3>1. PICK n \in SlotLimits : mbTable'[b] = NewMb(n)
      BY <2>1 DEF Makes
    <3> QED
      BY <1>1, <3>1 DEF NewMb
  <2>2. CASE HeadsKept
    BY <2>1, <2>2 DEF HeadsKept
  <2>3. ASSUME NEW v, HeadIs(Top(p).mb, "consumerQueueHead", v)
        PROVE  mbTable[b].producerQueueHead = c
    BY <2>3 DEF HeadIs, Waiting
  <2>4. CASE JoinsConsumers(p) \/ DropsConsumer(p) \/ TakesOff(p)
    BY <2>1, <2>2, <2>3, <2>4 DEF JoinsConsumers, Joined, DropsConsumer, Drops, TakesOff
  <2>5. CASE \E a \in Mbs : Makes(p, a)
    BY <2>1, <2>5 DEF Makes
  <2>6. CASE Starts(p) \/ Advances(p) \/ Mails(p) \/ WakesFirst(p) \/ Blocks(p)
             \/ (\E a \in Mbs : Closes(p, a)) \/ Between(p)
    BY <2>1, <2>2, <2>6 DEF Starts, Advances, Mails, WakesFirst, Blocks, Closes, Between
  <2> QED
    BY <1>4, <2>4, <2>5, <2>6 DEF WaitStep
<1> QED
  BY <1>2, <1>3, <1>4

\* Who wakes a process that sleeps.
LEMMA WhoWakes ==
    ASSUME MailTypes, NEW p \in Procs, WaitStep(p), NEW c \in Procs \ {p},
           status[c] = "blocked", status'[c] # "blocked"
    PROVE  \/ /\ Busy(p) /\ Top(p).pc \in {"hand", "wake_consumer", "free_consumers"}
              /\ FirstConsumer(p) = c
           \/ DropsProducer(p) /\ Top(p).pc = "wake_producer" /\ FirstProducer(p) = c
           \/ WakesFirst(p) /\ Top(p).pc = "free_producers" /\ FirstProducer(p) = c
<1>1. ASSUME NEW q, Wakes(q)
      PROVE  q = c
  BY <1>1 DEF Wakes, Turned
<1>2. ~Stays
  BY DEF Stays
<1>3. CASE DropsProducer(p)
  BY <1>1, <1>2, <1>3 DEF DropsProducer, Drops
<1>4. CASE WakesFirst(p)
  BY <1>1, <1>2, <1>4 DEF WakesFirst
<1>5. ~Blocks(p) /\ ~Between(p)
  BY DEF Blocks, Turned, Between
<1> QED
  BY <1>2, <1>3, <1>4, <1>5 DEF WaitStep, Starts, Advances, JoinsProducers, JoinsConsumers,
     Mails, TakesOff, DropsConsumer, Closes, Makes

\* A sender that is woken leaves its queue, or its mailbox is past its senders.
LEMMA GivesKept ==
    ASSUME MailTypes, MailTypes', Turns, OneSends, OneOwns, Owned, ProducersSound,
           ProducersExact, ConsumersExact, NEW p \in Procs, FrameSound(p), WaitStep(p),
           NEW b \in Mbs, NEW c \in Procs, Gives(c, b), mbTable[b].producerQueueHead = c,
           DropsProducer(p) => Top(p).mb # b,
           mbTable'[b].isInitialized \/ Doer(b, BeforeProducers)'
    PROVE  Gives(c, b)'
<1>1. current = p /\ \A t \in Procs \ {p} : frames'[t] = frames[t]
  BY WaitStepCommon
<1>2. CASE c = p
  <2>1. Busy(p) /\ Top(p).mb = b /\ status[p] # "blocked"
    BY <1>1, <1>2 DEF Gives, Turns, Turn
  <2>2. Top(p).pc \in {"block", "hand"}
    BY <1>2, <2>1 DEF Gives, Sleeps
  <2>3. Blocks(p)
    BY <1>2, <2>1, <2>2 DEF WaitStep, Starts, Advances, JoinsProducers, JoinsConsumers, Mails,
       TakesOff, DropsConsumer, DropsProducer, WakesFirst, Closes, Makes, Between
  <2>4. Top(p).then \in AsSender
    BY <1>2, <2>3 DEF Gives, Sleeps, Blocks
  <2>5. status'[p] = "blocked"
    BY <2>3 DEF Blocks, Turned
  <2> QED
    BY <1>2, <2>1, <2>3, <2>4, <2>5 DEF Gives, Sleeps, Blocks, On, Goes, Busy
<1>3. CASE c # p
  <2>1. Busy(c) /\ Top(c).mb = b /\ Top(c)' = Top(c) /\ Busy(c)'
    BY <1>1, <1>3 DEF Gives, Busy, Top
  <2>2. Top(c).pc = "resumed" /\ status[c] = "blocked" /\ Top(c).then \in AsSender
    BY <1>1, <1>3, <2>1 DEF Gives, Sleeps, Turns, Turn, OffCPU
  <2>3. c \in Senders /\ c # NULL
    BY MailboxAssumption DEF ProducersSound, NULL
  <2>4. ASSUME Busy(p), Part(Top(p)) \in SendPCs
        PROVE  FALSE
    BY <1>3, <2>3, <2>4, CallersAre, OneOfAKind DEF Turns
  <2>5. ASSUME Top(p).pc \in {"hand", "wake_consumer"} /\ Busy(p)
        PROVE  FALSE
    BY <2>4, <2>5 DEF Part, SendPCs
  <2>6. ASSUME Busy(p) /\ Top(p).pc = "free_consumers" /\ FirstConsumer(p) = c
        PROVE  FALSE
    <3>1. Takes(c, Top(p).mb)
      BY <2>6, BusyMb DEF ConsumersExact, Doer, FirstConsumer, Box
    <3> QED
      BY <2>2, <3>1 DEF Takes, Part, AsSender
  <2>7. ASSUME DropsProducer(p) /\ Top(p).pc = "wake_producer" /\ FirstProducer(p) = c
        PROVE  FALSE
    <3>1. Busy(p) /\ Top(p).mb \in Mbs /\ Box(p).isInitialized
      BY <2>7, BusyMb DEF DropsProducer, Drops, Owned, OpenPCs
    <3>2. Gives(c, Top(p).mb)
      BY <2>7, <3>1 DEF ProducersExact, FirstProducer, Box
    <3> QED
      BY <2>7, <3>2 DEF Gives
  <2>8. ASSUME WakesFirst(p) /\ Top(p).pc = "free_producers" /\ FirstProducer(p) = c
        PROVE  FALSE
    <3>1. /\ Busy(p) /\ Top(p).mb \in Mbs /\ ~Box(p).isInitialized /\ MailKept
          /\ On(p, "next_producer")
      BY <2>8, BusyMb DEF WakesFirst, Owned, FreePCs
    <3>2. Gives(c, Top(p).mb)
      BY <2>8, <3>1 DEF ProducersExact, FirstProducer, Box, Doer, BeforeProducers
    <3>3. Top(p).mb = b
      BY <3>2 DEF Gives
    <3>4. ~mbTable'[b].isInitialized
      BY <3>1, <3>3 DEF MailKept, Box
    <3>5. PICK t \in Procs : (Busy(t) /\ Top(t).mb = b /\ Top(t).pc \in BeforeProducers)'
      BY <3>4 DEF Doer
    <3>6. t # p
      BY <3>1, <3>5 DEF On, Goes, BeforeProducers
    <3>7. Busy(t) /\ Top(t).pc \in FreePCs
      BY <1>1, <3>5, <3>6 DEF Busy, Top, BeforeProducers, FreePCs
    <3>8. t \in Releasers /\ p \in Releasers
      BY <2>8, <3>1, <3>7, CallersAre DEF Turns, FreePCs
    <3> QED
      BY <3>6, <3>8, OneOfAKind
  <2>9. status'[c] = "blocked"
    BY <1>3, <2>2, <2>5, <2>6, <2>7, <2>8, WhoWakes
  <2> QED
    BY <2>1, <2>2, <2>9 DEF Gives, Sleeps
<1> QED
  BY <1>2, <1>3

\* No link leads from one sender to another.
LEMMA ProducersUnlinked ==
    ASSUME MailTypes, Turns, OneSends, Owned, ProducersSound, ProducersExact,
           NEW p \in Procs, WaitStep(p), NEW q \in Procs
    PROVE  shadowProcessTable'[q].nextProducerNode = NULL
<1>1. shadowProcessTable[q].nextProducerNode = NULL
  BY DEF ProducersExact
<1>2. CASE TableKept
  BY <1>1, <1>2 DEF TableKept
<1>3. CASE Renewed(p)
  BY <1>1, <1>3 DEF Renewed
<1>4. CASE JoinsConsumers(p)
  BY <1>1, <1>3, <1>4 DEF JoinsConsumers, Joined
<1>5. CASE JoinsProducers(p)
  BY <1>3, <1>5, ProducersEmpty DEF JoinsProducers, Joined
<1>6. CASE Between(p)
  BY <1>1, <1>3, <1>6 DEF Between
<1>7. CASE Starts(p) \/ Advances(p) \/ Mails(p) \/ TakesOff(p) \/ DropsConsumer(p)
           \/ DropsProducer(p) \/ WakesFirst(p) \/ Blocks(p)
           \/ (\E a \in Mbs : Closes(p, a) \/ Makes(p, a))
  BY <1>2, <1>3, <1>7 DEF Starts, Advances, Mails, TakesOff, DropsConsumer,
           DropsProducer, Drops, WakesFirst, Blocks, Closes, Makes
<1> QED
  BY <1>4, <1>5, <1>6, <1>7 DEF WaitStep

\* A mailbox about to wake its senders was so before, unless it was open, or the caller
\* has just made it, closed it, or taken a sender off it.
LEMMA BeforeBefore ==
    ASSUME MailTypes, Turns, NEW p \in Procs, FrameSound(p), WaitStep(p), NEW b \in Mbs,
           mbTable'[b].isInitialized \/ Doer(b, BeforeProducers)'
    PROVE  \/ mbTable[b].isInitialized \/ Doer(b, BeforeProducers)
           \/ Makes(p, b) \/ Closes(p, b)
           \/ DropsProducer(p) /\ Top(p).mb = b
<1>1. CASE mbTable'[b].isInitialized
  BY <1>1, OpenKept DEF Closes
<1>2. CASE Doer(b, BeforeProducers)'
  <2>1. PICK t \in Procs : (Busy(t) /\ Top(t).mb = b /\ Top(t).pc \in BeforeProducers)'
    BY <1>2 DEF Doer
  <2>2. CASE t # p
    BY <2>1, <2>2, WaitStepCommon DEF Doer, Busy, Top
  <2>3. CASE t = p
    <3> USE DEF Busy, BeforeProducers
    <3>1. CASE Starts(p) \/ Mails(p) \/ TakesOff(p) \/ Blocks(p)
      BY <2>1, <2>3, <3>1 DEF Starts, Mails, TakesOff, Blocks, On, Goes, Ends
    <3>2. CASE Advances(p)
      BY <2>1, <2>3, <3>2 DEF Advances, On, Goes, Ends, FrameSound, Doer
    <3>3. CASE JoinsProducers(p) \/ JoinsConsumers(p)
      BY <2>1, <2>3, <3>3 DEF JoinsProducers, JoinsConsumers, On, Goes
    <3>4. CASE DropsConsumer(p)
      BY <2>1, <2>3, <3>4 DEF DropsConsumer, Drops, On, Goes, Ends, Doer
    <3>5. CASE DropsProducer(p)
      BY <2>1, <2>3, <3>5 DEF DropsProducer, Drops, On, Goes, Ends
    <3>6. CASE WakesFirst(p)
      BY <2>1, <2>3, <3>6 DEF WakesFirst, On, Goes, Ends, Doer
    <3>7. CASE \E a \in Mbs : Closes(p, a)
      BY <2>1, <2>3, <3>7 DEF Closes
    <3>8. CASE (\E a \in Mbs : Makes(p, a)) \/ Between(p)
      BY <2>1, <2>3, <3>8 DEF Makes, Between
    <3> QED
      BY <3>1, <3>2, <3>3, <3>4, <3>5, <3>6, <3>7, <3>8 DEF WaitStep
  <2> QED
    BY <2>2, <2>3
<1> QED
  BY <1>1, <1>2

\* ProducersExact is inductive.
LEMMA ProducersExactKept ==
    ASSUME MailTypes, MailTypes', Turns, OneSends, OneOwns, Owned, ProducersSound,
           ProducersExact, ConsumersExact, NEW p \in Procs, FrameSound(p), WaitStep(p)
    PROVE  ProducersExact'
<1>1. current = p /\ \A t \in Procs \ {p} : frames'[t] = frames[t]
  BY WaitStepCommon
<1>2. ASSUME NEW b \in Mbs, NEW c \in Procs, mbTable'[b].producerQueueHead = c,
             mbTable'[b].isInitialized \/ Doer(b, BeforeProducers)'
      PROVE  Gives(c, b)'
  <2>1. CASE JoinsProducers(p) /\ c = p /\ Top(p).mb = b
    BY <2>1 DEF JoinsProducers, On, Goes, Gives, Sleeps, Busy, AsSender
  <2>2. CASE /\ mbTable[b].producerQueueHead = c /\ ~Makes(p, b)
             /\ DropsProducer(p) => Top(p).mb # b
    <3>1. mbTable[b].isInitialized \/ Doer(b, BeforeProducers)
      <4>1. CASE ~mbTable[b].isInitialized /\ Closes(p, b)
        <5>1. c # NULL /\ p \in Owners /\ ~Busy(p)
          BY <4>1, OwnersMake, MailboxAssumption DEF Closes, NULL
        <5>2. PICK s \in Procs : Busy(s) /\ Top(s).pc \in FreePCs
          BY <2>2, <4>1, <5>1 DEF ProducersExact, Doer
        <5>3. s \in Releasers
          BY <5>2, CallersAre DEF Turns
        <5> QED
          BY <5>1, <5>2, <5>3, OneOfAKind
      <4> QED
        BY <1>2, <2>2, <4>1, BeforeBefore
    <3>2. Gives(c, b)
      BY <2>2, <3>1 DEF ProducersExact
    <3> QED
      BY <1>2, <2>2, <3>2, GivesKept
  <2> QED
    BY <1>2, <2>1, <2>2, ProducerHeadFrom
<1>3. ASSUME NEW b \in Mbs, ~mbTable'[b].isInitialized, mbTable'[b].producerQueueHead # NULL
      PROVE  Doer(b, FreePCs)'
  <2>1. mbTable'[b].producerQueueHead \in Procs
    BY <1>3 DEF MailTypes, MB, Node
  <2>2. CASE JoinsProducers(p) /\ Top(p).mb = b
    BY <1>3, <2>2, ProducersEmpty DEF JoinsProducers, MailKept, Box
  <2>3. CASE mbTable[b].producerQueueHead = mbTable'[b].producerQueueHead
    <3>1. CASE mbTable[b].isInitialized
      BY <1>3, <3>1, OpenOrCloser DEF Doer, FreePCs
    <3>2. CASE ~mbTable[b].isInitialized
      <4>1. PICK s \in Procs : Busy(s) /\ Top(s).mb = b /\ Top(s).pc \in FreePCs
        BY <1>3, <2>3, <3>2 DEF ProducersExact, Doer
      <4>2. CASE s # p
        BY <1>1, <4>1, <4>2, DoerStays
      <4>3. CASE s = p
        <5>1. Busy(p)' /\ Top(p)'.mb = b /\ Top(p)'.pc \in FreePCs
          BY <1>3, <2>3, <4>1, <4>3
             DEF WaitStep, Starts, Advances, JoinsProducers, JoinsConsumers, Mails, TakesOff,
                 DropsConsumer, DropsProducer, WakesFirst, Blocks, Closes, Makes, Between,
                 On, Goes, Busy, FirstProducer, Box, FreePCs
        <5> QED
          BY <5>1 DEF Doer
      <4> QED
        BY <4>2, <4>3
    <3> QED
      BY <3>1, <3>2
  <2> QED
    BY <2>1, <2>2, <2>3, ProducerHeadFrom
<1> QED
  BY <1>2, <1>3, ProducersUnlinked DEF ProducersExact

-----------------------------------------------------------------------------
(* The mailboxes of the devices *)

\* They are never closed, and no call on them takes the way of a zero-slot mailbox.
DevicesPlain ==
    /\ \A d \in DeviceMbs : mbTable[d].isInitialized /\ mbTable[d].mailSlotLimit # 0
    /\ \A p \in Procs : Busy(p) /\ Top(p).mb \in DeviceMbs => Part(Top(p)) \notin {"hand", "leave"}

\* DevicesPlain is inductive.
LEMMA DevicesKept ==
    ASSUME MailTypes, Turns, DevicesPlain, NEW p \in Procs, FrameSound(p), WaitStep(p)
    PROVE  DevicesPlain'
<1>1. DeviceMbs \subseteq Mbs
  BY MailboxAssumption DEF Mbs
<1>2. ASSUME NEW d \in DeviceMbs
      PROVE  mbTable'[d].isInitialized /\ mbTable'[d].mailSlotLimit # 0
  <2>1. mbTable[d].isInitialized /\ mbTable[d].mailSlotLimit # 0 /\ d \in Mbs
    BY <1>1 DEF DevicesPlain
  <2>2. CASE MailKept
    BY <2>1, <2>2 DEF MailKept
  <2>3. CASE Mails(p) \/ TakesOff(p)
    BY <2>1, <2>3 DEF Mails, TakesOff
  <2>4. CASE \E b \in Mbs : Closes(p, b) \/ Makes(p, b)
    BY <2>1, <2>4 DEF Closes, Makes
  <2>5. CASE Between(p)
    BY <2>1, <2>5 DEF Between
  <2> QED
    BY <2>2, <2>3, <2>4, <2>5 DEF WaitStep, Starts, Advances, JoinsProducers, JoinsConsumers,
           DropsConsumer, DropsProducer, Drops, WakesFirst, Blocks
<1>3. ASSUME NEW q \in Procs \ {p}, Busy(q)', Top(q)'.mb \in DeviceMbs
      PROVE  Part(Top(q)') \notin {"hand", "leave"}
  BY <1>3, WaitStepCommon DEF DevicesPlain, Busy, Top
<1>4. ASSUME Busy(p)', Top(p)'.mb \in DeviceMbs
      PROVE  Part(Top(p)') \notin {"hand", "leave"}
  <2> USE DEF Busy, Part
  <2>1. CASE Starts(p)
    BY <1>4, <2>1 DEF Starts
  <2>2. CASE Advances(p)
    BY <1>4, <2>2 DEF Advances, On, Goes, Ends, DevicesPlain, FrameSound
  <2>3. CASE JoinsProducers(p) \/ JoinsConsumers(p)
    BY <1>4, <2>3 DEF JoinsProducers, JoinsConsumers, On, Goes, DevicesPlain, Box
  <2>4. CASE Mails(p) \/ TakesOff(p) \/ Blocks(p)
    BY <1>4, <2>4 DEF Mails, TakesOff, Blocks, On, Goes, Ends, DevicesPlain
  <2>5. CASE DropsConsumer(p) \/ DropsProducer(p) \/ WakesFirst(p)
    BY <1>4, <2>5 DEF DropsConsumer, DropsProducer, WakesFirst, On, Goes, Ends
  <2>6. CASE \E b \in Mbs : Closes(p, b)
    BY <1>4, <2>6 DEF Closes
  <2>7. CASE (\E b \in Mbs : Makes(p, b)) \/ Between(p)
    BY <1>4, <2>7 DEF Makes, Between, DevicesPlain, Top
  <2> QED
    BY <2>1, <2>2, <2>3, <2>4, <2>5, <2>6, <2>7 DEF WaitStep
<1> QED
  BY <1>2, <1>3, <1>4 DEF DevicesPlain

-----------------------------------------------------------------------------
(* The queues hold who waits, and nobody else *)

\* With one receiver whose buffers hold every message, and one sender.
Exact ==
    OneOwns /\ OneReceives /\ BuffersHold =>
        ConsumersExact /\ (OneSends => ProducersExact)
WaitExact == WaitSound /\ (Uninterrupted => Fits /\ DevicesPlain /\ Exact)

\* At first the queues are empty.
LEMMA InitExact == Init => WaitExact
<1> SUFFICES ASSUME Init
             PROVE  WaitExact
  OBVIOUS
<1>1. \A p \in Procs : ~Busy(p)
  BY DEF Init, Busy
<1>2. ASSUME NEW b \in Mbs
      PROVE  mbTable[b].consumerQueueHead = NULL /\ mbTable[b].producerQueueHead = NULL
  <2>1. mbTable[b] = NewMb(1) \/ mbTable[b] = [NewMb(0) EXCEPT !.isInitialized = FALSE]
    BY DEF Init
  <2> QED
    BY <2>1 DEF NewMb
<1>3. \A q \in Procs : /\ shadowProcessTable[q].nextConsumerNode = NULL
                       /\ shadowProcessTable[q].nextProducerNode = NULL
  BY DEF Init
<1>4. \A c \in Procs : c # NULL
  BY MailboxAssumption DEF NULL
<1>5. Fits
  BY <1>1 DEF Fits, Init
<1>6. DevicesPlain
  <2>1. ASSUME NEW d \in DeviceMbs
        PROVE  mbTable[d].isInitialized /\ mbTable[d].mailSlotLimit # 0
    <3>1. mbTable[d] = NewMb(1)
      BY MailboxAssumption DEF Init, Mbs
    <3> QED
      BY <3>1 DEF NewMb
  <2> QED
    BY <1>1, <2>1 DEF DevicesPlain
<1>7. Exact
  BY <1>2, <1>3, <1>4 DEF Exact, ConsumersExact, ProducersExact
<1> QED
  BY <1>5, <1>6, <1>7, InitWaits DEF WaitExact

\* A step that changes nothing these parts speak of.
LEMMA ExactUnchanged ==
    ASSUME Fits, DevicesPlain, Exact,
           UNCHANGED <<mbTable, messageSlots, shadowProcessTable, frames, status, calls>>
    PROVE  (Fits /\ DevicesPlain /\ Exact)'
<1>1. OneOwns' = OneOwns /\ OneReceives' = OneReceives /\ OneSends' = OneSends
  BY DEF OneOwns, OneReceives, OneSends, Owners, Releasers, Callers
<1>2. \A p \in Procs : Busy(p)' = Busy(p) /\ Top(p)' = Top(p)
  BY DEF Busy, Top
<1>3. \A b, pcs : Doer(b, pcs)' = Doer(b, pcs)
  BY <1>2 DEF Doer
<1>4. \A c \in Procs : \A b : Takes(c, b)' = Takes(c, b) /\ Gives(c, b)' = Gives(c, b)
  BY <1>2 DEF Takes, Gives, Sleeps
<1>5. Fits'
  BY <1>2 DEF Fits
<1>6. DevicesPlain'
  BY <1>2 DEF DevicesPlain
<1>7. ConsumersExact => ConsumersExact'
  BY <1>3, <1>4 DEF ConsumersExact
<1>8. ProducersExact => ProducersExact'
  BY <1>3, <1>4 DEF ProducersExact
<1> QED
  BY <1>1, <1>5, <1>6, <1>7, <1>8 DEF Exact

\* These parts after a step.
LEMMA ExactKept ==
    ASSUME MailTypes, MailTypes', NEW L, Sound(L), Turns, Asleep, Fits, DevicesPlain, Exact,
           NEW p \in Procs, WaitStep(p), Writes(p) \/ Quiet(p), UNCHANGED calls
    PROVE  (Fits /\ DevicesPlain /\ Exact)'
<1>1. OneOwns' = OneOwns /\ OneReceives' = OneReceives /\ OneSends' = OneSends
  BY DEF OneOwns, OneReceives, OneSends, Owners, Releasers, Callers
<1>2. FrameSound(p)
  BY DEF Sound
<1>3. Fits'
  <2>1. \A s \in Slots : messageSlots'[s].isInitialized => messageSlots'[s].message \in Messages
    BY MessagesKept
  <2> QED
    BY <2>1, BuffersKept DEF Fits
<1>4. DevicesPlain'
  BY <1>2, DevicesKept
<1>5. ASSUME OneOwns, OneReceives, BuffersHold
      PROVE  ConsumersExact' /\ (OneSends => ProducersExact')
  <2>1. ConsumersExact /\ Owned /\ ConsumersSound /\ ~Refused(p)
    BY <1>5, NotRefused DEF Exact, Asleep
  <2>2. ConsumersExact'
    BY <1>2, <1>5, <2>1, ConsumersExactKept
  <2>3. ASSUME OneSends
        PROVE  ProducersExact'
    BY <1>2, <1>5, <2>1, <2>3, ProducersExactKept DEF Exact, Asleep
  <2> QED
    BY <2>2, <2>3
<1> QED
  BY <1>1, <1>3, <1>4, <1>5 DEF Exact

\* WaitExact is inductive.
LEMMA WaitExactStep ==
    ASSUME WaitExact, [Next]_vars
    PROVE  WaitExact'
<1>1. WaitSound' /\ MailTypes /\ MailTypes'
  BY WaitSoundStep DEF WaitExact, WaitSound, Slotted
<1>2. CASE UNCHANGED vars
  BY <1>1, <1>2, ExactUnchanged DEF WaitExact, vars, memVars, cpuVars, Uninterrupted, Callers
<1>3. CASE Next
  <2>1. PICK p \in Procs : Calling(p) \/ Handler(p) \/ CallStep(p)
    BY <1>3 DEF Next
  <2>2. UNCHANGED calls /\ Uninterrupted' = Uninterrupted
    BY <2>1, CallsKept DEF Uninterrupted, Callers
  <2>3. ASSUME Uninterrupted
        PROVE  (Fits /\ DevicesPlain /\ Exact)'
    <3>1. Turns /\ Asleep /\ Fits /\ DevicesPlain /\ Exact
      BY <2>3 DEF WaitExact, WaitSound
    <3>2. PICK L : Sound(L)
      BY <2>3 DEF WaitExact, WaitSound, Slotted
    <3>3. FrameSound(p)
      BY <3>2 DEF Sound
    <3>4. Crash \/ WaitStep(p)
      BY <1>1, <2>1, <2>3, <3>3, NoHandler, WaitSteps
    <3>5. Crash \/ Writes(p) \/ Quiet(p)
      BY <1>1, <2>1, <2>3, <3>3, NoHandler, StepKinds
    <3>6. CASE Crash
      BY <3>1, <3>6, ExactUnchanged DEF Crash, memVars
    <3>7. CASE WaitStep(p) /\ (Writes(p) \/ Quiet(p))
      BY <1>1, <2>2, <3>1, <3>2, <3>7, ExactKept
    <3> QED
      BY <3>4, <3>5, <3>6, <3>7
  <2> QED
    BY <1>1, <2>2, <2>3 DEF WaitExact
<1> QED
  BY <1>2, <1>3

\* WaitExact holds throughout.
LEMMA WaitExactAlways == Spec => []WaitExact
<1>1. Init => WaitExact
  BY InitExact
<1>2. WaitExact /\ [Next]_vars => WaitExact'
  BY WaitExactStep
<1> QED
  BY <1>1, <1>2, PTL DEF Spec

\* When only the sentinel is left, phase2_check_io tells it the truth: somebody is queued
\* for a device exactly when somebody is asleep on one.  With one receiver, one sender and
\* one process that makes and releases, and buffers that hold every message: a receiver
\* whose buffer is too small returns -1 and stays in its queue.
THEOREM SentinelKnowsDevices ==
    Spec => [](OneReceives /\ OneSends /\ Uninterrupted /\ OneOwns /\ BuffersHold
                    => SentinelKnows)
<1>1. ASSUME WaitExact, OneReceives, OneSends, Uninterrupted, OneOwns, BuffersHold
      PROVE  SentinelKnows
  <2> SUFFICES ASSUME current = Sentinel, frames[Sentinel] = <<>>
               PROVE  phase2_check_io <=> \E p \in Procs, d \in DeviceMbs :
                                    \/ Waits(p, d, "copy") \/ Waits(p, d, "mail")
    BY DEF SentinelKnows
  <2>1. /\ MailTypes /\ Turns /\ Asleep /\ Fits /\ DevicesPlain /\ Exact
        /\ ConsumersSound /\ ProducersSound /\ ConsumersExact /\ ProducersExact
    BY <1>1 DEF WaitExact, WaitSound, Slotted, Exact, Asleep
  <2>2. PICK L : Sound(L)
    BY <1>1 DEF WaitExact, WaitSound, Slotted
  <2>3. DeviceMbs \subseteq Mbs /\ \A c \in Procs : c # NULL
    BY MailboxAssumption DEF Mbs, NULL
  <2>4. ASSUME NEW c \in Procs, Busy(c)
        PROVE  status[c] = "blocked" /\ Top(c).pc = "resumed"
                    /\ Top(c).then \in {"mail", "hand", "copy", "leave"}
    <3>1. c # Sentinel
      BY <2>4 DEF Busy
    <3>2. status[c] = "blocked"
      BY <2>1, <3>1 DEF Turns, SentinelLast
    <3>3. Top(c).pc = "resumed"
      BY <2>1, <3>2 DEF Turns, Turn
    <3> QED
      BY <2>2, <2>4, <3>2, <3>3 DEF Sound, FrameSound
  <2>5. ASSUME NEW d \in DeviceMbs, mbTable[d].consumerQueueHead # NULL
        PROVE  \E p \in Procs : Waits(p, d, "copy")
    <3>1. PICK c \in Procs : mbTable[d].consumerQueueHead = c
      BY <2>1, <2>3, <2>5 DEF MailTypes, MB, Node
    <3>2. Takes(c, d)
      BY <2>1, <2>3, <3>1 DEF ConsumersExact, DevicesPlain
    <3>3. Part(Top(c)) \in {"copy", "pop"}
      BY <2>1, <3>2 DEF Takes, DevicesPlain
    <3>4. Waits(c, d, "copy")
      BY <2>4, <3>2, <3>3 DEF Takes, Part, Waits, Busy
    <3> QED
      BY <3>4
  <2>6. ASSUME NEW d \in DeviceMbs, mbTable[d].producerQueueHead # NULL
        PROVE  \E p \in Procs : Waits(p, d, "mail")
    <3>1. PICK c \in Procs : mbTable[d].producerQueueHead = c
      BY <2>1, <2>3, <2>6 DEF MailTypes, MB, Node
    <3>2. Gives(c, d)
      BY <2>1, <2>3, <3>1 DEF ProducersExact, DevicesPlain
    <3>3. Part(Top(c)) = "mail"
      BY <2>1, <2>4, <3>2 DEF Gives, DevicesPlain, Part, Sleeps, AsSender
    <3>4. Waits(c, d, "mail")
      BY <2>4, <3>2, <3>3 DEF Gives, Part, Waits, Busy
    <3> QED
      BY <3>4
  <2>7. ASSUME NEW p \in Procs, NEW d \in DeviceMbs, Waits(p, d, "copy")
        PROVE  mbTable[d].consumerQueueHead # NULL
    <3>1. Sleeps(p, AsReceiver) /\ Top(p).mb = d
      BY <2>1, <2>7, WaitsSleeps DEF AsReceiver, Sleeps
    <3> QED
      BY <2>1, <2>3, <3>1 DEF ConsumersSound, Box
  <2>8. ASSUME NEW p \in Procs, NEW d \in DeviceMbs, Waits(p, d, "mail")
        PROVE  mbTable[d].producerQueueHead # NULL
    <3>1. Sleeps(p, AsSender) /\ Top(p).mb = d
      BY <2>1, <2>8, WaitsSleeps DEF AsSender, Sleeps
    <3> QED
      BY <2>1, <2>3, <3>1 DEF ProducersSound, Box
  <2> QED
    BY <2>5, <2>6, <2>7, <2>8 DEF phase2_check_io
<1>2. WaitExact => (OneReceives /\ OneSends /\ Uninterrupted /\ OneOwns /\ BuffersHold
                        => SentinelKnows)
  BY <1>1
<1> QED
  BY <1>2, WaitExactAlways, PTL

-----------------------------------------------------------------------------
(* No call follows a null pointer *)

\* One receiver, who also releases what is released, and no call that wakes it before
\* the message is there; no mailbox without slots; buffers that hold every message.
Orderly ==
    /\ OneReceives /\ OneOwns /\ NoConds /\ Uninterrupted
    /\ Releasers \subseteq Receivers
    /\ 0 \notin SlotLimits /\ BuffersHold

NoZero == \A b \in Mbs : mbTable[b].isInitialized => mbTable[b].mailSlotLimit # 0

\* What each step is about to follow is there.
ReadyAt(p) ==
    Busy(p) =>
        /\ Part(Top(p)) \notin {"hand", "leave"}
        /\ Part(Top(p)) \in {"copy", "pop"} =>
                Box(p).isInitialized /\ Box(p).consumerQueueHead = p
        /\ \/ Part(Top(p)) = "copy" /\ ~Sleeps(p, {"copy"})
           \/ Top(p).pc = "look" /\ Top(p).call = "MboxCondRecv"
           \/ Top(p).pc = "wake_consumer"
           => Box(p).mailSlotQueueHead # NULL
        /\ Top(p).pc # "next_consumer"
        /\ Top(p).pc = "next_producer" => Box(p).producerQueueHead # NULL
Ready == NoZero /\ \A p \in Procs : ReadyAt(p)

\* The mailboxes made have slots.
LEMMA NoZeroKept ==
    ASSUME MailTypes, NoZero, 0 \notin SlotLimits, NEW p \in Procs, WaitStep(p)
    PROVE  NoZero'
<1> SUFFICES ASSUME NEW b \in Mbs, mbTable'[b].isInitialized
             PROVE  mbTable'[b].mailSlotLimit # 0
  BY DEF NoZero
<1>1. mbTable[b].isInitialized => mbTable[b].mailSlotLimit # 0
  BY DEF NoZero
<1>2. CASE MailKept
  BY <1>1, <1>2 DEF MailKept
<1>3. CASE Mails(p) \/ TakesOff(p)
  BY <1>1, <1>3 DEF Mails, TakesOff
<1>4. CASE \E a \in Mbs : Closes(p, a)
  BY <1>1, <1>4 DEF Closes
<1>5. CASE \E a \in Mbs : Makes(p, a)
  <2>1. PICK a \in Mbs : Makes(p, a)
    BY <1>5
  <2>2. CASE a = b
    <3>1. PICK n \in SlotLimits : mbTable'[b] = NewMb(n)
      BY <2>1, <2>2 DEF Makes
    <3> QED
      BY <3>1 DEF NewMb
  <2> QED
    BY <1>1, <2>1, <2>2 DEF Makes
<1>6. CASE Between(p)
  BY <1>1, <1>6 DEF Between
<1> QED
  BY <1>2, <1>3, <1>4, <1>5, <1>6 DEF WaitStep, Starts, Advances, JoinsProducers, JoinsConsumers,
         DropsConsumer, DropsProducer, Drops, WakesFirst, Blocks

\* The receiver's mailbox stays open and keeps its receiver and its messages while
\* another process has the CPU.
LEMMA ReceiversBox ==
    ASSUME MailTypes, Turns, Orderly, NEW p \in Procs, WaitStep(p), NEW q \in Procs \ {p},
           q \in Receivers, Busy(q), Box(q).isInitialized
    PROVE  /\ mbTable'[Top(q).mb].isInitialized
           /\ mbTable'[Top(q).mb].consumerQueueHead = Box(q).consumerQueueHead
           /\ Box(q).mailSlotQueueHead # NULL => mbTable'[Top(q).mb].mailSlotQueueHead # NULL
<1> DEFINE b == Top(q).mb
<1>1. b \in Mbs
  BY BusyMb
<1>2. p \notin Receivers /\ p \notin Releasers
  BY OneOfAKind DEF Orderly
<1>3. ~(Busy(p) /\ (Part(Top(p)) \in RecvPCs \/ Top(p).pc \in FreePCs))
  BY <1>2, CallersAre DEF Turns
<1>4. CASE MailKept /\ HeadsKept
  BY <1>1, <1>4 DEF MailKept, HeadsKept, Box
<1>5. CASE Mails(p)
  BY <1>1, <1>5 DEF Mails, HeadsKept, Box
<1>6. CASE JoinsProducers(p)
  BY <1>1, <1>6 DEF JoinsProducers, Joined, HeadIs, HeadsKept, Waiting, MailKept, Box
<1>7. CASE DropsProducer(p)
  BY <1>1, <1>7 DEF DropsProducer, Drops, HeadIs, Waiting, MailKept, Box
<1>8. CASE \E a \in Mbs : Makes(p, a)
  BY <1>1, <1>8 DEF Makes, Box
<1>9. CASE Between(p)
  BY <1>9 DEF Between, Box
<1>10. ASSUME \/ JoinsConsumers(p) \/ TakesOff(p) \/ DropsConsumer(p)
              \/ \E a \in Mbs : Closes(p, a)
       PROVE  FALSE
  <2>1. ~\E a \in Mbs : Closes(p, a)
    BY <1>2 DEF Closes, Releasers, Callers
  <2> QED
    BY <1>3, <1>10, <2>1 DEF JoinsConsumers, TakesOff, DropsConsumer, Drops, Part, RecvPCs, FreePCs
<1> QED
  BY <1>4, <1>5, <1>6, <1>7, <1>8, <1>9, <1>10 DEF WaitStep, Starts, Advances, WakesFirst, Blocks

\* The receiver is woken to a message.
LEMMA WokenToMail ==
    ASSUME MailTypes, Turns, Orderly, Ready, ConsumersExact, NEW p \in Procs, WaitStep(p),
           NEW q \in Procs \ {p}, Busy(q), Part(Top(q)) = "copy",
           status[q] = "blocked", status'[q] # "blocked"
    PROVE  Box(q).mailSlotQueueHead # NULL
<1>1. q \in Receivers
  BY CallersAre DEF Turns, RecvPCs
<1>2. p \notin Receivers /\ p \notin Releasers
  BY <1>1, OneOfAKind DEF Orderly
<1>3. ~(Busy(p) /\ (Part(Top(p)) \in RecvPCs \/ Top(p).pc \in FreePCs))
  BY <1>2, CallersAre DEF Turns
<1>4. Busy(p) /\ Top(p).pc = "wake_consumer" /\ FirstConsumer(p) = q
  <2>1. ~(Busy(p) /\ Top(p).pc = "hand")
    BY DEF Ready, ReadyAt, Part
  <2>2. ~(Busy(p) /\ Top(p).pc \in {"free_consumers", "wake_producer", "free_producers"})
    BY <1>3 DEF Part, RecvPCs, FreePCs
  <2>3. DropsProducer(p) \/ WakesFirst(p) => Busy(p)
    BY DEF DropsProducer, Drops, WakesFirst
  <2> QED
    BY <2>1, <2>2, <2>3, WhoWakes
<1>5. Top(p).mb \in Mbs /\ mbTable[Top(p).mb].consumerQueueHead = q /\ q # NULL
  BY <1>4, BusyMb, MailboxAssumption DEF FirstConsumer, Box, NULL
<1>6. mbTable[Top(p).mb].isInitialized
  <2> SUFFICES ASSUME ~mbTable[Top(p).mb].isInitialized
               PROVE  FALSE
    OBVIOUS
  <2>1. PICK t \in Procs : Busy(t) /\ Top(t).pc \in {"free_consumers", "next_consumer"}
    BY <1>5 DEF ConsumersExact, Doer
  <2>2. t \in Receivers
    BY <2>1, CallersAre DEF Turns, Orderly, FreePCs
  <2>3. t = q
    BY <1>1, <2>2, OneOfAKind DEF Orderly
  <2> QED
    BY <2>1, <2>3 DEF Part
<1>7. Takes(q, Top(p).mb)
  BY <1>5, <1>6 DEF ConsumersExact
<1> QED
  BY <1>4, <1>7 DEF Takes, Ready, ReadyAt, Box

\* A step leaves the others ready.
LEMMA OthersReady ==
    ASSUME MailTypes, MailTypes', Turns, Orderly, Owned, Ready, ConsumersExact,
           NEW p \in Procs, WaitStep(p), NEW q \in Procs \ {p}
    PROVE  ReadyAt(q)'
<1> SUFFICES ASSUME Busy(q)'
             PROVE  ReadyAt(q)'
  BY DEF ReadyAt
<1>1. current = p /\ Top(q)' = Top(q) /\ Busy(q) /\ Top(q).mb \in Mbs
  BY WaitStepCommon, BusyMb DEF Busy, Top
<1>2. Top(q).pc \in OffCPU
  BY <1>1 DEF Turns, Turn
<1>3. ReadyAt(q)
  BY DEF Ready
<1>4. ASSUME Part(Top(q)) \in {"copy", "pop"}
      PROVE  /\ Box(q)'.isInitialized /\ Box(q)'.consumerQueueHead = q
             /\ Part(Top(q)) = "copy" /\ ~Sleeps(q, {"copy"})' => Box(q)'.mailSlotQueueHead # NULL
  <2>1. q \in Receivers /\ Box(q).isInitialized /\ Box(q).consumerQueueHead = q
    BY <1>1, <1>3, <1>4, CallersAre DEF Turns, RecvPCs, ReadyAt
  <2>2. ASSUME Part(Top(q)) = "copy", ~Sleeps(q, {"copy"})'
        PROVE  Box(q).mailSlotQueueHead # NULL
    <3>1. CASE ~Sleeps(q, {"copy"})
      BY <1>1, <1>3, <2>2, <3>1 DEF ReadyAt
    <3>2. CASE Sleeps(q, {"copy"})
      <4>1. status[q] = "blocked" /\ status'[q] # "blocked"
        BY <1>1, <1>2, <2>2, <3>2 DEF Sleeps, OffCPU, Busy
      <4> QED
        BY <1>1, <2>2, <4>1, WokenToMail
    <3> QED
      BY <3>1, <3>2
  <2> QED
    BY <1>1, <2>1, <2>2, ReceiversBox DEF Box
<1>5. ASSUME Top(q).pc = "next_producer"
      PROVE  Box(q)'.producerQueueHead # NULL
  <2> DEFINE b == Top(q).mb
  <2>1. q \in Releasers /\ q \in Receivers /\ ~mbTable[b].isInitialized
    BY <1>1, <1>5, CallersAre DEF Turns, FreePCs, Orderly, Owned, Box
  <2>2. p \notin Owners /\ p \notin Releasers /\ p \notin Receivers
    BY <2>1, OneOfAKind DEF Orderly
  <2>3. ~(Busy(p) /\ (Part(Top(p)) \in RecvPCs \/ Top(p).pc \in FreePCs))
    BY <2>2, CallersAre DEF Turns
  <2>4. mbTable[b].producerQueueHead # NULL /\ p # NULL
    BY <1>1, <1>3, <1>5, MailboxAssumption DEF ReadyAt, Box, NULL
  <2>5. mbTable'[b].producerQueueHead # NULL
    <3>1. CASE HeadsKept
      BY <1>1, <2>4, <3>1 DEF HeadsKept
    <3>2. CASE JoinsProducers(p)
      BY <1>1, <2>4, <3>1, <3>2 DEF JoinsProducers, Joined, HeadIs, Waiting
    <3>3. CASE DropsProducer(p)
      <4>1. ~(Busy(p) /\ Top(p).pc = "hand")
        BY DEF Ready, ReadyAt, Part
      <4>2. ~(Busy(p) /\ Top(p).pc \in {"wake_producer", "next_producer"})
        BY <2>3 DEF Part, RecvPCs, FreePCs
      <4> QED
        BY <3>3, <4>1, <4>2 DEF DropsProducer, Drops
    <3>4. ~(JoinsConsumers(p) \/ TakesOff(p) \/ DropsConsumer(p))
      BY <2>3 DEF JoinsConsumers, TakesOff, DropsConsumer, Drops, Part, RecvPCs, FreePCs
    <3>5. ~\E a \in Mbs : Closes(p, a) \/ Makes(p, a)
      BY <2>2, OwnersMake
    <3>6. CASE Between(p)
      BY <2>4, <3>6 DEF Between
    <3> QED
      BY <3>1, <3>2, <3>3, <3>4, <3>5, <3>6 DEF WaitStep, Starts, Advances, Mails, WakesFirst, Blocks
  <2> QED
    BY <1>1, <2>5 DEF Box
<1> QED
  BY <1>1, <1>2, <1>3, <1>4, <1>5 DEF ReadyAt, OffCPU, Part

\* The process that takes the step is ready for the next.
LEMMA ActorReady ==
    ASSUME MailTypes, MailTypes', Turns, Orderly, Owned, Ready, ConsumersSound, ConsumersExact,
           NEW p \in Procs, FrameSound(p), WaitStep(p)
    PROVE  ReadyAt(p)'
<1> SUFFICES ASSUME Busy(p)'
             PROVE  ReadyAt(p)'
  BY DEF ReadyAt
<1>1. ReadyAt(p) /\ (Busy(p) => Top(p).mb \in Mbs /\ Top(p).call \in calls[p])
  BY BusyMb DEF Ready, Turns, Turn
<1>2. current = p /\ status[p] # "blocked"
  BY WaitStepCommon DEF Turns, Turn
<1>3. ASSUME NEW pc, Busy(p), Top(p)'.pc = pc,
             pc \notin {"copy", "pop", "look", "leave", "hand", "block", "resumed", "wake_consumer",
                        "next_consumer", "next_producer"}
      PROVE  ReadyAt(p)'
  BY <1>3 DEF ReadyAt, Part
<1>4. CASE Starts(p)
  BY <1>4 DEF Starts, ReadyAt, Part, Box, MailKept, SendCalls, RecvCalls
<1>5. CASE Advances(p)
  <2>1. Busy(p) /\ MailKept /\ HeadsKept /\ Top(p)'.mb = Top(p).mb /\ Top(p)'.call = Top(p).call
        /\ Top(p)'.then = Top(p).then
    BY <1>5 DEF Advances, On, Goes, Ends, Busy
  <2>2. CASE Top(p).pc = "resumed" /\ Box(p).isInitialized /\ On(p, Top(p).then)
    <3>1. Top(p).then \in {"mail", "hand", "copy", "leave"} /\ ~Sleeps(p, {"copy"})
      BY <1>2, <2>1, <2>2 DEF FrameSound, Sleeps
    <3>2. Top(p)'.pc = Top(p).then
      BY <2>2 DEF On, Goes
    <3> QED
      BY <1>1, <2>1, <2>2, <3>1, <3>2 DEF ReadyAt, Part, Box, MailKept, HeadsKept
  <2>3. CASE Top(p).pc = "copy" /\ On(p, "pop")
    BY <1>1, <2>1, <2>3 DEF ReadyAt, Part, Box, MailKept, HeadsKept, On, Goes
  <2>4. Top(p).call # "MboxCondSend"
    BY <1>1, <2>1 DEF Orderly, NoConds, Callers
  <2>5. CASE \E pc \in {"take", "room", "loop", "mail", "return_size", "free_producers"} : On(p, pc)
    BY <1>3, <2>1, <2>5 DEF On, Goes
  <2> QED
    BY <1>5, <2>2, <2>3, <2>4, <2>5 DEF Advances, Ends, Busy
<1>6. CASE JoinsProducers(p)
  <2>1. Busy(p) /\ Top(p).pc = "room" /\ Box(p).mailSlotLimit # 0
    BY <1>1, <1>6 DEF JoinsProducers, Owned, OpenPCs, Ready, NoZero, Box
  <2> QED
    BY <1>6, <2>1 DEF JoinsProducers, On, Goes, ReadyAt, Part
<1>7. CASE JoinsConsumers(p)
  <2>1. /\ Busy(p) /\ Top(p).pc = "look" /\ Box(p).mailSlotLimit # 0 /\ Box(p).isInitialized
        /\ MailKept /\ Top(p)'.mb = Top(p).mb
    BY <1>1, <1>7 DEF JoinsConsumers, Owned, OpenPCs, Ready, NoZero, Box, On, Goes
  <2>2. HeadIs(Top(p).mb, "consumerQueueHead", p)
    BY <1>7, ConsumersEmpty DEF JoinsConsumers, Joined, Orderly
  <2>3. Box(p)'.isInitialized /\ Box(p)'.consumerQueueHead = p
    BY <1>1, <2>1, <2>2 DEF Box, MailKept, HeadIs
  <2>4. CASE Goes(p, "block", "copy")
    BY <1>7, <2>3, <2>4 DEF Goes, ReadyAt, Part, Sleeps, Busy
  <2>5. CASE On(p, "copy")
    <3>1. Box(p).mailSlotQueueHead # NULL
      BY <1>1, <1>7, <2>1, <2>5 DEF JoinsConsumers, ReadyAt, On, Goes
    <3>2. Box(p)'.mailSlotQueueHead # NULL
      BY <1>1, <2>1, <3>1 DEF Box, MailKept
    <3> QED
      BY <2>3, <2>5, <3>2 DEF On, Goes, ReadyAt, Part
  <2> QED
    BY <1>7, <2>1, <2>4, <2>5 DEF JoinsConsumers
<1>8. CASE Mails(p)
  BY <1>1, <1>8 DEF Mails, On, Goes, Ends, Busy, ReadyAt, Part, Box
<1>9. CASE TakesOff(p) \/ DropsConsumer(p) \/ DropsProducer(p)
  BY <1>3, <1>9 DEF TakesOff, DropsConsumer, DropsProducer, Drops, On, Goes, Ends, Busy
<1>10. CASE WakesFirst(p)
  <2>1. Busy(p) /\ HeadsKept /\ Top(p).call # "MboxCondSend"
    BY <1>1, <1>10 DEF WakesFirst, Orderly, NoConds, Callers
  <2>2. ASSUME Top(p).pc = "free_consumers", FirstConsumer(p) # NULL
        PROVE  FALSE
    <3>1. p \in Receivers
      BY <2>1, <2>2, CallersAre DEF Turns, FreePCs, Orderly
    <3>2. FirstConsumer(p) \in Receivers
      BY <1>1, <2>1, <2>2 DEF ConsumersSound, FirstConsumer, Box
    <3>3. FirstConsumer(p) = p
      BY <3>1, <3>2, OneOfAKind DEF Orderly, Receivers, Callers
    <3>4. Takes(p, Top(p).mb)
      BY <1>1, <2>1, <2>2, <3>3 DEF ConsumersExact, FirstConsumer, Box, Doer
    <3> QED
      BY <2>2, <3>4 DEF Takes, Part
  <2>3. CASE Top(p).pc = "free_producers" /\ FirstProducer(p) # NULL /\ On(p, "next_producer")
    BY <1>1, <2>1, <2>3 DEF On, Goes, HeadsKept, FirstProducer, Box, ReadyAt, Part
  <2> QED
    BY <1>10, <2>1, <2>2, <2>3 DEF WakesFirst, Ends, Busy
<1>11. CASE Blocks(p)
  <2>1. /\ Busy(p) /\ Top(p).pc = "block" /\ On(p, "resumed") /\ status'[p] = "blocked"
        /\ MailKept /\ HeadsKept
    BY <1>11 DEF Blocks, Turned
  <2> QED
    BY <1>1, <2>1 DEF On, Goes, ReadyAt, Part, Sleeps, Box, MailKept, HeadsKept, Busy
<1>12. CASE \E b \in Mbs : Closes(p, b)
  BY <1>12 DEF Closes, ReadyAt, Part
<1>13. CASE (\E b \in Mbs : Makes(p, b)) \/ Between(p)
  BY <1>13 DEF Makes, Between, Busy
<1> QED
  BY <1>4, <1>5, <1>6, <1>7, <1>8, <1>9, <1>10, <1>11, <1>12, <1>13 DEF WaitStep

\* A null pointer is followed only at these steps.
LEMMA CrashFrom ==
    ASSUME NEW p \in Procs, Calling(p) \/ CallStep(p), ~fault, fault'
    PROVE  \/ At(p, "hand") /\ (FirstProducer(p) = NULL \/ FirstConsumer(p) = NULL)
           \/ At(p, "leave") /\ FirstConsumer(p) = NULL
           \/ At(p, "copy") /\ Box(p).mailSlotQueueHead = NULL
           \/ At(p, "pop") /\ (FirstConsumer(p) = NULL \/ Box(p).mailSlotQueueHead = NULL)
           \/ At(p, "next_consumer")
           \/ At(p, "next_producer") /\ FirstProducer(p) = NULL
<1> USE DEF Dispatch, unblockProc, cpuVars
<1>1. CASE Calling(p)
  BY <1>1 DEF Calling, MboxSend, MboxCondSend, MboxRecv, MboxCondRecv, StartRecv,
              waitDevice, MboxRelease, MboxCreate, Yield, Replace
<1>2. CASE FindSlot(p) \/ TakeSlot(p) \/ addToProducerQueue(p) \/ HandOver(p) \/ addToMailQueue(p)
  BY <1>2 DEF FindSlot, TakeSlot, addToProducerQueue, HandOver, addToMailQueue
<1>3. CASE WakeConsumer(p) \/ addToConsumerQueue(p) \/ Leave(p) \/ CopyMail(p) \/ PopMail(p)
  BY <1>3 DEF WakeConsumer, addToConsumerQueue, Leave, CopyMail, PopMail
<1>4. CASE WakeProducer(p) \/ ReturnSize(p) \/ BlockMe(p) \/ Resumed(p)
  BY <1>4 DEF WakeProducer, ReturnSize, BlockMe, Resumed
<1>5. CASE FreeConsumers(p) \/ FreeProducers(p)
  BY <1>5 DEF FreeConsumers, FreeProducers, FreeQueue, FreeNext, FirstProducer
<1> QED
  BY <1>1, <1>2, <1>3, <1>4, <1>5 DEF CallStep

\* Ready processes follow no null pointer.
LEMMA ReadyNoCrash ==
    ASSUME MailTypes, Turns, Ready, ~fault, NEW p \in Procs, FrameSound(p),
           Calling(p) \/ CallStep(p)
    PROVE  ~fault'
<1> SUFFICES ASSUME fault'
             PROVE  FALSE
  OBVIOUS
<1>1. ReadyAt(p) /\ p # NULL
  BY MailboxAssumption DEF Ready, NULL
<1>2. \A pc : At(p, pc) => Busy(p) /\ current = p /\ Top(p).pc = pc /\ status[p] # "blocked"
  BY DEF At, Busy, Turns, Turn
<1>3. ~At(p, "hand") /\ ~At(p, "leave") /\ ~At(p, "next_consumer")
  BY <1>1, <1>2 DEF ReadyAt, Part
<1>4. ~(At(p, "copy") /\ Box(p).mailSlotQueueHead = NULL)
  BY <1>1, <1>2 DEF ReadyAt, Part, Sleeps
<1>5. ~(At(p, "pop") /\ (FirstConsumer(p) = NULL \/ Box(p).mailSlotQueueHead = NULL))
  BY <1>1, <1>2 DEF ReadyAt, Part, FirstConsumer, FrameSound, Slots, NULL
<1>6. ~(At(p, "next_producer") /\ FirstProducer(p) = NULL)
  BY <1>1, <1>2 DEF ReadyAt, FirstProducer
<1> QED
  BY <1>3, <1>4, <1>5, <1>6, CrashFrom

\* With the order in which the mailboxes are used that Orderly asks for.
NeverCrashes == WaitExact /\ (Orderly => Ready /\ ~fault)

\* At first nobody is in a call.
LEMMA InitNeverCrashes == Init => NeverCrashes
<1> SUFFICES ASSUME Init
             PROVE  NeverCrashes
  OBVIOUS
<1>1. NoZero
  <2>1. ASSUME NEW b \in Mbs, mbTable[b].isInitialized
        PROVE  mbTable[b].mailSlotLimit # 0
    <3>1. mbTable[b] = NewMb(1) \/ mbTable[b] = [NewMb(0) EXCEPT !.isInitialized = FALSE]
      BY DEF Init
    <3> QED
      BY <2>1, <3>1 DEF NewMb
  <2> QED
    BY <2>1 DEF NoZero
<1>2. \A p \in Procs : ReadyAt(p)
  BY DEF Init, ReadyAt, Busy
<1> QED
  BY <1>1, <1>2, InitExact DEF NeverCrashes, Ready, Init

\* NeverCrashes is inductive.
LEMMA NeverCrashesStep ==
    ASSUME NeverCrashes, [Next]_vars
    PROVE  NeverCrashes'
<1>1. WaitExact /\ WaitExact' /\ MailTypes /\ MailTypes'
  BY WaitExactStep DEF NeverCrashes, WaitExact, WaitSound, Slotted
<1>2. CASE UNCHANGED vars
  <2>1. Orderly' = Orderly
    BY <1>2 DEF vars, cpuVars, Orderly, OneReceives, OneOwns, NoConds, Uninterrupted, Receivers,
                Owners, Releasers, Callers
  <2>2. \A p \in Procs : ReadyAt(p)' = ReadyAt(p)
    BY <1>2 DEF vars, memVars, cpuVars, ReadyAt, Sleeps, Busy, Top, Box
  <2>3. NoZero' = NoZero
    BY <1>2 DEF vars, memVars, NoZero
  <2> QED
    BY <1>1, <1>2, <2>1, <2>2, <2>3 DEF NeverCrashes, Ready, vars, cpuVars
<1>3. CASE Next
  <2>1. PICK p \in Procs : Calling(p) \/ Handler(p) \/ CallStep(p)
    BY <1>3 DEF Next
  <2>2. Orderly' = Orderly
    BY <2>1, CallsKept DEF Orderly, OneReceives, OneOwns, NoConds, Uninterrupted, Receivers,
                Owners, Releasers, Callers
  <2>3. ASSUME Orderly
        PROVE  Ready' /\ ~fault'
    <3>1. /\ Turns /\ Owned /\ ConsumersSound /\ ConsumersExact /\ Ready /\ ~fault
          /\ Calling(p) \/ CallStep(p)
      BY <1>1, <2>1, <2>3, NoHandler
         DEF NeverCrashes, WaitExact, WaitSound, Asleep, Exact, Orderly
    <3>2. FrameSound(p)
      BY <1>1, <2>3 DEF WaitExact, WaitSound, Slotted, Sound, Orderly
    <3>3. ~fault'
      BY <1>1, <3>1, <3>2, ReadyNoCrash
    <3>4. WaitStep(p)
      BY <1>1, <3>1, <3>2, <3>3, WaitSteps DEF Crash
    <3>5. NoZero'
      BY <1>1, <2>3, <3>1, <3>4, NoZeroKept DEF Ready, Orderly
    <3>6. ReadyAt(p)'
      BY <1>1, <2>3, <3>1, <3>2, <3>4, ActorReady
    <3>7. \A q \in Procs \ {p} : ReadyAt(q)'
      BY <1>1, <2>3, <3>1, <3>4, OthersReady
    <3> QED
      BY <3>3, <3>5, <3>6, <3>7 DEF Ready
  <2> QED
    BY <1>1, <2>2, <2>3 DEF NeverCrashes
<1> QED
  BY <1>2, <1>3

\* NeverCrashes holds throughout.
LEMMA NeverCrashesAlways == Spec => []NeverCrashes
<1>1. Init => NeverCrashes
  BY InitNeverCrashes
<1>2. NeverCrashes /\ [Next]_vars => NeverCrashes'
  BY NeverCrashesStep
<1> QED
  BY <1>1, <1>2, PTL DEF Spec

\* A receiver that is woken finds a message, though it does not look for one again, and
\* no call takes the head of an empty queue: with one receiver, who also releases what is
\* released; without zero-slot mailboxes; with buffers that hold every message.
THEOREM NoNullPointer ==
    Spec => [](/\ OneOwns /\ Uninterrupted /\ Releasers \subseteq Receivers
               /\ 0 \notin SlotLimits /\ BuffersHold
               => NoCrash)
<1>1. ASSUME NeverCrashes
      PROVE  /\ OneOwns /\ Uninterrupted /\ Releasers \subseteq Receivers
             /\ 0 \notin SlotLimits /\ BuffersHold
             => NoCrash
  BY <1>1 DEF NeverCrashes, Orderly, NoCrash, NoConds
<1> QED
  BY <1>1, NeverCrashesAlways, PTL
=============================================================================
