--------------------------- MODULE DirListingProofs ---------------------------
(***************************************************************************)
(* Proofs about DirListing, for every directory and every size of a page.   *)
(***************************************************************************)
EXTENDS DirListing, SequenceTheorems, FiniteSetTheorems, NatFacts, TLAPS

-----------------------------------------------------------------------------
(* The order of entries.                                                    *)

Orderable == [isDir : BOOLEAN, name : Nat]
IsSlot(s) == s.isDir \in BOOLEAN /\ s.name \in Nat

LEMMA BeforeOrder ==
  ASSUME NEW a, IsSlot(a), NEW b, IsSlot(b), NEW c, IsSlot(c)
  PROVE  /\ Before(a, b) => ~Before(b, a)
         /\ ~Before(a, b) /\ ~Before(b, c) => ~Before(a, c)
         /\ Before(a, b) /\ Before(b, c) => Before(a, c)
         /\ Before(a, b) \/ Before(b, a) \/ (a.isDir = b.isDir /\ a.name = b.name)
         /\ ~Before(a, a)
<1>1. /\ a.isDir = TRUE \/ a.isDir = FALSE
      /\ b.isDir = TRUE \/ b.isDir = FALSE
      /\ c.isDir = TRUE \/ c.isDir = FALSE
  BY DEF IsSlot
<1> QED BY <1>1 DEF IsSlot, Before

-----------------------------------------------------------------------------
(* Inserting a slot.                                                        *)

Slots == [isDir : BOOLEAN, name : Nat, idx : Nat]
Ordered(slots) == \A j, k \in DOMAIN slots : j < k => ~Before(slots[k], slots[j])

\* Where the shifting stops.
LEMMA PositionExists ==
  ASSUME NEW kept \in Seq(Slots), NEW slot \in Slots
  PROVE  \E i \in 1 .. Len(kept) + 1 :
           /\ \A j \in i .. Len(kept) : Before(slot, kept[j])
           /\ i > 1 => ~Before(slot, kept[i - 1])
<1> DEFINE n == Len(kept)
           T == {i \in 1 .. n + 1 : \A j \in i .. n : Before(slot, kept[j])}
<1>0. n \in Nat
  OBVIOUS
<1>1. n + 1 \in T
  BY <1>0
<1>2. PICK i \in T : \A m \in T : i <= m
  <2>1. T \in SUBSET Nat /\ T # {}
    BY <1>0, <1>1
  <2> QED BY <2>1, SmallestNat
<1>3. i > 1 => ~Before(slot, kept[i - 1])
  <2> SUFFICES ASSUME i > 1, Before(slot, kept[i - 1])
               PROVE  FALSE
    OBVIOUS
  <2>1. \A j \in i - 1 .. n : j = i - 1 \/ j \in i .. n
    BY <1>0, <1>2
  <2>2. i - 1 \in T
    BY <1>0, <1>2, <2>1
  <2> QED BY <1>2, <2>2
<1> QED BY <1>2, <1>3

\* The new slots, place by place: the first n of the old ones stay.
InsertedAt(new, slots, n, i, slot) ==
  /\ new \in Seq(Slots) /\ Len(new) = n + 1
  /\ n \in 0 .. Len(slots) /\ i \in 1 .. n + 1
  /\ new[i] = slot
  /\ \A j \in 1 .. i - 1 : new[j] = slots[j]
  /\ \A j \in i .. n : new[j + 1] = slots[j]
  /\ \A j \in i .. n : Before(slot, slots[j])
  /\ i > 1 => ~Before(slot, slots[i - 1])

LEMMA InsertAtPlaces ==
  ASSUME NEW kept \in Seq(Slots), NEW slot \in Slots, NEW i \in 1 .. Len(kept) + 1
  PROVE  /\ InsertAt(kept, i, slot) \in Seq(Slots)
         /\ Len(InsertAt(kept, i, slot)) = Len(kept) + 1
         /\ InsertAt(kept, i, slot)[i] = slot
         /\ \A j \in 1 .. i - 1 : InsertAt(kept, i, slot)[j] = kept[j]
         /\ \A j \in i .. Len(kept) : InsertAt(kept, i, slot)[j + 1] = kept[j]
<1> DEFINE left == SubSeq(kept, 1, i - 1)
           right == SubSeq(kept, i, Len(kept))
<1>1. /\ left \in Seq(Slots) /\ Len(left) = i - 1
      /\ \A j \in 1 .. i - 1 : left[j] = kept[j]
  OBVIOUS
<1>2. /\ right \in Seq(Slots) /\ Len(right) = Len(kept) - i + 1
      /\ \A j \in i .. Len(kept) : right[j - i + 1] = kept[j]
  OBVIOUS
<1>3. InsertAt(kept, i, slot) = left \o <<slot>> \o right
  BY DEF InsertAt
<1> HIDE DEF left, right
<1> DEFINE head == left \o <<slot>>
<1>4. /\ head \in Seq(Slots) /\ Len(head) = i
      /\ head[i] = slot /\ \A j \in 1 .. i - 1 : head[j] = kept[j]
  BY <1>1
<1> HIDE DEF head
<1>5. /\ head \o right \in Seq(Slots) /\ Len(head \o right) = Len(kept) + 1
      /\ (head \o right)[i] = slot
      /\ \A j \in 1 .. i - 1 : (head \o right)[j] = kept[j]
  BY <1>2, <1>4
<1>6. \A j \in i .. Len(kept) : (head \o right)[j + 1] = kept[j]
  <2> SUFFICES ASSUME NEW j \in i .. Len(kept)
               PROVE  (head \o right)[j + 1] = kept[j]
    OBVIOUS
  <2>1. (head \o right)[j + 1] = right[j + 1 - i]
    BY <1>2, <1>4
  <2>2. j + 1 - i = j - i + 1
    OBVIOUS
  <2> QED BY <1>2, <2>1, <2>2
<1> QED BY <1>3, <1>5, <1>6 DEF head

LEMMA InsertFacts ==
  ASSUME NEW slots \in Seq(Slots), NEW cap \in Nat \ {0}, Len(slots) <= cap,
         NEW slot \in Slots
  PROVE  \/ /\ Len(slots) = cap /\ ~Before(slot, slots[cap])
            /\ SortSlotInsert(slots, cap, slot) = slots
         \/ /\ Len(slots) = cap => Before(slot, slots[cap])
            /\ \E n, i \in Nat :
                 /\ n = IF Len(slots) = cap THEN cap - 1 ELSE Len(slots)
                 /\ InsertedAt(SortSlotInsert(slots, cap, slot), slots, n, i, slot)
<1> DEFINE full == Len(slots) = cap
           kept == IF full THEN Front(slots) ELSE slots
           n == IF full THEN cap - 1 ELSE Len(slots)
           Fits(i) == /\ \A j \in i .. Len(kept) : Before(slot, kept[j])
                      /\ i > 1 => ~Before(slot, kept[i - 1])
           position == CHOOSE i \in 1 .. Len(kept) + 1 : Fits(i)
<1>1. SortSlotInsert(slots, cap, slot) =
        IF full /\ ~Before(slot, Last(slots)) THEN slots ELSE InsertAt(kept, position, slot)
  BY DEF SortSlotInsert
<1>2. full => Last(slots) = slots[cap]
  BY DEF Last
<1>3. CASE full /\ ~Before(slot, slots[cap])
  BY <1>1, <1>2, <1>3
<1>4. CASE ~(full /\ ~Before(slot, slots[cap]))
  <2>1. /\ kept \in Seq(Slots) /\ Len(kept) = n /\ n \in 0 .. Len(slots)
        /\ \A j \in 1 .. n : kept[j] = slots[j]
    <3>1. CASE full
      <4>1. kept = SubSeq(slots, 1, cap - 1)
        BY <3>1 DEF Front
      <4>2. SubSeq(slots, 1, cap - 1) \in Seq(Slots) /\ Len(SubSeq(slots, 1, cap - 1)) = cap - 1
            /\ \A j \in 1 .. cap - 1 : SubSeq(slots, 1, cap - 1)[j] = slots[j]
        BY <3>1
      <4> QED BY <3>1, <4>1, <4>2
    <3>2. CASE ~full
      BY <3>2
    <3> QED BY <3>1, <3>2
  <2>2. SortSlotInsert(slots, cap, slot) = InsertAt(kept, position, slot)
    BY <1>1, <1>2, <1>4
  <2>n. n = IF Len(slots) = cap THEN cap - 1 ELSE Len(slots)
    OBVIOUS
  <2> HIDE DEF kept, n
  <2>3. position \in 1 .. n + 1 /\ Fits(position)
    BY <2>1, PositionExists
  <2> HIDE DEF position
  <2>4. InsertedAt(InsertAt(kept, position, slot), slots, n, position, slot)
    <3> DEFINE new == InsertAt(kept, position, slot)
    <3>1. /\ new \in Seq(Slots) /\ Len(new) = n + 1 /\ new[position] = slot
          /\ \A j \in 1 .. position - 1 : new[j] = kept[j]
          /\ \A j \in position .. n : new[j + 1] = kept[j]
      <4>1. position \in 1 .. Len(kept) + 1 /\ kept \in Seq(Slots)
        BY <2>1, <2>3
      <4>2. /\ new \in Seq(Slots) /\ Len(new) = Len(kept) + 1 /\ new[position] = slot
            /\ \A j \in 1 .. position - 1 : new[j] = kept[j]
            /\ \A j \in position .. Len(kept) : new[j + 1] = kept[j]
        BY <4>1, InsertAtPlaces
      <4> QED BY <2>1, <4>2
    <3>2. \A j \in 1 .. position - 1 : j \in 1 .. n
      BY <2>1, <2>3
    <3>3. \A j \in position .. n : j \in 1 .. n
      BY <2>1, <2>3
    <3>4. position > 1 => position - 1 \in 1 .. n
      BY <2>1, <2>3
    <3> HIDE DEF new
    <3>5. \A j \in position .. n : new[j + 1] = slots[j] /\ Before(slot, slots[j])
      BY <2>1, <2>3, <3>1, <3>3
    <3>6. \A j \in 1 .. position - 1 : new[j] = slots[j]
      BY <2>1, <3>1, <3>2
    <3>7. position > 1 => ~Before(slot, slots[position - 1])
      BY <2>1, <2>3, <3>4
    <3>8. InsertedAt(new, slots, n, position, slot)
      BY <2>1, <2>3, <3>1, <3>5, <3>6, <3>7 DEF InsertedAt
    <3> QED BY <3>8 DEF new
  <2>5. position \in Nat /\ n \in Nat
    BY <2>1, <2>3
  <2> QED BY <1>4, <2>2, <2>4, <2>5, <2>n
<1> QED BY <1>3, <1>4

-----------------------------------------------------------------------------
(* A directory and its slots.                                               *)

LEMMA KeyFacts ==
  ASSUME NEW name \in Nat, name >= KeyGroup
  PROVE  KeyOf(name) \in Nat /\ KeyOf(name) >= KeyGroup /\ KeyGroup \in Nat \ {0}
<1>0. KeyGroup \in Nat \ {0}
  BY PagingAssumption
<1>1. PICK q \in Int, r \in 0 .. KeyGroup - 1 : name = KeyGroup * q + r /\ name % KeyGroup = r
  BY <1>0, DivMod
<1>2. q >= 1
  <2> SUFFICES ASSUME q <= 0
               PROVE  FALSE
    BY <1>1
  <2>1. KeyGroup * q <= 0
    BY <1>0
  <2> QED BY <1>0, <1>1, <2>1
<1>3. KeyGroup * q >= KeyGroup /\ KeyGroup * q \in Int
  BY <1>0, <1>2
<1>4. KeyOf(name) = KeyGroup * q
  BY <1>1, <1>3 DEF KeyOf
<1> QED BY <1>0, <1>3, <1>4

Marks == Entries \cup {Bottom}

LEMMA DirFacts ==
  ASSUME dir \in Directories
  PROVE  /\ dir \in Seq(Entries) /\ Len(dir) \in Nat /\ DOMAIN dir = 1 .. Len(dir)
         /\ \A i \in 1 .. Len(dir) :
              /\ dir[i] \in Entries /\ dir[i].isDir \in BOOLEAN /\ dir[i].name \in Nat
              /\ IsSlot(dir[i])
              /\ SlotOf(i) \in Slots /\ IsSlot(SlotOf(i))
              /\ [isDir |-> SlotOf(i).isDir, name |-> SlotOf(i).name] \in Entries
              /\ SlotOf(i).isDir = dir[i].isDir /\ SlotOf(i).name = KeyOf(dir[i].name)
              /\ SlotOf(i).idx = i
         /\ \A i, j \in 1 .. Len(dir) : dir[i].name = dir[j].name => i = j
<1>1. dir \in Seq(Entries) /\ Len(dir) \in Nat /\ DOMAIN dir = 1 .. Len(dir)
  BY PagingAssumption
<1>2. ASSUME NEW i \in 1 .. Len(dir)
      PROVE  /\ dir[i] \in Entries /\ dir[i].isDir \in BOOLEAN /\ dir[i].name \in Nat
             /\ dir[i].name >= KeyGroup
  <2>1. dir[i] \in Entries /\ dir[i].name >= KeyGroup
    BY <1>1, PagingAssumption
  <2> QED BY <2>1 DEF Entries
<1>3. ASSUME NEW i \in 1 .. Len(dir)
      PROVE  /\ SlotOf(i) \in Slots /\ IsSlot(SlotOf(i)) /\ IsSlot(dir[i])
             /\ [isDir |-> SlotOf(i).isDir, name |-> SlotOf(i).name] \in Entries
  <2>1. KeyOf(dir[i].name) \in Nat /\ KeyOf(dir[i].name) # 0
    BY <1>2, KeyFacts
  <2> QED BY <1>2, <2>1 DEF SlotOf, Slots, IsSlot, Entries
<1>4. \A i, j \in 1 .. Len(dir) : dir[i].name = dir[j].name => i = j
  BY <1>1, PagingAssumption
<1> QED BY <1>1, <1>2, <1>3, <1>4 DEF SlotOf

LEMMA SlotFacts ==
  ASSUME NEW slots \in Seq(Slots)
  PROVE  /\ Len(slots) \in Nat /\ DOMAIN slots = 1 .. Len(slots)
         /\ \A j \in 1 .. Len(slots) : slots[j] \in Slots /\ IsSlot(slots[j])
<1>1. /\ Len(slots) \in Nat /\ DOMAIN slots = 1 .. Len(slots)
      /\ \A j \in 1 .. Len(slots) : slots[j] \in Slots
  OBVIOUS
<1> QED BY <1>1 DEF Slots, IsSlot

-----------------------------------------------------------------------------
(* One pass over the directory.                                             *)

\* What one more entry makes of the slots, and the pass of Scan as a function.
Consider(slots, mark, cap, i) ==
  IF Above(mark, dir[i]) THEN SortSlotInsert(slots, cap, SlotOf(i)) ELSE slots
Pass(mark, cap) ==
  CHOOSE slots : slots = [i \in 0 .. Len(dir) |->
                            IF i = 0 THEN << >> ELSE Consider(slots[i - 1], mark, cap, i)]

LEMMA ScanIsPass ==
  ASSUME NEW mark, NEW cap
  PROVE  Scan(mark, cap) = IF cap = 0 THEN << >> ELSE Pass(mark, cap)[Len(dir)]
BY Zenon DEF Scan, Pass, Consider

\* The recursion has a solution.
LEMMA PassSteps ==
  ASSUME NEW mark, NEW cap, Len(dir) \in Nat
  PROVE  /\ Pass(mark, cap)[0] = << >>
         /\ \A i \in 1 .. Len(dir) :
              Pass(mark, cap)[i] = Consider(Pass(mark, cap)[i - 1], mark, cap, i)
<1> DEFINE E(s, i) == Consider(s, mark, cap, i)
           IsPass(f, k) == f = [i \in 0 .. k |-> IF i = 0 THEN << >> ELSE E(f[i - 1], i)]
           S == {k \in Nat : \E f : IsPass(f, k)}
<1> HIDE DEF E
<1>1. 0 \in S
  <2> DEFINE f == [i \in 0 .. 0 |-> << >>]
  <2>1. IsPass(f, 0)
    OBVIOUS
  <2> HIDE DEF f, IsPass
  <2> QED BY <2>1
<1>2. ASSUME NEW k \in 0 .. Len(dir) - 1, k \in S
      PROVE  k + 1 \in S
  <2>1. PICK f : f = [i \in 0 .. k |-> IF i = 0 THEN << >> ELSE E(f[i - 1], i)]
    BY <1>2
  <2> DEFINE g == [i \in 0 .. k + 1 |-> IF i = k + 1 THEN E(f[k], i) ELSE f[i]]
  <2>2. \A i \in 0 .. k + 1 : g[i] = IF i = 0 THEN << >> ELSE E(g[i - 1], i)
    BY <2>1
  <2>3. IsPass(g, k + 1)
    BY <2>2
  <2> HIDE DEF g, IsPass
  <2> QED BY <2>3
<1>3. Len(dir) \in S
  BY <1>1, <1>2, Induction, Len(dir) \in 0 .. Len(dir)
<1>4. \E f : IsPass(f, Len(dir))
  BY <1>3
<1>5. IsPass(Pass(mark, cap), Len(dir))
  BY <1>4, Zenon DEF Pass, E
<1>6. /\ Pass(mark, cap)[0] = << >>
      /\ \A i \in 1 .. Len(dir) : Pass(mark, cap)[i] = E(Pass(mark, cap)[i - 1], i)
  BY <1>5
<1> QED BY <1>6 DEF E

\* What the slots hold after the first i entries: the smallest entries above
\* mark, in order, at most cap of them.
Held(slots, x) == \E j \in DOMAIN slots : slots[j].idx = x
ScannedTo(slots, mark, cap, i) ==
  /\ slots \in Seq(Slots) /\ Len(slots) <= cap
  /\ \A j \in DOMAIN slots :
       /\ slots[j].idx \in 1 .. i
       /\ slots[j] = SlotOf(slots[j].idx)
       /\ Above(mark, dir[slots[j].idx])
  /\ Ordered(slots)
  /\ \A j, k \in DOMAIN slots : slots[j].idx = slots[k].idx => j = k
  /\ \A x \in 1 .. i : Above(mark, dir[x]) =>
       Held(slots, x) \/ (Len(slots) = cap /\ ~Before(SlotOf(x), slots[cap]))

\* An entry that is put among the slots.
LEMMA InsertedRight ==
  ASSUME dir \in Directories, NEW mark, NEW cap \in Nat \ {0},
         NEW k \in 0 .. Len(dir) - 1, NEW slots, ScannedTo(slots, mark, cap, k),
         Above(mark, dir[k + 1]), Len(slots) = cap => Before(SlotOf(k + 1), slots[cap]),
         NEW n \in Nat, n = IF Len(slots) = cap THEN cap - 1 ELSE Len(slots),
         NEW i \in Nat, NEW new, InsertedAt(new, slots, n, i, SlotOf(k + 1))
  PROVE  ScannedTo(new, mark, cap, k + 1)
<1> DEFINE full == Len(slots) = cap
           slot == SlotOf(k + 1)
<1>0. /\ slots \in Seq(Slots) /\ Len(slots) \in Nat /\ DOMAIN slots = 1 .. Len(slots)
      /\ Len(slots) <= cap
      /\ \A j \in 1 .. Len(slots) : IsSlot(slots[j])
      /\ slot \in Slots /\ IsSlot(slot) /\ slot.idx = k + 1 /\ k + 1 \in 1 .. Len(dir)
      /\ k \in Nat /\ 1 .. k \subseteq 1 .. Len(dir)
  <2>1. slots \in Seq(Slots) /\ Len(slots) <= cap
    BY DEF ScannedTo
  <2>2. k + 1 \in 1 .. Len(dir) /\ k \in Nat /\ 1 .. k \subseteq 1 .. Len(dir)
    BY DirFacts
  <2> QED BY <2>1, <2>2, SlotFacts, DirFacts
<1> DEFINE L == Len(slots)
<1>1. /\ L \in Nat /\ L <= cap /\ n <= L /\ i \in 1 .. n + 1
      /\ full => L = cap /\ n = cap - 1
      /\ ~full => L < cap /\ n = L
  <2>1. i \in 1 .. n + 1 /\ n \in 0 .. L
    BY DEF InsertedAt
  <2>2. L \in Nat /\ L <= cap
    BY <1>0
  <2> QED BY <2>1, <2>2
<1>2. new \in Seq(Slots) /\ Len(new) = n + 1 /\ DOMAIN new = 1 .. n + 1
  BY DEF InsertedAt
<1>3. new[i] = slot
  BY DEF InsertedAt
<1>4. ASSUME NEW j \in 1 .. n + 1, j < i
      PROVE  j \in 1 .. L /\ new[j] = slots[j]
  <2>1. j \in 1 .. i - 1
    BY <1>1, <1>4
  <2> QED BY <1>1, <2>1 DEF InsertedAt
<1>5. ASSUME NEW j \in 1 .. n + 1, j > i
      PROVE  j - 1 \in 1 .. L /\ new[j] = slots[j - 1] /\ Before(slot, slots[j - 1])
  <2>1. j - 1 \in i .. n /\ (j - 1) + 1 = j /\ j - 1 \in 1 .. L
    BY <1>1, <1>5
  <2> QED BY <2>1 DEF InsertedAt
<1>6. i > 1 => i - 1 \in 1 .. L /\ ~Before(slot, slots[i - 1])
  BY <1>1 DEF InsertedAt
<1>7. \A j \in 1 .. L : /\ slots[j].idx \in 1 .. k
                        /\ slots[j] = SlotOf(slots[j].idx)
                        /\ Above(mark, dir[slots[j].idx])
  BY <1>0 DEF ScannedTo
<1>8. \A x, y \in 1 .. L : x < y => ~Before(slots[y], slots[x])
  BY <1>0 DEF ScannedTo, Ordered
<1>9. \A x, y \in 1 .. L : slots[x].idx = slots[y].idx => x = y
  BY <1>0 DEF ScannedTo
<1>10. \A x \in 1 .. k : Above(mark, dir[x]) =>
         Held(slots, x) \/ (full /\ ~Before(SlotOf(x), slots[cap]))
  BY DEF ScannedTo
<1>11. /\ full => Before(slot, slots[cap])
       /\ Above(mark, dir[k + 1])
       /\ slot = SlotOf(slot.idx)
  BY <1>0
<1> HIDE DEF full, slot, L
<1>12. ASSUME NEW j \in DOMAIN new
       PROVE  /\ new[j].idx \in 1 .. k + 1
              /\ new[j] = SlotOf(new[j].idx)
              /\ Above(mark, dir[new[j].idx])
  <2>0. j \in 1 .. n + 1
    BY <1>2, <1>12
  <2>k. k + 1 \in 1 .. k + 1 /\ 1 .. k \subseteq 1 .. k + 1
    <3>1. k \in Nat
      BY <1>0
    <3> QED BY <3>1
  <2>1. CASE j = i
    <3>1. new[j] = slot /\ slot.idx = k + 1
      BY <1>0, <1>3, <2>1
    <3> QED BY <1>11, <2>k, <3>1
  <2>2. CASE j < i
    <3>1. j \in 1 .. L /\ new[j] = slots[j]
      BY <1>4, <2>0, <2>2
    <3> QED BY <1>7, <2>k, <3>1
  <2>3. CASE j > i
    <3>1. j - 1 \in 1 .. L /\ new[j] = slots[j - 1]
      BY <1>5, <2>0, <2>3
    <3> QED BY <1>7, <2>k, <3>1
  <2> QED BY <1>1, <2>0, <2>1, <2>2, <2>3
<1>13. Ordered(new)
  <2> SUFFICES ASSUME NEW j \in 1 .. n + 1, NEW l \in 1 .. n + 1, j < l
               PROVE  ~Before(new[l], new[j])
    BY <1>2 DEF Ordered
  <2>1. CASE l < i
    BY <1>4, <1>8, <2>1
  <2>2. CASE j > i
    <3>1. j - 1 < l - 1 /\ l > i
      BY <1>1, <2>2
    <3> QED BY <1>5, <1>8, <2>2, <3>1
  <2>3. CASE j < i /\ l > i
    <3>1. j < l - 1
      BY <1>1, <2>3
    <3> QED BY <1>4, <1>5, <1>8, <2>3, <3>1
  <2>4. CASE l = i
    <3>1. /\ new[l] = slot /\ new[j] = slots[j] /\ j \in 1 .. L
          /\ i - 1 \in 1 .. L /\ ~Before(slot, slots[i - 1]) /\ j <= i - 1
      BY <1>1, <1>3, <1>4, <1>6, <2>4
    <3>2. CASE j = i - 1
      BY <3>1, <3>2
    <3>3. CASE j < i - 1
      <4>1. ~Before(slots[i - 1], slots[j])
        BY <1>8, <3>1, <3>3
      <4>2. IsSlot(slots[i - 1]) /\ IsSlot(slots[j]) /\ IsSlot(slot)
        BY <1>0, <3>1 DEF L
      <4>3. ~Before(slot, slots[j])
        BY <3>1, <4>1, <4>2, BeforeOrder
      <4> QED BY <3>1, <4>3
    <3> QED BY <1>1, <3>1, <3>2, <3>3
  <2>5. CASE j = i
    <3>1. /\ new[l] = slots[l - 1] /\ l - 1 \in 1 .. L /\ Before(slot, slots[l - 1])
          /\ new[j] = slot
      BY <1>3, <1>5, <2>5
    <3>2. IsSlot(slots[l - 1]) /\ IsSlot(slot)
      BY <1>0, <3>1 DEF L
    <3> QED BY <3>1, <3>2, BeforeOrder
  <2> QED BY <1>1, <2>1, <2>2, <2>3, <2>4, <2>5
<1>14. \A j, l \in DOMAIN new : new[j].idx = new[l].idx => j = l
  <2>1. \A j \in 1 .. n + 1 : j # i => new[j].idx \in 1 .. k
    BY <1>1, <1>4, <1>5, <1>7
  <2>2. new[i].idx = k + 1 /\ k \in Nat
    BY <1>0, <1>3
  <2> SUFFICES ASSUME NEW j \in 1 .. n + 1, NEW l \in 1 .. n + 1, j < l,
                      new[j].idx = new[l].idx
               PROVE  FALSE
    BY <1>1, <1>2
  <2>3. j # i /\ l # i
    BY <2>1, <2>2
  <2>4. CASE l < i
    BY <1>4, <1>9, <2>4
  <2>5. CASE j > i
    <3>1. l > i /\ j - 1 # l - 1
      BY <1>1, <2>5
    <3>2. /\ j - 1 \in 1 .. L /\ new[j] = slots[j - 1]
          /\ l - 1 \in 1 .. L /\ new[l] = slots[l - 1]
      BY <1>5, <2>5, <3>1
    <3> QED BY <1>9, <3>1, <3>2
  <2>6. CASE j < i /\ l > i
    <3>1. j # l - 1
      BY <1>1, <2>6
    <3> QED BY <1>4, <1>5, <1>9, <2>6, <3>1
  <2> QED BY <1>1, <2>3, <2>4, <2>5, <2>6
<1>15. ASSUME full
       PROVE  /\ Len(new) = cap
              /\ IsSlot(new[cap]) /\ IsSlot(slots[cap]) /\ ~Before(slots[cap], new[cap])
  <2>1. Len(new) = cap /\ cap \in 1 .. L /\ n + 1 = cap /\ IsSlot(slots[cap])
    BY <1>0, <1>1, <1>2, <1>15 DEF L
  <2>2. CASE i = cap
    <3>1. new[cap] = slot /\ Before(slot, slots[cap])
      BY <1>3, <1>11, <1>15, <2>2
    <3> QED BY <1>0, <2>1, <3>1, BeforeOrder
  <2>3. CASE i < cap
    <3>1. cap - 1 \in 1 .. L /\ new[cap] = slots[cap - 1] /\ cap - 1 < cap
      BY <1>5, <2>1, <2>3
    <3>2. ~Before(slots[cap], slots[cap - 1])
      BY <1>8, <2>1, <3>1
    <3>3. IsSlot(slots[cap - 1])
      BY <1>0, <3>1 DEF L
    <3> QED BY <2>1, <3>1, <3>2, <3>3
  <2> QED BY <1>1, <2>1, <2>2, <2>3
<1>16. ASSUME NEW x \in 1 .. k + 1, Above(mark, dir[x])
       PROVE  Held(new, x) \/ (Len(new) = cap /\ ~Before(SlotOf(x), new[cap]))
  <2>1. CASE x = k + 1
    <3>1. i \in DOMAIN new /\ new[i].idx = x
      BY <1>0, <1>1, <1>2, <1>3, <2>1
    <3> QED BY <3>1 DEF Held
  <2>2. CASE x \in 1 .. k /\ Held(slots, x)
    <3>1. PICK j \in 1 .. L : slots[j].idx = x
      BY <1>0, <2>2 DEF Held, L
    <3>2. CASE j < i
      <4>1. j \in 1 .. n + 1
        BY <1>1, <3>2
      <4> QED BY <1>2, <1>4, <3>1, <3>2, <4>1 DEF Held
    <3>3. CASE j >= i /\ j <= n
      <4>1. j + 1 \in 1 .. n + 1 /\ j + 1 > i /\ (j + 1) - 1 = j
        BY <1>1, <3>3
      <4>2. new[j + 1] = slots[j]
        BY <1>5, <4>1
      <4> QED BY <1>2, <3>1, <4>1, <4>2 DEF Held
    <3>4. CASE j > n
      <4>1. full /\ j = cap
        BY <1>1, <3>4
      <4>2. slots[j] = SlotOf(x)
        BY <1>7, <3>1
      <4> QED BY <1>15, <4>1, <4>2
    <3> QED BY <1>1, <3>2, <3>3, <3>4
  <2>3. CASE x \in 1 .. k /\ full /\ ~Before(SlotOf(x), slots[cap])
    <3>1. IsSlot(SlotOf(x))
      BY <1>0, <2>3, DirFacts
    <3> QED BY <1>15, <2>3, <3>1, BeforeOrder
  <2> QED BY <1>10, <1>16, <2>1, <2>2, <2>3, DirFacts
<1>17. Len(new) <= cap
  BY <1>1, <1>2
<1> QED BY <1>2, <1>12, <1>13, <1>14, <1>16, <1>17 DEF ScannedTo

LEMMA ConsiderRight ==
  ASSUME dir \in Directories, NEW mark, NEW cap \in Nat \ {0},
         NEW k \in 0 .. Len(dir) - 1, NEW slots, ScannedTo(slots, mark, cap, k)
  PROVE  ScannedTo(Consider(slots, mark, cap, k + 1), mark, cap, k + 1)
<1> DEFINE slot == SlotOf(k + 1)
<1>0. slots \in Seq(Slots) /\ Len(slots) <= cap /\ slot \in Slots
  <2>1. k + 1 \in 1 .. Len(dir)
    BY DirFacts
  <2> QED BY <2>1, DirFacts DEF ScannedTo
<1>1. ASSUME Above(mark, dir[k + 1]) => Len(slots) = cap /\ ~Before(slot, slots[cap])
      PROVE  ScannedTo(slots, mark, cap, k + 1)
  <2>1. \A x \in 1 .. k + 1 : x = k + 1 \/ x \in 1 .. k
    BY DirFacts
  <2>2. 1 .. k \subseteq 1 .. k + 1
    BY DirFacts
  <2>3. \A x \in 1 .. k + 1 : Above(mark, dir[x]) =>
          Held(slots, x) \/ (Len(slots) = cap /\ ~Before(SlotOf(x), slots[cap]))
    BY <1>1, <2>1 DEF ScannedTo
  <2>4. \A j \in DOMAIN slots : slots[j].idx \in 1 .. k + 1
    BY <2>2 DEF ScannedTo
  <2> QED BY <2>3, <2>4 DEF ScannedTo
<1>2. CASE ~Above(mark, dir[k + 1])
  BY <1>1, <1>2 DEF Consider
<1>3. CASE Above(mark, dir[k + 1])
  <2> DEFINE new == SortSlotInsert(slots, cap, slot)
  <2>1. Consider(slots, mark, cap, k + 1) = new
    BY <1>3 DEF Consider
  <2>2. CASE Len(slots) = cap /\ ~Before(slot, slots[cap]) /\ new = slots
    BY <1>1, <2>1, <2>2
  <2>3. CASE /\ Len(slots) = cap => Before(slot, slots[cap])
             /\ \E n, i \in Nat : /\ n = IF Len(slots) = cap THEN cap - 1 ELSE Len(slots)
                                  /\ InsertedAt(new, slots, n, i, slot)
    <3>1. PICK n \in Nat, i \in Nat : /\ n = IF Len(slots) = cap THEN cap - 1 ELSE Len(slots)
                                      /\ InsertedAt(new, slots, n, i, slot)
      BY <2>3
    <3> HIDE DEF new
    <3> QED BY <1>3, <2>1, <2>3, <3>1, InsertedRight
  <2> QED BY <1>0, <2>2, <2>3, InsertFacts
<1> QED BY <1>2, <1>3

\* A page's slots are the smallest entries above its watermark.
LEMMA ScanRight ==
  ASSUME dir \in Directories, NEW mark, NEW cap \in Nat
  PROVE  IF cap = 0 THEN Scan(mark, cap) = << >>
         ELSE ScannedTo(Scan(mark, cap), mark, cap, Len(dir))
<1>1. CASE cap = 0
  BY <1>1, ScanIsPass
<1>2. CASE cap # 0
  <2> DEFINE S == {i \in Nat : ScannedTo(Pass(mark, cap)[i], mark, cap, i)}
  <2>0. Len(dir) \in Nat
    BY DirFacts
  <2>1. 0 \in S
    <3>1. Pass(mark, cap)[0] = << >>
      BY <2>0, PassSteps
    <3>2. << >> \in Seq(Slots) /\ Len(<< >>) = 0 /\ DOMAIN << >> = {} /\ 1 .. 0 = {}
      OBVIOUS
    <3>3. ScannedTo(<< >>, mark, cap, 0)
      BY <3>2 DEF ScannedTo, Ordered
    <3> QED BY <3>1, <3>3
  <2>2. ASSUME NEW k \in 0 .. Len(dir) - 1, k \in S
        PROVE  k + 1 \in S
    <3>1. Pass(mark, cap)[k + 1] = Consider(Pass(mark, cap)[k], mark, cap, k + 1)
      BY <2>0, PassSteps
    <3>2. cap \in Nat \ {0} /\ ScannedTo(Pass(mark, cap)[k], mark, cap, k)
      BY <1>2, <2>2
    <3> QED BY <2>0, <3>1, <3>2, ConsiderRight
  <2>3. Len(dir) \in S
    <3> HIDE DEF S
    <3> QED BY <2>0, <2>1, <2>2, Induction, Len(dir) \in 0 .. Len(dir)
  <2> QED BY <1>2, <2>3, ScanIsPass
<1> QED BY <1>1, <1>2

-----------------------------------------------------------------------------
(* The numbers of a page.                                                   *)

DotDots == IF inSubDir THEN 1 ELSE 0

LEMMA PageNumbers ==
  ASSUME dir \in Directories, inSubDir \in BOOLEAN, NEW p \in Nat
  PROVE  /\ PageSize \in Nat \ {0} /\ Len(dir) \in Nat
         /\ GetCount \in Nat /\ GetCount = Len(dir) + DotDots
         /\ ItemsOn(p) \in 0 .. PageSize /\ ScanTarget(p) \in Nat
         /\ ItemsOn(p) = ScanTarget(p) + (IF DotDotOn(p) THEN 1 ELSE 0)
         /\ Offset(p) \in Nat /\ Offset(p) <= Offset(p + 1)
         /\ EntriesBefore(p) \in 0 .. Len(dir)
         /\ ScanTarget(p) = EntriesBefore(p + 1) - EntriesBefore(p)
<1> DEFINE L == Len(dir)
           a == PageSize * p
           b == PageSize * (p + 1)
           d == DotDots
<1>1. /\ p = 0 => Offset(p) = 0
      /\ p # 0 => Offset(p) = a - d
      /\ Offset(p + 1) = b - d
  BY DEF Offset, DotDots
<1>2. GetCount = L + d
  BY DEF GetCount, DotDots
<1>3. ItemsOn(p) = IF GetCount - a <= 0 THEN 0
                   ELSE IF GetCount - a < PageSize THEN GetCount - a ELSE PageSize
  BY DEF ItemsOn
<1>4. /\ p = 0 => ScanTarget(p) = ItemsOn(p) - d
      /\ p # 0 => ScanTarget(p) = ItemsOn(p) - 0
  BY DEF ScanTarget, DotDotOn, DotDots
<1>5. /\ p = 0 => (IF DotDotOn(p) THEN 1 ELSE 0) = d
      /\ p # 0 => (IF DotDotOn(p) THEN 1 ELSE 0) = 0
  BY DEF DotDotOn, DotDots
<1>6. /\ EntriesBefore(p) = IF Offset(p) < L THEN Offset(p) ELSE L
      /\ EntriesBefore(p + 1) = IF Offset(p + 1) < L THEN Offset(p + 1) ELSE L
  BY DEF EntriesBefore
<1>7. PageSize \in Nat \ {0} /\ L \in Nat /\ d \in 0 .. 1
  BY PagingAssumption, DirFacts DEF DotDots
<1>8. a \in Nat /\ b = a + PageSize
  BY <1>7
<1>9. p = 0 => a = 0
  BY <1>7
<1>10. p # 0 => a >= PageSize
  <2> SUFFICES ASSUME p >= 1
               PROVE  a >= PageSize
    OBVIOUS
  <2>1. PageSize * p >= PageSize * 1
    BY <1>7
  <2> QED BY <1>7, <2>1
<1> HIDE DEF L, a, b, d
<1>11. /\ Offset(p) \in Nat /\ Offset(p) <= Offset(p + 1) /\ Offset(p + 1) \in Nat
       /\ GetCount \in Nat /\ ItemsOn(p) \in 0 .. PageSize
  BY <1>1, <1>2, <1>3, <1>7, <1>8, <1>9, <1>10
<1>12. EntriesBefore(p) \in 0 .. L
  BY <1>6, <1>7, <1>11
<1>13. /\ ScanTarget(p) = EntriesBefore(p + 1) - EntriesBefore(p)
       /\ ScanTarget(p) \in Nat
  <2>1. CASE p = 0
    BY <1>1, <1>2, <1>3, <1>4, <1>6, <1>7, <1>8, <1>9, <2>1
  <2>2. CASE p # 0
    BY <1>1, <1>2, <1>3, <1>4, <1>6, <1>7, <1>8, <1>10, <2>2
  <2> QED BY <2>1, <2>2
<1>14. ItemsOn(p) = ScanTarget(p) + (IF DotDotOn(p) THEN 1 ELSE 0)
  BY <1>4, <1>5, <1>7, <1>11
<1> QED BY <1>2, <1>7, <1>11, <1>12, <1>13, <1>14 DEF L, d

-----------------------------------------------------------------------------
(* What is sent, and the watermarks.                                        *)

LEMMA SentFacts ==
  ASSUME dir \in Directories, NEW i \in 1 .. Len(dir), NEW unread
  PROVE  /\ SentOf(SlotOf(i), unread) \in Entries
         /\ SentOf(SlotOf(i), unread).isDir = dir[i].isDir
         /\ SentOf(SlotOf(i), unread).name \in {dir[i].name, KeyOf(dir[i].name)}
         /\ OwnKeys => SentOf(SlotOf(i), unread) = dir[i]
<1> DEFINE sent == SentOf(SlotOf(i), unread)
<1>1. /\ dir[i] \in Entries /\ SlotOf(i).isDir = dir[i].isDir
      /\ SlotOf(i).name = KeyOf(dir[i].name) /\ SlotOf(i).idx = i
      /\ [isDir |-> SlotOf(i).isDir, name |-> SlotOf(i).name] \in Entries
      /\ i \in DOMAIN dir
  BY DirFacts
<1>2. sent = [isDir |-> dir[i].isDir,
              name |-> IF i \in unread THEN KeyOf(dir[i].name) ELSE dir[i].name]
  BY <1>1 DEF SentOf
<1>3. sent \in Entries
  BY <1>1, <1>2 DEF Entries
<1>4. OwnKeys => sent = dir[i]
  <2>1. OwnKeys => sent = [isDir |-> dir[i].isDir, name |-> dir[i].name]
    BY <1>1, <1>2 DEF OwnKeys
  <2>2. dir[i] = [isDir |-> dir[i].isDir, name |-> dir[i].name]
    BY <1>1 DEF Entries
  <2> QED BY <2>1, <2>2
<1> QED BY <1>2, <1>3, <1>4

LEMMA MarkIsSlot ==
  ASSUME NEW mark \in Marks
  PROVE  IsSlot(mark)
<1>1. CASE mark \in Entries
  BY <1>1 DEF Entries, IsSlot
<1>2. CASE mark = Bottom
  BY <1>2 DEF Bottom, IsSlot
<1> QED BY <1>1, <1>2 DEF Marks

\* What Scan returns, whatever the keys.
LEMMA ScanFacts ==
  ASSUME dir \in Directories, NEW mark, NEW cap \in Nat
  PROVE  /\ Scan(mark, cap) \in Seq(Slots)
         /\ \A j \in DOMAIN Scan(mark, cap) :
              /\ Scan(mark, cap)[j].idx \in 1 .. Len(dir)
              /\ Scan(mark, cap)[j] = SlotOf(Scan(mark, cap)[j].idx)
<1>1. CASE cap = 0
  <2>1. << >> \in Seq(Slots) /\ DOMAIN << >> = {}
    OBVIOUS
  <2> QED BY <1>1, <2>1, ScanRight
<1>2. CASE cap # 0
  BY <1>2, ScanRight DEF ScannedTo
<1> QED BY <1>1, <1>2

LEMMA MarkAfterType ==
  ASSUME dir \in Directories, NEW mark \in Marks, NEW cap \in Nat, NEW unread
  PROVE  MarkAfter(mark, Scan(mark, cap), unread) \in Marks
<1> DEFINE slots == Scan(mark, cap)
<1>1. /\ slots \in Seq(Slots)
      /\ \A j \in DOMAIN slots : slots[j].idx \in 1 .. Len(dir) /\ slots[j] = SlotOf(slots[j].idx)
  BY ScanFacts
<1> HIDE DEF slots
<1>2. CASE slots = << >>
  BY <1>2 DEF MarkAfter, slots
<1>3. CASE slots # << >>
  <2>1. Len(slots) \in DOMAIN slots
    BY <1>1, <1>3
  <2>2. SentOf(Last(slots), unread) \in Entries
    BY <1>1, <2>1, SentFacts DEF Last
  <2> QED BY <1>3, <2>2 DEF MarkAfter, Marks, slots
<1> QED BY <1>2, <1>3

-----------------------------------------------------------------------------
(* The rebuilding of the watermarks.                                        *)

Start == [name |-> Bottom, before |-> Bottom, stop |-> FALSE]
Reached(p, unread) ==
  CHOOSE reached : reached = [q \in 0 .. p |->
                                IF q = 0 THEN Start ELSE Advance(reached[q - 1], q - 1, unread)]

LEMMA RebuildIsReached ==
  ASSUME NEW p, NEW unread
  PROVE  Rebuild(p, unread) = Chain(Reached(p, unread)[p].name, Reached(p, unread)[p].name,
                                    Reached(p, unread)[p].before)
BY Zenon DEF Rebuild, Reached, Start

\* The recursion has a solution.
LEMMA ReachedSteps ==
  ASSUME NEW p \in Nat, NEW unread
  PROVE  /\ Reached(p, unread)[0] = Start
         /\ \A q \in 1 .. p :
              Reached(p, unread)[q] = Advance(Reached(p, unread)[q - 1], q - 1, unread)
<1> DEFINE E(c, q) == Advance(c, q - 1, unread)
           IsReached(f, k) == f = [i \in 0 .. k |-> IF i = 0 THEN Start ELSE E(f[i - 1], i)]
           S == {k \in Nat : \E f : IsReached(f, k)}
<1> HIDE DEF E
<1>1. 0 \in S
  <2> DEFINE f == [i \in 0 .. 0 |-> Start]
  <2>1. IsReached(f, 0)
    OBVIOUS
  <2> HIDE DEF f, IsReached
  <2> QED BY <2>1
<1>2. ASSUME NEW k \in 0 .. p - 1, k \in S
      PROVE  k + 1 \in S
  <2>1. PICK f : f = [i \in 0 .. k |-> IF i = 0 THEN Start ELSE E(f[i - 1], i)]
    BY <1>2
  <2> DEFINE g == [i \in 0 .. k + 1 |-> IF i = k + 1 THEN E(f[k], i) ELSE f[i]]
  <2>2. \A i \in 0 .. k + 1 : g[i] = IF i = 0 THEN Start ELSE E(g[i - 1], i)
    BY <2>1
  <2>3. IsReached(g, k + 1)
    BY <2>2
  <2> HIDE DEF g, IsReached
  <2> QED BY <2>3
<1>3. p \in S
  BY <1>1, <1>2, Induction, p \in 0 .. p
<1>4. \E f : IsReached(f, p)
  BY <1>3
<1>5. IsReached(Reached(p, unread), p)
  BY <1>4, Zenon DEF Reached, E
<1>6. /\ Reached(p, unread)[0] = Start
      /\ \A q \in 1 .. p : Reached(p, unread)[q] = E(Reached(p, unread)[q - 1], q)
  BY <1>5
<1> QED BY <1>6 DEF E

Progresses == [name : Marks, before : Marks, stop : BOOLEAN]

LEMMA AdvanceType ==
  ASSUME dir \in Directories, inSubDir \in BOOLEAN, NEW c \in Progresses, NEW q \in Nat, NEW unread
  PROVE  Advance(c, q, unread) \in Progresses
<1>1. MarkAfter(c.name, Scan(c.name, ScanTarget(q)), unread) \in Marks
  BY PageNumbers, MarkAfterType DEF Progresses
<1> HIDE DEF Marks
<1> QED BY <1>1 DEF Advance, Progresses

LEMMA ReachedType ==
  ASSUME dir \in Directories, inSubDir \in BOOLEAN, NEW p \in Nat, NEW unread
  PROVE  \A q \in 0 .. p : Reached(p, unread)[q] \in Progresses
<1> DEFINE S == {q \in Nat : Reached(p, unread)[q] \in Progresses}
<1>1. 0 \in S
  <2>1. Start \in Progresses
    BY DEF Start, Progresses, Marks
  <2> QED BY <2>1, ReachedSteps
<1>2. ASSUME NEW k \in 0 .. p - 1, k \in S
      PROVE  k + 1 \in S
  <2>1. Reached(p, unread)[k + 1] = Advance(Reached(p, unread)[k], k, unread)
    BY ReachedSteps
  <2> QED BY <1>2, <2>1, AdvanceType
<1> HIDE DEF S
<1>3. 0 .. p \subseteq S
  BY <1>1, <1>2, Induction
<1> QED BY <1>3 DEF S

LEMMA SetupType ==
  ASSUME TypeOK, NEW p \in Nat, NEW unread
  PROVE  WatermarkSetup(p, unread) \in [name : Marks, prev : Marks, pp : Marks]
<1>1. {wm, wmPrev, wmPp} \subseteq Marks /\ Bottom \in Marks
  BY DEF TypeOK, Marks
<1>2. Reached(p, unread)[p] \in Progresses
  BY ReachedType, p \in 0 .. p DEF TypeOK
<1>3. /\ Reached(p, unread)[p].name \in Marks
      /\ Reached(p, unread)[p].before \in Marks
  BY <1>2 DEF Progresses
<1> HIDE DEF Marks
<1> QED BY <1>1, <1>3, RebuildIsReached DEF WatermarkSetup, StepBack, Chain

-----------------------------------------------------------------------------
(* Reading a page: types, and the indices behind the rows.                  *)

DotDotRows(p) == IF DotDotOn(p) THEN 1 ELSE 0

LEMMA PagesType ==
  ASSUME dir \in Directories, inSubDir \in BOOLEAN
  PROVE  Pages \in Nat
<1>1. GetCount \in Nat /\ PageSize \in Nat \ {0}
  BY PageNumbers, 0 \in Nat
<1>2. PICK q \in Int, r \in 0 .. PageSize - 1 :
        GetCount = PageSize * q + r /\ GetCount \div PageSize = q
  BY <1>1, DivMod
<1>3. q >= 0
  <2> SUFFICES ASSUME q <= -1
               PROVE  FALSE
    BY <1>2
  <2>1. PageSize * q <= PageSize * (-1)
    BY <1>1
  <2> QED BY <1>1, <1>2, <2>1
<1> QED BY <1>2, <1>3 DEF Pages

\* The number of pages that is sent, in one byte.
LEMMA PageCountFacts ==
  ASSUME dir \in Directories, inSubDir \in BOOLEAN
  PROVE  Pages % 256 \in 0 .. 255 /\ Pages % 256 <= Pages
<1>1. Pages \in Nat
  BY PagesType
<1>2. PICK q \in Int, r \in 0 .. 255 : Pages = 256 * q + r /\ Pages % 256 = r
  BY <1>1, DivMod, 256 \in Nat \ {0}
<1> HIDE DEF Pages
<1> QED BY <1>1, <1>2

LEMMA TrailType ==
  ASSUME NEW p
  PROVE  Trail(p) \in {"fresh", "retraced", "lost"}
BY DEF Trail

\* Sixteen bits in two bytes.
LEMMA TwoBytes ==
  ASSUME NEW n \in 0 .. NoEntry
  PROVE  n % 256 \in 0 .. 255 /\ n \div 256 \in 0 .. 255 /\ (n % 256) + 256 * (n \div 256) = n
<1>1. PICK q \in Int, r \in 0 .. 255 : n = 256 * q + r /\ n % 256 = r /\ n \div 256 = q
  BY DivMod, n \in Int, 256 \in Nat \ {0}, SMTT(20)
<1>2. n \in Nat /\ n <= 65535
  BY DEF NoEntry
<1>3. q \in 0 .. 255
  BY <1>1, <1>2, SMTT(20)
<1> QED BY <1>1, <1>3, SMTT(20)

LEMMA FromBytes ==
  \A low, high \in 0 .. 255 : low + 256 * high \in 0 .. NoEntry
BY SMTT(20) DEF NoEntry

LEMMA CacheByteType ==
  ASSUME NEW cache \in Seq(0 .. NoEntry), NEW offset \in Nat
  PROVE  CacheByte(cache, offset) \in 0 .. 255
<1> DEFINE row == offset \div 2
           entry == IF row < Len(cache) THEN cache[row + 1] ELSE NoEntry
<1>1. row \in Nat
  <2>1. PICK q \in Int, r \in 0 .. 1 : offset = 2 * q + r /\ offset \div 2 = q
    BY DivMod, offset \in Int, 2 \in Nat \ {0}
  <2> QED BY <2>1
<1>2. CacheByte(cache, offset) = IF offset % 2 = 0 THEN entry % 256 ELSE entry \div 256
  BY DEF CacheByte
<1> HIDE DEF row
<1>3. entry \in 0 .. NoEntry
  <2>1. CASE row < Len(cache)
    <3>1. row + 1 \in 1 .. Len(cache)
      BY <1>1, <2>1
    <3> DEFINE T == 0 .. NoEntry
    <3> HIDE DEF T
    <3>2. cache[row + 1] \in T
      <4>1. cache \in Seq(T)
        BY DEF T
      <4> QED BY <3>1, <4>1
    <3> QED BY <2>1, <3>2 DEF T
  <2>2. CASE ~(row < Len(cache))
    BY <2>2 DEF NoEntry
  <2> QED BY <2>1, <2>2
<1> HIDE DEF entry
<1>4. entry % 256 \in 0 .. 255 /\ entry \div 256 \in 0 .. 255
  BY <1>3, TwoBytes
<1> QED BY <1>2, <1>4

LEMMA SlotIdxFacts ==
  ASSUME NEW cache \in Seq(0 .. NoEntry), NEW n \in Nat \ {0}, NEW idx \in 0 .. NoEntry
  PROVE  /\ SlotIdx(cache, n, idx) \in 0 .. NoEntry
         /\ Untouched(n) => SlotIdx(cache, n, idx) = idx
<1> DEFINE a == SlotBytes * n - 3
           b == SlotBytes * n - 2
           u == idx % 256
           v == idx \div 256
           low == SlotByte(cache, a, u)
           high == SlotByte(cache, b, v)
<1>1. u \in 0 .. 255 /\ v \in 0 .. 255 /\ u + 256 * v = idx
  BY TwoBytes
<1>2. a \in Nat /\ b = a + 1 /\ CacheOffset \in Nat
  <2>1. SlotBytes \in Nat /\ SlotBytes >= 3 /\ BufferBytes \in Nat /\ CacheRows \in Nat
        /\ 2 * CacheRows <= BufferBytes
    BY PagingAssumption
  <2>2. SlotBytes * n >= SlotBytes * 1
    BY <2>1
  <2>3. SlotBytes * n \in Nat
    BY <2>1
  <2> QED BY <2>1, <2>2, <2>3 DEF CacheOffset
<1>3. SlotIdx(cache, n, idx) = low + 256 * high
  BY DEF SlotIdx
<1>4. Untouched(n) <=> b < CacheOffset
  BY DEF Untouched
<1> HIDE DEF a, b, u, v
<1>5. \A x \in Nat : \A own \in 0 .. 255 :
        /\ SlotByte(cache, x, own) \in 0 .. 255
        /\ x < CacheOffset => SlotByte(cache, x, own) = own
  <2> SUFFICES ASSUME NEW x \in Nat, NEW own \in 0 .. 255
               PROVE  /\ SlotByte(cache, x, own) \in 0 .. 255
                      /\ x < CacheOffset => SlotByte(cache, x, own) = own
    OBVIOUS
  <2>1. CASE x < CacheOffset
    BY <2>1 DEF SlotByte
  <2>2. CASE ~(x < CacheOffset)
    <3>1. x - CacheOffset \in Nat
      BY <1>2, <2>2
    <3> QED BY <2>2, <3>1, CacheByteType DEF SlotByte
  <2> QED BY <2>1, <2>2
<1>6. low \in 0 .. 255 /\ high \in 0 .. 255
  <2>1. b \in Nat
    BY <1>2
  <2> QED BY <1>1, <1>2, <1>5, <2>1
<1>7. b < CacheOffset => low = u /\ high = v
  <2>1. b < CacheOffset => a < CacheOffset
    BY <1>2
  <2>2. b \in Nat
    BY <1>2
  <2> QED BY <1>1, <1>2, <1>5, <2>1, <2>2
<1> HIDE DEF low, high
<1>8. low + 256 * high \in 0 .. NoEntry
  BY <1>6, FromBytes
<1>9. b < CacheOffset => low + 256 * high = idx
  BY <1>1, <1>7
<1> QED BY <1>3, <1>4, <1>8, <1>9

\* The copying of the slots into the cache as a function.
CopyOne(cache, slots, n) == Append(cache, SlotIdx(cache, n, slots[n].idx))
Copied(heading, slots) ==
  CHOOSE cache : cache = [n \in 0 .. Len(slots) |->
                            IF n = 0 THEN heading ELSE CopyOne(cache[n - 1], slots, n)]

LEMMA CopiedAfterIsCopied ==
  ASSUME NEW heading, NEW slots
  PROVE  CopiedAfter(heading, slots) = Copied(heading, slots)[Len(slots)]
BY Zenon DEF CopiedAfter, Copied, CopyOne

\* The recursion has a solution.
LEMMA CopySteps ==
  ASSUME NEW heading, NEW slots, Len(slots) \in Nat
  PROVE  /\ Copied(heading, slots)[0] = heading
         /\ \A i \in 1 .. Len(slots) :
              Copied(heading, slots)[i] = CopyOne(Copied(heading, slots)[i - 1], slots, i)
<1> DEFINE E(c, i) == CopyOne(c, slots, i)
           IsCopy(f, k) == f = [i \in 0 .. k |-> IF i = 0 THEN heading ELSE E(f[i - 1], i)]
           S == {k \in Nat : \E f : IsCopy(f, k)}
<1> HIDE DEF E
<1>1. 0 \in S
  <2> DEFINE f == [i \in 0 .. 0 |-> heading]
  <2>1. IsCopy(f, 0)
    OBVIOUS
  <2> HIDE DEF f, IsCopy
  <2> QED BY <2>1
<1>2. ASSUME NEW k \in 0 .. Len(slots) - 1, k \in S
      PROVE  k + 1 \in S
  <2>1. PICK f : f = [i \in 0 .. k |-> IF i = 0 THEN heading ELSE E(f[i - 1], i)]
    BY <1>2
  <2> DEFINE g == [i \in 0 .. k + 1 |-> IF i = k + 1 THEN E(f[k], i) ELSE f[i]]
  <2>2. \A i \in 0 .. k + 1 : g[i] = IF i = 0 THEN heading ELSE E(g[i - 1], i)
    BY <2>1
  <2>3. IsCopy(g, k + 1)
    BY <2>2
  <2> HIDE DEF g, IsCopy
  <2> QED BY <2>3
<1>3. Len(slots) \in S
  BY <1>1, <1>2, Induction, Len(slots) \in 0 .. Len(slots)
<1>4. \E f : IsCopy(f, Len(slots))
  BY <1>3
<1>5. IsCopy(Copied(heading, slots), Len(slots))
  BY <1>4, Zenon DEF Copied, E
<1>6. /\ Copied(heading, slots)[0] = heading
      /\ \A i \in 1 .. Len(slots) :
           Copied(heading, slots)[i] = E(Copied(heading, slots)[i - 1], i)
  BY <1>5
<1> QED BY <1>6 DEF E

\* What the cache holds after n slots: a row for each, right where the slot was
\* untouched.
CopiedTo(cache, h, slots, n) ==
  /\ cache \in Seq(0 .. NoEntry) /\ Len(cache) = n + h
  /\ \A r \in 1 .. n : Untouched(r) => cache[r + h] = slots[r].idx

LEMMA CopyOneRight ==
  ASSUME NEW h \in 0 .. 1, NEW slots, NEW k \in Nat, slots[k + 1].idx \in 0 .. NoEntry,
         NEW cache, CopiedTo(cache, h, slots, k)
  PROVE  CopiedTo(CopyOne(cache, slots, k + 1), h, slots, k + 1)
<1> DEFINE idx == slots[k + 1].idx
           value == SlotIdx(cache, k + 1, idx)
           new == Append(cache, value)
<1>1. /\ cache \in Seq(0 .. NoEntry) /\ Len(cache) = k + h
      /\ \A r \in 1 .. k : Untouched(r) => cache[r + h] = slots[r].idx
  BY DEF CopiedTo
<1>2. value \in 0 .. NoEntry /\ (Untouched(k + 1) => value = idx)
  BY <1>1, SlotIdxFacts, k + 1 \in Nat \ {0}
<1>3. CopyOne(cache, slots, k + 1) = new
  BY DEF CopyOne
<1> HIDE DEF value
<1>4. /\ new \in Seq(0 .. NoEntry) /\ Len(new) = k + 1 + h
      /\ new[k + 1 + h] = value
      /\ \A j \in 1 .. k + h : new[j] = cache[j]
  <2> DEFINE T == 0 .. NoEntry
  <2> HIDE DEF T
  <2>1. cache \in Seq(T) /\ value \in T
    BY <1>1, <1>2 DEF T
  <2>2. /\ new \in Seq(T) /\ Len(new) = Len(cache) + 1
        /\ new[Len(cache) + 1] = value
        /\ \A j \in 1 .. Len(cache) : new[j] = cache[j]
    BY <2>1
  <2>3. Len(cache) + 1 = k + 1 + h
    BY <1>1
  <2> QED BY <1>1, <2>2, <2>3 DEF T
<1> HIDE DEF new
<1>5. ASSUME NEW r \in 1 .. k + 1, Untouched(r)
      PROVE  new[r + h] = slots[r].idx
  <2>1. CASE r = k + 1
    BY <1>2, <1>4, <1>5, <2>1
  <2>2. CASE r # k + 1
    <3>1. r \in 1 .. k /\ r + h \in 1 .. k + h
      BY <2>2
    <3> QED BY <1>1, <1>4, <1>5, <3>1
  <2> QED BY <2>1, <2>2
<1> QED BY <1>3, <1>4, <1>5 DEF CopiedTo

LEMMA CachedFacts ==
  ASSUME dir \in Directories, NEW p \in Nat, NEW slots \in Seq(Slots),
         \A j \in DOMAIN slots : slots[j].idx \in 1 .. Len(dir)
  PROVE  CopiedTo(CachedIndices(p, slots), DotDotRows(p), slots, Len(slots))
<1> DEFINE heading == IF DotDotOn(p) THEN <<NoEntry>> ELSE << >>
           h == DotDotRows(p)
           C(n) == Copied(heading, slots)[n]
           S == {n \in Nat : CopiedTo(C(n), h, slots, n)}
<1>1. /\ Len(dir) \in Nat /\ Len(dir) < NoEntry
      /\ Len(slots) \in Nat /\ DOMAIN slots = 1 .. Len(slots) /\ h \in 0 .. 1
  BY PagingAssumption, DirFacts DEF DotDotRows, NoEntry
<1>2. \A n \in 1 .. Len(slots) : slots[n].idx \in 0 .. NoEntry
  <2>1. NoEntry \in Nat
    BY DEF NoEntry
  <2>2. 1 .. Len(dir) \subseteq 0 .. NoEntry
    BY <1>1, <2>1
  <2> QED BY <1>1, <2>2
<1>3. heading \in Seq(0 .. NoEntry) /\ Len(heading) = h
  <2>1. NoEntry \in 0 .. NoEntry
    BY DEF NoEntry
  <2>2. <<NoEntry>> \in Seq(0 .. NoEntry) /\ Len(<<NoEntry>>) = 1
    BY <2>1
  <2>3. << >> \in Seq(0 .. NoEntry) /\ Len(<< >>) = 0
    OBVIOUS
  <2>4. CASE DotDotOn(p)
    BY <2>2, <2>4 DEF DotDotRows
  <2>5. CASE ~DotDotOn(p)
    BY <2>3, <2>5 DEF DotDotRows
  <2> QED BY <2>4, <2>5
<1>4. CachedIndices(p, slots) = C(Len(slots))
  BY CopiedAfterIsCopied DEF CachedIndices
<1> HIDE DEF heading, h
<1>5. C(0) = heading /\ \A n \in 1 .. Len(slots) : C(n) = CopyOne(C(n - 1), slots, n)
  BY <1>1, CopySteps
<1> HIDE DEF C
<1>6. 0 \in S
  BY <1>1, <1>3, <1>5 DEF CopiedTo
<1>7. ASSUME NEW k \in 0 .. Len(slots) - 1, k \in S
      PROVE  k + 1 \in S
  <2>1. k \in Nat /\ k + 1 \in 1 .. Len(slots) /\ (k + 1) - 1 = k
    BY <1>1
  <2>2. C(k + 1) = CopyOne(C(k), slots, k + 1)
    BY <1>5, <2>1
  <2>3. slots[k + 1].idx \in 0 .. NoEntry
    BY <1>2, <2>1
  <2>4. CopiedTo(C(k + 1), h, slots, k + 1)
    BY <1>1, <1>7, <2>1, <2>2, <2>3, CopyOneRight
  <2> QED BY <2>1, <2>4
<1>8. Len(slots) \in S
  <2> HIDE DEF S
  <2> QED BY <1>1, <1>6, <1>7, Induction, Len(slots) \in 0 .. Len(slots)
<1> QED BY <1>4, <1>8 DEF h

\* The cached index of each row whose slot lies before the cache is that of the
\* entry it shows.
RowsMatch ==
  Listed =>
    /\ pagePage = curPage
    /\ Len(pageIdx) = Len(rows) + DotDotRows(curPage)
    /\ \A r \in DOMAIN rows : Untouched(r) =>
         LET index == pageIdx[r + DotDotRows(curPage)]
         IN /\ index \in 1 .. Len(dir)
            /\ dir[index].isDir = rows[r].isDir
            /\ rows[r].name \in {dir[index].name, KeyOf(dir[index].name)}

LEMMA ReadTypes ==
  ASSUME TypeOK, NEW p \in Nat, ReadPage(p)
  PROVE  TypeOK' /\ RowsMatch'
<1>1. PICK unread : HandleReadDirectory(p, unread) /\ UNCHANGED <<dir, inSubDir>>
  BY DEF ReadPage
<1> DEFINE chain == WatermarkSetup(p, unread)
           slots == Scan(chain.name, ScanTarget(p))
           sent == [i \in DOMAIN slots |-> SentOf(slots[i], unread)]
<1>2. dir \in Directories /\ inSubDir \in BOOLEAN
  BY DEF TypeOK
<1>3. chain.name \in Marks /\ chain.prev \in Marks /\ chain.pp \in Marks
  <2>1. chain \in [name : Marks, prev : Marks, pp : Marks]
    BY SetupType
  <2> HIDE DEF chain, Marks
  <2> QED BY <2>1
<1>4. ScanTarget(p) \in Nat /\ ItemsOn(p) \in 0 .. PageSize /\ Len(dir) \in Nat
  BY <1>2, PageNumbers
<1>5. MarkAfter(chain.name, slots, unread) \in Marks
  BY <1>2, <1>3, <1>4, MarkAfterType
<1>6. /\ slots \in Seq(Slots)
      /\ \A j \in DOMAIN slots : slots[j].idx \in 1 .. Len(dir) /\ slots[j] = SlotOf(slots[j].idx)
  BY <1>2, <1>4, ScanFacts
<1>7. /\ wm' = MarkAfter(chain.name, slots, unread) /\ wmPrev' = chain.prev /\ wmPp' = chain.pp
      /\ cachedPage' = p /\ pagePage' = p /\ curPage' = p
      /\ pageIdx' = CachedIndices(p, slots) /\ items' = ItemsOn(p) /\ pageCount' = Pages % 256
      /\ rows' = sent
      /\ dir' = dir /\ inSubDir' = inSubDir
  BY <1>1 DEF HandleReadDirectory
<1> HIDE DEF slots, chain
<1>8. \A j \in DOMAIN slots :
        /\ SentOf(slots[j], unread) \in Entries
        /\ SentOf(slots[j], unread).isDir = dir[slots[j].idx].isDir
        /\ SentOf(slots[j], unread).name \in {dir[slots[j].idx].name, KeyOf(dir[slots[j].idx].name)}
  <2> SUFFICES ASSUME NEW j \in DOMAIN slots
               PROVE  /\ SentOf(slots[j], unread) \in Entries
                      /\ SentOf(slots[j], unread).isDir = dir[slots[j].idx].isDir
                      /\ SentOf(slots[j], unread).name
                           \in {dir[slots[j].idx].name, KeyOf(dir[slots[j].idx].name)}
    OBVIOUS
  <2> DEFINE i == slots[j].idx
  <2>1. i \in 1 .. Len(dir) /\ slots[j] = SlotOf(i)
    BY <1>6
  <2>2. /\ SentOf(SlotOf(i), unread) \in Entries
        /\ SentOf(SlotOf(i), unread).isDir = dir[i].isDir
        /\ SentOf(SlotOf(i), unread).name \in {dir[i].name, KeyOf(dir[i].name)}
    BY <1>2, <2>1, SentFacts
  <2> QED BY <2>1, <2>2
<1>9. /\ DOMAIN slots = 1 .. Len(slots) /\ Len(slots) \in Nat
      /\ sent \in Seq(Entries) /\ Len(sent) = Len(slots) /\ DOMAIN sent = 1 .. Len(slots)
      /\ \A r \in 1 .. Len(slots) : sent[r] = SentOf(slots[r], unread)
  <2>1. DOMAIN slots = 1 .. Len(slots) /\ Len(slots) \in Nat
    BY <1>6
  <2>2. sent \in [1 .. Len(slots) -> Entries]
    BY <1>8, <2>1
  <2> QED BY <2>1, <2>2
<1> HIDE DEF sent
<1>10. /\ CachedIndices(p, slots) \in Seq(0 .. NoEntry)
       /\ Len(CachedIndices(p, slots)) = Len(slots) + DotDotRows(p)
       /\ \A r \in 1 .. Len(slots) :
            Untouched(r) => CachedIndices(p, slots)[r + DotDotRows(p)] = slots[r].idx
  BY <1>2, <1>6, CachedFacts DEF CopiedTo
<1>11. TypeOK'
  <2>1. (dir \in Directories /\ inSubDir \in BOOLEAN)'
    BY <1>2, <1>7
  <2>2. ({wm, wmPrev, wmPp} \subseteq Entries \cup {Bottom})'
    BY <1>3, <1>5, <1>7 DEF Marks
  <2>3. (cachedPage \in Nat \cup {NoPage} /\ pagePage \in Nat \cup {NoPage} /\ curPage \in Nat)'
    BY <1>7
  <2>4. (pageIdx \in Seq(0 .. NoEntry))'
    BY <1>7, <1>10
  <2>5. (items \in 0 .. PageSize /\ pageCount \in 0 .. 255)'
    BY <1>2, <1>4, <1>7, PageCountFacts
  <2>6. (rows \in Seq(Entries))'
    BY <1>7, <1>9
  <2>7. (trail \in {"fresh", "retraced", "lost"})'
    BY TrailType DEF ReadPage
  <2> QED BY <2>1, <2>2, <2>3, <2>4, <2>5, <2>6, <2>7 DEF TypeOK
<1>12. RowsMatch'
  <2>1. DotDotRows(p)' = DotDotRows(p)
    BY <1>7 DEF DotDotRows, DotDotOn
  <2>2. (pagePage = curPage /\ Len(pageIdx) = Len(rows) + DotDotRows(curPage))'
    BY <1>7, <1>9, <1>10 DEF DotDotRows, DotDotOn
  <2>3. ASSUME NEW r \in DOMAIN rows', Untouched(r)
        PROVE  LET index == pageIdx'[r + DotDotRows(p)]
               IN /\ index \in 1 .. Len(dir)
                  /\ dir[index].isDir = rows'[r].isDir
                  /\ rows'[r].name \in {dir[index].name, KeyOf(dir[index].name)}
    <3>1. r \in DOMAIN slots /\ rows'[r] = SentOf(slots[r], unread)
      BY <1>7, <1>9, <2>3
    <3>2. pageIdx'[r + DotDotRows(p)] = slots[r].idx
      BY <1>7, <1>9, <1>10, <2>3, <3>1
    <3> QED BY <1>6, <1>8, <3>1, <3>2
  <2>4. DotDotRows(curPage)' = DotDotRows(p)
    BY <1>7 DEF DotDotRows, DotDotOn
  <2> QED BY <1>7, <2>2, <2>3, <2>4 DEF RowsMatch, KeyOf
<1> QED BY <1>11, <1>12

-----------------------------------------------------------------------------
(* The invariant of types and indices.                                      *)

LEMMA InitTypes == Init => TypeOK /\ RowsMatch
<1> SUFFICES ASSUME Init
             PROVE  TypeOK /\ RowsMatch
  OBVIOUS
<1>1. PageSize \in Nat /\ << >> \in Seq(0 .. NoEntry) /\ << >> \in Seq(Entries)
  BY PagingAssumption
<1> QED BY <1>1 DEF Init, TypeOK, RowsMatch, Listed

LEMMA NextTypes == TypeOK /\ RowsMatch /\ [Next]_vars => (TypeOK /\ RowsMatch)'
<1> SUFFICES ASSUME TypeOK, RowsMatch, [Next]_vars
             PROVE  (TypeOK /\ RowsMatch)'
  OBVIOUS
<1>1. CASE FirstPage
  BY <1>1, ReadTypes, 0 \in Nat DEF FirstPage
<1>2. CASE NextPage
  <2>1. curPage + 1 \in Nat
    BY DEF TypeOK
  <2> QED BY <1>2, <2>1, ReadTypes DEF NextPage
<1>3. CASE PrevPage
  <2>1. curPage - 1 \in Nat
    BY <1>3 DEF PrevPage, TypeOK
  <2> QED BY <1>3, <2>1, ReadTypes DEF PrevPage
<1>4. ASSUME NEW p \in 0 .. pageCount - 1, JumpTo(p)
      PROVE  (TypeOK /\ RowsMatch)'
  <2>1. p \in Nat
    BY DEF TypeOK
  <2> QED BY <1>4, <2>1, ReadTypes DEF JumpTo
<1>5. CASE ChangeDirectory
  <2>1. << >> \in Seq(0 .. NoEntry)
    OBVIOUS
  <2>2. TypeOK'
    BY <1>5, <2>1 DEF ChangeDirectory, TypeOK, screenVars
  <2> QED BY <1>5, <2>2 DEF ChangeDirectory, RowsMatch, Listed
<1>6. CASE UNCHANGED vars
  BY <1>6 DEF vars, firmwareVars, screenVars, TypeOK, RowsMatch, Listed, DotDotRows, DotDotOn, KeyOf
<1> QED BY <1>1, <1>2, <1>3, <1>4, <1>5, <1>6 DEF Next

\* Every variable keeps to its kind, whatever is asked for and whatever the
\* card fails to give.
THEOREM TypeCorrect == Spec => []TypeOK
<1>1. TypeOK /\ RowsMatch => TypeOK
  OBVIOUS
<1> QED BY <1>1, InitTypes, NextTypes, PTL DEF Spec

LEMMA MatchOpens == TypeOK /\ RowsMatch => RowOpensShown
<1> SUFFICES ASSUME TypeOK, RowsMatch, Listed, NEW r \in DOMAIN rows, Untouched(r)
             PROVE  OpensShown(r)
  BY DEF RowOpensShown
<1> DEFINE d == DotDotRows(curPage)
<1>1. rows \in Seq(Entries) /\ pageIdx \in Seq(0 .. NoEntry) /\ d \in 0 .. 1
  BY DEF TypeOK, DotDotRows
<1>2. r \in 1 .. Len(rows) /\ Len(rows) \in Nat
  BY <1>1
<1>3. RowOf(r) = r - 1 + d
  BY <1>2 DEF RowOf, DotDotRows
<1>4. pagePage = curPage /\ Len(pageIdx) = Len(rows) + d
  BY DEF RowsMatch
<1>5. /\ pageIdx[r + d] \in 1 .. Len(dir)
      /\ dir[pageIdx[r + d]].isDir = rows[r].isDir
      /\ rows[r].name \in {dir[pageIdx[r + d]].name, KeyOf(dir[pageIdx[r + d]].name)}
  BY DEF RowsMatch
<1> HIDE DEF d
<1>6. RowOf(r) < Len(pageIdx) /\ RowOf(r) + 1 = r + d
  BY <1>1, <1>2, <1>3, <1>4
<1>7. InvokeWithIndex(curPage, RowOf(r)) = pageIdx[r + d]
  BY <1>4, <1>6 DEF InvokeWithIndex
<1>8. DOMAIN dir = 1 .. Len(dir)
  BY DirFacts DEF TypeOK
<1> QED BY <1>5, <1>7, <1>8 DEF OpensShown

\* Every row whose slot lies before the dirIdx cache (18 of the menu's 21) launches
\* the entry it shows, also with shared keys and with entries that cannot be read
\* back (INVOKE_WITH_INDEX).
THEOREM RowOpensShownHolds == Spec => []RowOpensShown
BY InitTypes, NextTypes, MatchOpens, PTL DEF Spec

-----------------------------------------------------------------------------
(* Counting.                                                                *)

LEMMA CountRange ==
  ASSUME NEW n \in Nat, NEW R, NEW f \in [1 .. n -> R],
         \A x, y \in 1 .. n : f[x] = f[y] => x = y,
         \A r \in R : \E x \in 1 .. n : f[x] = r
  PROVE  IsFiniteSet(R) /\ Cardinality(R) = n
<1>1. IsFiniteSet(1 .. n) /\ Cardinality(1 .. n) = n
  BY FS_Interval
<1>2. f \in Surjection(1 .. n, R) /\ f \in Injection(1 .. n, R)
  BY DEF Surjection, Injection, IsInjective
<1> QED BY <1>1, <1>2, FS_Surjection

LEMMA CountDisjoint ==
  ASSUME NEW S, IsFiniteSet(S), NEW T, IsFiniteSet(T), S \cap T = {}
  PROVE  IsFiniteSet(S \cup T) /\ Cardinality(S \cup T) = Cardinality(S) + Cardinality(T)
<1>1. IsFiniteSet(S \cup T)
      /\ Cardinality(S \cup T) = Cardinality(S) + Cardinality(T) - Cardinality(S \cap T)
  BY FS_Union
<1>2. Cardinality(S \cap T) = 0
  BY FS_EmptySet
<1>3. Cardinality(S) \in Nat /\ Cardinality(T) \in Nat
  BY FS_CardinalityType
<1> QED BY <1>1, <1>2, <1>3

-----------------------------------------------------------------------------
(* A page whose names are their own keys.                                   *)

Beyond(mark) == {i \in DOMAIN dir : Above(mark, dir[i])}
Smaller(e) == {i \in DOMAIN dir : Before(dir[i], e)}

LEMMA CountFacts ==
  ASSUME dir \in Directories, NEW mark
  PROVE  /\ IsFiniteSet(UpTo(mark)) /\ IsFiniteSet(Beyond(mark)) /\ Count(mark) \in Nat
         /\ Cardinality(Beyond(mark)) = Len(dir) - Count(mark)
<1>1. DOMAIN dir = 1 .. Len(dir) /\ Len(dir) \in Nat
  BY DirFacts
<1>2. IsFiniteSet(DOMAIN dir) /\ Cardinality(DOMAIN dir) = Len(dir)
  <2>1. IsFiniteSet(1 .. Len(dir)) /\ Cardinality(1 .. Len(dir)) = Len(dir)
    <3> DEFINE n == Len(dir)
    <3>1. n \in Nat
      BY <1>1
    <3> HIDE DEF n
    <3>2. IsFiniteSet(1 .. n) /\ Cardinality(1 .. n) = n
      BY <3>1, FS_Interval
    <3> QED BY <3>2 DEF n
  <2> QED BY <1>1, <2>1
<1>3. IsFiniteSet(UpTo(mark)) /\ IsFiniteSet(Beyond(mark))
  BY <1>2, FS_Subset DEF UpTo, Beyond
<1>4. UpTo(mark) \cap Beyond(mark) = {} /\ UpTo(mark) \cup Beyond(mark) = DOMAIN dir
  BY DEF UpTo, Beyond
<1>5. Cardinality(DOMAIN dir) = Cardinality(UpTo(mark)) + Cardinality(Beyond(mark))
  BY <1>3, <1>4, CountDisjoint
<1>6. Cardinality(UpTo(mark)) \in Nat /\ Cardinality(Beyond(mark)) \in Nat
  BY <1>3, FS_CardinalityType
<1> QED BY <1>1, <1>2, <1>3, <1>5, <1>6 DEF Count

\* The indices in the slots: strictly ordered, and the smallest above mark.
Smallest(f, n, mark, cap) ==
  /\ n \in 0 .. cap /\ f \in [1 .. n -> Beyond(mark)]
  /\ \A x, y \in 1 .. n : x < y => Before(dir[f[x]], dir[f[y]])
  /\ \A i \in Beyond(mark) :
       (\E x \in 1 .. n : f[x] = i) \/ (n = cap /\ n > 0 /\ ~Before(dir[i], dir[f[n]]))

LEMMA OwnOrder ==
  ASSUME dir \in Directories, OwnKeys, NEW i \in 1 .. Len(dir), NEW j \in 1 .. Len(dir)
  PROVE  /\ Before(SlotOf(i), SlotOf(j)) = Before(dir[i], dir[j])
         /\ i # j => Before(dir[i], dir[j]) \/ Before(dir[j], dir[i])
<1>1. /\ SlotOf(i).isDir = dir[i].isDir /\ SlotOf(i).name = dir[i].name
      /\ SlotOf(j).isDir = dir[j].isDir /\ SlotOf(j).name = dir[j].name
  BY DirFacts DEF OwnKeys
<1>2. IsSlot(dir[i]) /\ IsSlot(dir[j]) /\ (i # j => dir[i].name # dir[j].name)
  BY DirFacts
<1>3. Before(SlotOf(i), SlotOf(j)) = Before(dir[i], dir[j])
  BY <1>1 DEF Before
<1> QED BY <1>2, <1>3, BeforeOrder

LEMMA ScanSmallest ==
  ASSUME dir \in Directories, OwnKeys, NEW mark, NEW cap \in Nat
  PROVE  LET slots == Scan(mark, cap)
         IN IF cap = 0 THEN slots = << >>
            ELSE Smallest([x \in 1 .. Len(slots) |-> slots[x].idx], Len(slots), mark, cap)
<1> SUFFICES ASSUME cap # 0
             PROVE  LET slots == Scan(mark, cap)
                    IN Smallest([x \in 1 .. Len(slots) |-> slots[x].idx], Len(slots), mark, cap)
  BY ScanRight
<1> DEFINE slots == Scan(mark, cap)
           n == Len(slots)
           f == [x \in 1 .. n |-> slots[x].idx]
<1>1. ScannedTo(slots, mark, cap, Len(dir))
  BY ScanRight
<1> HIDE DEF slots
<1>2. slots \in Seq(Slots) /\ n \in Nat /\ n <= cap /\ DOMAIN slots = 1 .. n
      /\ DOMAIN dir = 1 .. Len(dir)
  BY <1>1, DirFacts DEF ScannedTo
<1>3. \A x \in 1 .. n : /\ f[x] = slots[x].idx /\ f[x] \in 1 .. Len(dir)
                        /\ slots[x] = SlotOf(f[x]) /\ Above(mark, dir[f[x]])
  BY <1>1, <1>2 DEF ScannedTo
<1>4. f \in [1 .. n -> Beyond(mark)]
  BY <1>2, <1>3 DEF Beyond
<1>5. ASSUME NEW x \in 1 .. n, NEW y \in 1 .. n, x < y
      PROVE  Before(dir[f[x]], dir[f[y]])
  <2>1. ~Before(slots[y], slots[x]) /\ f[x] # f[y]
    <3>1. x \in DOMAIN slots /\ y \in DOMAIN slots /\ x # y
      BY <1>2, <1>5
    <3>2. ~Before(slots[y], slots[x])
      BY <1>1, <1>5, <3>1 DEF ScannedTo, Ordered
    <3>3. slots[x].idx # slots[y].idx
      BY <1>1, <3>1 DEF ScannedTo
    <3> QED BY <1>3, <3>2, <3>3
  <2> HIDE DEF f
  <2>2. ~Before(dir[f[y]], dir[f[x]])
    BY <1>3, <2>1, OwnOrder
  <2> QED BY <1>3, <2>1, <2>2, OwnOrder
<1>6. ASSUME NEW i \in Beyond(mark)
      PROVE  (\E x \in 1 .. n : f[x] = i) \/ (n = cap /\ n > 0 /\ ~Before(dir[i], dir[f[n]]))
  <2>1. i \in 1 .. Len(dir) /\ Above(mark, dir[i])
    BY <1>2 DEF Beyond
  <2>2. CASE Held(slots, i)
    BY <1>2, <2>2 DEF Held
  <2>3. CASE n = cap /\ ~Before(SlotOf(i), slots[cap])
    <3>1. n \in 1 .. n /\ n > 0
      BY <1>2, <2>3
    <3>2. slots[cap] = SlotOf(f[n]) /\ f[n] \in 1 .. Len(dir)
      BY <1>3, <2>3, <3>1
    <3> HIDE DEF f
    <3>3. ~Before(dir[i], dir[f[n]])
      BY <2>1, <2>3, <3>2, OwnOrder
    <3> QED BY <2>3, <3>1, <3>3
  <2> QED BY <1>1, <2>1, <2>2, <2>3 DEF ScannedTo
<1> HIDE DEF f
<1>7. Smallest(f, n, mark, cap)
  <2>1. n \in 0 .. cap
    BY <1>2
  <2> HIDE DEF n
  <2> QED BY <1>4, <1>5, <1>6, <2>1 DEF Smallest
<1> QED BY <1>7 DEF f, slots

\* An entry leaves itself and the smaller ones behind.
LEMMA CountOwn ==
  ASSUME dir \in Directories, NEW k \in 1 .. Len(dir)
  PROVE  /\ IsFiniteSet(Smaller(dir[k])) /\ Cardinality(Smaller(dir[k])) \in Nat
         /\ Count(dir[k]) = Cardinality(Smaller(dir[k])) + 1
<1> DEFINE e == dir[k]
<1>1. /\ DOMAIN dir = 1 .. Len(dir) /\ IsSlot(e)
      /\ \A i \in 1 .. Len(dir) : IsSlot(dir[i])
      /\ \A i, j \in 1 .. Len(dir) : dir[i].name = dir[j].name => i = j
  BY DirFacts
<1>2. ~Before(e, e)
  BY <1>1, BeforeOrder
<1>3. UpTo(e) = Smaller(e) \cup {k}
  <2>1. ASSUME NEW i \in UpTo(e)
        PROVE  i \in Smaller(e) \/ i = k
    <3>1. i \in 1 .. Len(dir) /\ ~Before(e, dir[i]) /\ IsSlot(dir[i])
      BY <1>1 DEF UpTo, Above
    <3>2. Before(dir[i], e) \/ i = k
      BY <1>1, <3>1, BeforeOrder
    <3> QED BY <1>1, <3>1, <3>2 DEF Smaller
  <2>2. ASSUME NEW i \in Smaller(e)
        PROVE  i \in UpTo(e)
    <3>1. i \in 1 .. Len(dir) /\ Before(dir[i], e) /\ IsSlot(dir[i])
      BY <1>1 DEF Smaller
    <3>2. ~Before(e, dir[i])
      BY <1>1, <3>1, BeforeOrder
    <3> QED BY <1>1, <3>1, <3>2 DEF UpTo, Above
  <2>3. k \in UpTo(e)
    BY <1>1, <1>2 DEF UpTo, Above
  <2> QED BY <2>1, <2>2, <2>3
<1>4. k \notin Smaller(e)
  BY <1>2 DEF Smaller
<1>5. IsFiniteSet(Smaller(e))
  <2>1. IsFiniteSet(UpTo(e)) /\ Smaller(e) \subseteq UpTo(e)
    BY <1>3, CountFacts
  <2> QED BY <2>1, FS_Subset
<1>6. Cardinality(UpTo(e)) = Cardinality(Smaller(e)) + 1
  BY <1>3, <1>4, <1>5, FS_AddElement
<1> QED BY <1>5, <1>6, FS_CardinalityType DEF Count

\* The entry in the x-th slot has x - 1 smaller ones above mark; with the last
\* slot, that many are left behind.
LEMMA SmallestRanks ==
  ASSUME dir \in Directories, NEW mark \in Marks, NEW cap \in Nat, NEW n, NEW f,
         Smallest(f, n, mark, cap), NEW x \in 1 .. n
  PROVE  /\ Cardinality(Smaller(dir[f[x]])) = Count(mark) + x - 1
         /\ x = n => Count(dir[f[n]]) = Count(mark) + n
<1> DEFINE e == dir[f[x]]
           below == {f[y] : y \in 1 .. x - 1}
<1>1. /\ DOMAIN dir = 1 .. Len(dir) /\ Len(dir) \in Nat /\ IsSlot(mark)
      /\ \A i \in 1 .. Len(dir) : IsSlot(dir[i])
      /\ \A i, j \in 1 .. Len(dir) : dir[i].name = dir[j].name => i = j
  BY DirFacts, MarkIsSlot
<1>2. /\ n \in Nat /\ n <= cap
      /\ \A y \in 1 .. n : f[y] \in Beyond(mark)
      /\ \A y, z \in 1 .. n : y < z => Before(dir[f[y]], dir[f[z]])
      /\ \A i \in Beyond(mark) :
           (\E y \in 1 .. n : f[y] = i) \/ (n = cap /\ n > 0 /\ ~Before(dir[i], dir[f[n]]))
  BY DEF Smallest
<1>3. \A i \in Beyond(mark) : i \in 1 .. Len(dir) /\ Before(mark, dir[i]) /\ IsSlot(dir[i])
  BY <1>1 DEF Beyond, Above
<1>4. f[x] \in 1 .. Len(dir) /\ IsSlot(e) /\ Before(mark, e) /\ f[x] \in Beyond(mark)
  BY <1>2, <1>3
<1>5. ASSUME NEW y \in 1 .. n, NEW z \in 1 .. n, f[y] = f[z]
      PROVE  y = z
  <2>1. IsSlot(dir[f[y]])
    BY <1>2, <1>3
  <2>2. ~Before(dir[f[y]], dir[f[y]])
    BY <2>1, BeforeOrder
  <2>3. ~(y < z) /\ ~(z < y)
    BY <1>2, <1>5, <2>2
  <2> QED BY <1>2, <2>3
<1>6. Smaller(e) = UpTo(mark) \cup below
  <2>1. ASSUME NEW i \in UpTo(mark)
        PROVE  i \in Smaller(e)
    <3>1. i \in 1 .. Len(dir) /\ ~Before(mark, dir[i]) /\ IsSlot(dir[i])
      BY <1>1 DEF UpTo, Above
    <3>2. Before(dir[i], e)
      BY <1>1, <1>4, <3>1, BeforeOrder
    <3> QED BY <1>1, <3>1, <3>2 DEF Smaller
  <2>2. ASSUME NEW y \in 1 .. x - 1
        PROVE  f[y] \in Smaller(e)
    <3>1. y \in 1 .. n /\ y < x
      BY <1>2
    <3>2. Before(dir[f[y]], e) /\ f[y] \in 1 .. Len(dir)
      BY <1>2, <1>3, <3>1
    <3> QED BY <1>1, <3>2 DEF Smaller
  <2>3. ASSUME NEW i \in Smaller(e), i \notin UpTo(mark)
        PROVE  i \in below
    <3>1. i \in 1 .. Len(dir) /\ Before(dir[i], e) /\ i \in Beyond(mark) /\ IsSlot(dir[i])
      BY <1>1, <2>3 DEF Smaller, Beyond, UpTo
    <3>2. CASE \E y \in 1 .. n : f[y] = i
      <4>1. PICK y \in 1 .. n : f[y] = i
        BY <3>2
      <4>2. y # x
        BY <1>4, <3>1, <4>1, BeforeOrder
      <4>3. ~(x < y)
        BY <1>2, <1>4, <3>1, <4>1, BeforeOrder
      <4>4. y \in 1 .. x - 1
        BY <1>2, <4>2, <4>3
      <4> QED BY <4>1, <4>4
    <3>3. CASE n = cap /\ n > 0 /\ ~Before(dir[i], dir[f[n]])
      <4>1. n \in 1 .. n
        BY <1>2, <3>3
      <4>2. IsSlot(dir[f[n]])
        BY <1>2, <1>3, <4>1
      <4>3. x # n
        BY <3>1, <3>3
      <4>4. Before(e, dir[f[n]])
        <5>1. x < n
          BY <1>2, <4>3
        <5> QED BY <1>2, <4>1, <5>1
      <4>5. Before(dir[i], dir[f[n]])
        BY <1>4, <3>1, <4>2, <4>4, BeforeOrder
      <4> QED BY <3>3, <4>5
    <3> QED BY <1>2, <3>1, <3>2, <3>3
  <2> QED BY <2>1, <2>2, <2>3
<1>7. UpTo(mark) \cap below = {}
  <2>1. \A y \in 1 .. x - 1 : y \in 1 .. n
    BY <1>2
  <2>2. \A y \in 1 .. n : f[y] \notin UpTo(mark)
    BY <1>2 DEF UpTo, Beyond
  <2> QED BY <2>1, <2>2
<1>8. IsFiniteSet(below) /\ Cardinality(below) = x - 1
  <2> DEFINE k == x - 1
             g == [y \in 1 .. k |-> f[y]]
  <2>1. k \in Nat /\ \A y \in 1 .. k : y \in 1 .. n
    BY <1>2
  <2>2. g \in [1 .. k -> below] /\ \A r \in below : \E y \in 1 .. k : g[y] = r
    OBVIOUS
  <2>3. \A y, z \in 1 .. k : g[y] = g[z] => y = z
    BY <1>5, <2>1
  <2> HIDE DEF g, below, k
  <2>4. IsFiniteSet(below) /\ Cardinality(below) = k
    BY <2>1, <2>2, <2>3, CountRange
  <2> QED BY <2>4 DEF k
<1> HIDE DEF below
<1>9. IsFiniteSet(UpTo(mark)) /\ Count(mark) \in Nat
  BY CountFacts
<1>10. IsFiniteSet(Smaller(e)) /\ Cardinality(Smaller(e)) = Count(mark) + (x - 1)
  BY <1>6, <1>7, <1>8, <1>9, CountDisjoint DEF Count
<1>11. Cardinality(Smaller(e)) = Count(mark) + x - 1
  BY <1>2, <1>9, <1>10
<1>12. Count(e) = Count(mark) + x
  <2>1. Count(e) = Cardinality(Smaller(e)) + 1
    BY <1>4, CountOwn
  <2> QED BY <1>2, <1>9, <1>11, <2>1
<1> QED BY <1>11, <1>12

LEMMA MarkBottom ==
  ASSUME dir \in Directories
  PROVE  Count(Bottom) = EntriesBefore(0)
<1>1. DOMAIN dir = 1 .. Len(dir) /\ Len(dir) \in Nat
  BY DirFacts
<1>2. ASSUME NEW i \in 1 .. Len(dir)
      PROVE  Before(Bottom, dir[i])
  <2>1. dir[i].isDir \in BOOLEAN /\ dir[i] \in Entries
    BY DirFacts
  <2>2. dir[i].name > 0
    BY <2>1 DEF Entries
  <2> QED BY <2>1, <2>2 DEF Before, Bottom
<1>3. UpTo(Bottom) = {}
  BY <1>1, <1>2 DEF UpTo, Above
<1>4. EntriesBefore(0) = 0
  BY <1>1 DEF EntriesBefore, Offset
<1> QED BY <1>3, <1>4, FS_EmptySet DEF Count

\* A page that is read with the right watermark is right and leaves the right
\* watermark behind.
LEMMA PageRead ==
  ASSUME dir \in Directories, inSubDir \in BOOLEAN, OwnKeys, NEW mark \in Marks, NEW p \in Nat,
         Count(mark) = EntriesBefore(p), NEW unread
  PROVE  LET slots == Scan(mark, ScanTarget(p))
         IN /\ Len(slots) = ScanTarget(p)
            /\ \A r \in 1 .. Len(slots) :
                 /\ slots[r].idx \in DOMAIN dir
                 /\ SentOf(slots[r], unread) = dir[slots[r].idx]
                 /\ Rank(SentOf(slots[r], unread)) = EntriesBefore(p) + r - 1
            /\ Count(MarkAfter(mark, slots, unread)) = EntriesBefore(p + 1)
<1> DEFINE cap == ScanTarget(p)
           slots == Scan(mark, cap)
           n == Len(slots)
           f == [x \in 1 .. n |-> slots[x].idx]
<1>1. /\ cap \in Nat /\ cap = EntriesBefore(p + 1) - EntriesBefore(p)
      /\ EntriesBefore(p) \in 0 .. Len(dir) /\ EntriesBefore(p + 1) \in 0 .. Len(dir)
      /\ Len(dir) \in Nat
  BY PageNumbers, p + 1 \in Nat
<1> HIDE DEF cap
<1>2. /\ slots \in Seq(Slots) /\ n \in Nat /\ DOMAIN slots = 1 .. n
      /\ DOMAIN dir = 1 .. Len(dir)
      /\ \A r \in 1 .. n : slots[r].idx \in 1 .. Len(dir) /\ slots[r] = SlotOf(slots[r].idx)
  BY <1>1, ScanFacts, DirFacts
<1>3. \A r \in 1 .. n : SentOf(slots[r], unread) = dir[slots[r].idx]
  BY <1>2, SentFacts
<1>4. CASE cap = 0
  <2>1. slots = << >>
    BY <1>4, ScanRight
  <2>2. n = 0 /\ MarkAfter(mark, slots, unread) = mark
    BY <2>1 DEF MarkAfter
  <2>3. EntriesBefore(p + 1) = EntriesBefore(p)
    BY <1>1, <1>4
  <2> HIDE DEF slots, n
  <2> QED BY <1>4, <2>2, <2>3 DEF cap, slots, n
<1>5. CASE cap # 0
  <2>1. Smallest(f, n, mark, cap)
    BY <1>1, <1>5, ScanSmallest
  <2> HIDE DEF slots
  <2>2. n = cap
    <3> SUFFICES ASSUME n # cap
                 PROVE  FALSE
      OBVIOUS
    <3> HIDE DEF f, n
    <3>1. /\ n \in Nat /\ n < cap /\ f \in [1 .. n -> Beyond(mark)]
          /\ \A x, y \in 1 .. n : x < y => Before(dir[f[x]], dir[f[y]])
          /\ \A i \in Beyond(mark) : \E x \in 1 .. n : f[x] = i
      BY <1>1, <2>1 DEF Smallest
    <3>2. \A i \in Beyond(mark) : IsSlot(dir[i])
      BY <1>2, DirFacts DEF Beyond
    <3>3. ASSUME NEW x \in 1 .. n, NEW y \in 1 .. n, f[x] = f[y]
          PROVE  x = y
      <4>1. ~Before(dir[f[x]], dir[f[x]])
        <5>1. IsSlot(dir[f[x]])
          BY <3>1, <3>2
        <5> QED BY <5>1, BeforeOrder
      <4>2. ~(x < y) /\ ~(y < x)
        BY <3>1, <3>3, <4>1
      <4> QED BY <3>1, <4>2
    <3>4. Cardinality(Beyond(mark)) = n
      BY <3>1, <3>3, CountRange
    <3>5. Cardinality(Beyond(mark)) = Len(dir) - EntriesBefore(p)
      BY CountFacts
    <3> QED BY <1>1, <3>1, <3>4, <3>5
  <2>3. n \in 1 .. n /\ n > 0
    BY <1>1, <1>5, <2>2
  <2>4. \A r \in 1 .. n : f[r] = slots[r].idx
    OBVIOUS
  <2> HIDE DEF f, n
  <2>5. \A r \in 1 .. n : Rank(dir[f[r]]) = EntriesBefore(p) + r - 1
    <3> SUFFICES ASSUME NEW r \in 1 .. n
                 PROVE  Cardinality(Smaller(dir[f[r]])) = EntriesBefore(p) + r - 1
      BY DEF Rank, Smaller
    <3> QED BY <1>1, <2>1, SmallestRanks
  <2>6. Count(dir[f[n]]) = EntriesBefore(p) + n
    BY <1>1, <2>1, <2>3, SmallestRanks
  <2>7. MarkAfter(mark, slots, unread) = dir[f[n]]
    <3>1. slots # << >>
      BY <2>3 DEF n
    <3>2. Last(slots) = slots[n]
      BY DEF Last, n
    <3> QED BY <1>3, <2>3, <2>4, <3>1, <3>2 DEF MarkAfter
  <2>8. EntriesBefore(p) + n = EntriesBefore(p + 1)
    BY <1>1, <2>2
  <2> QED BY <1>2, <1>3, <2>2, <2>4, <2>5, <2>6, <2>7, <2>8 DEF cap, slots, n
<1> QED BY <1>4, <1>5

-----------------------------------------------------------------------------
(* Rebuilding, with pages of more than one row.                             *)

LEMMA AdvanceRight ==
  ASSUME dir \in Directories, inSubDir \in BOOLEAN, OwnKeys, PageSize >= 2,
         NEW c \in Progresses, NEW q \in Nat, NEW unread,
         Count(c.name) = EntriesBefore(q),
         c.stop => EntriesBefore(q) = Len(dir) /\ Count(c.before) = Len(dir)
  PROVE  LET next == Advance(c, q, unread)
         IN /\ Count(next.name) = EntriesBefore(q + 1)
            /\ Count(next.before) = EntriesBefore(q)
            /\ next.stop => EntriesBefore(q + 1) = Len(dir) /\ Count(next.before) = Len(dir)
<1> DEFINE next == Advance(c, q, unread)
<1>1. /\ ScanTarget(q) = EntriesBefore(q + 1) - EntriesBefore(q) /\ ScanTarget(q) \in Nat
      /\ EntriesBefore(q) \in 0 .. Len(dir) /\ EntriesBefore(q + 1) \in 0 .. Len(dir)
      /\ Len(dir) \in Nat
  BY PageNumbers, q + 1 \in Nat
<1>2. CASE c.stop
  <2>1. next = c
    BY <1>2 DEF Advance
  <2>2. EntriesBefore(q + 1) = EntriesBefore(q)
    BY <1>1, <1>2
  <2> QED BY <1>2, <2>1, <2>2
<1>3. CASE ~c.stop /\ ScanTarget(q) = 0
  <2>1. next.name = c.name /\ next.before = c.name
    BY <1>3 DEF Advance, Progresses
  <2>2. EntriesBefore(q + 1) = EntriesBefore(q)
    BY <1>1, <1>3
  <2>3. EntriesBefore(q + 1) = Len(dir)
    <3>1. Offset(q + 1) > Offset(q) /\ Offset(q) \in Nat /\ Offset(q + 1) \in Nat
      <4>1. PageSize \in Nat
        BY PagingAssumption
      <4>2. PageSize * (q + 1) = PageSize * q + PageSize /\ PageSize * q \in Nat
        BY <4>1
      <4>3. CASE q = 0
        <5>1. Offset(q) = 0 /\ Offset(q + 1) = PageSize - (IF inSubDir THEN 1 ELSE 0)
          BY <4>1, <4>3 DEF Offset
        <5> QED BY <4>1, <5>1
      <4>4. CASE q # 0
        <5> DEFINE a == PageSize * q
                   b == PageSize * (q + 1)
                   d == IF inSubDir THEN 1 ELSE 0
        <5>1. Offset(q) = a - d /\ Offset(q + 1) = b - d
          BY <4>4 DEF Offset
        <5>2. d \in 0 .. 1 /\ a \in Nat /\ b = a + PageSize
          BY <4>2
        <5>3. Offset(q) \in Nat
          BY PageNumbers
        <5> HIDE DEF a, b, d
        <5>4. Offset(q + 1) = a + PageSize - d
          BY <4>1, <5>1, <5>2
        <5> QED BY <4>1, <5>1, <5>2, <5>3, <5>4
      <4> QED BY <4>3, <4>4
    <3> QED BY <1>1, <2>2, <3>1 DEF EntriesBefore
  <2> QED BY <2>1, <2>2, <2>3
<1>4. CASE ~c.stop /\ ScanTarget(q) # 0
  <2>1. /\ next.name = MarkAfter(c.name, Scan(c.name, ScanTarget(q)), unread)
        /\ next.before = c.name
        /\ next.stop = c.stop
    BY <1>4 DEF Advance, Progresses
  <2>2. c.name \in Marks
    BY DEF Progresses
  <2>3. Count(next.name) = EntriesBefore(q + 1)
    BY <2>1, <2>2, PageRead
  <2> QED BY <1>4, <2>1, <2>3
<1> QED BY <1>2, <1>3, <1>4

LEMMA RebuildRight ==
  ASSUME dir \in Directories, inSubDir \in BOOLEAN, OwnKeys, PageSize >= 2,
         NEW p \in Nat, NEW unread
  PROVE  /\ Rebuild(p, unread) \in [name : Marks, prev : Marks, pp : Marks]
         /\ Count(Rebuild(p, unread).name) = EntriesBefore(p)
         /\ Count(Rebuild(p, unread).prev) = EntriesBefore(p)
         /\ p > 0 => Count(Rebuild(p, unread).pp) = EntriesBefore(p - 1)
<1> DEFINE R(q) == Reached(p, unread)[q]
           S == {q \in Nat : /\ Count(R(q).name) = EntriesBefore(q)
                             /\ q > 0 => Count(R(q).before) = EntriesBefore(q - 1)
                             /\ R(q).stop => /\ EntriesBefore(q) = Len(dir)
                                             /\ Count(R(q).before) = Len(dir)}
<1>1. \A q \in 0 .. p : R(q) \in Progresses
  BY ReachedType
<1>2. 0 \in S
  <2>1. R(0).name = Bottom /\ ~R(0).stop
    BY ReachedSteps DEF Start
  <2> QED BY <2>1, MarkBottom
<1>3. ASSUME NEW k \in 0 .. p - 1, k \in S
      PROVE  k + 1 \in S
  <2>1. R(k + 1) = Advance(R(k), k, unread)
    BY ReachedSteps
  <2>2. R(k) \in Progresses /\ k \in Nat /\ (k + 1) - 1 = k
    BY <1>1
  <2>3. /\ Count(R(k).name) = EntriesBefore(k)
        /\ R(k).stop => EntriesBefore(k) = Len(dir) /\ Count(R(k).before) = Len(dir)
    BY <1>3
  <2> HIDE DEF R
  <2>4. /\ Count(R(k + 1).name) = EntriesBefore(k + 1)
        /\ Count(R(k + 1).before) = EntriesBefore(k)
        /\ R(k + 1).stop => EntriesBefore(k + 1) = Len(dir) /\ Count(R(k + 1).before) = Len(dir)
    BY <2>1, <2>2, <2>3, AdvanceRight
  <2> QED BY <2>2, <2>4
<1>4. p \in S
  <2> HIDE DEF S
  <2> QED BY <1>2, <1>3, Induction, p \in 0 .. p
<1>5. R(p).name \in Marks /\ R(p).before \in Marks
  BY <1>1, p \in 0 .. p DEF Progresses
<1>6. Rebuild(p, unread) = Chain(R(p).name, R(p).name, R(p).before)
  BY RebuildIsReached
<1> HIDE DEF Marks, R
<1> QED BY <1>4, <1>5, <1>6 DEF Chain

-----------------------------------------------------------------------------
(* Reading a page with the right watermark.                                 *)

LEMMA ReadRight ==
  ASSUME TypeOK, OwnKeys, NEW p \in Nat, NEW unread, HandleReadDirectory(p, unread),
         UNCHANGED <<dir, inSubDir>>,
         Count(WatermarkSetup(p, unread).name) = EntriesBefore(p)
  PROVE  RowsRight' /\ Count(wm') = EntriesBefore(p + 1)
<1> DEFINE mark == WatermarkSetup(p, unread).name
           cap == ScanTarget(p)
           slots == Scan(mark, cap)
           sent == [i \in DOMAIN slots |-> SentOf(slots[i], unread)]
<1>1. dir \in Directories /\ inSubDir \in BOOLEAN /\ mark \in Marks
  <2>1. WatermarkSetup(p, unread) \in [name : Marks, prev : Marks, pp : Marks]
    BY SetupType
  <2> HIDE DEF Marks
  <2> QED BY <2>1 DEF TypeOK
<1>2. /\ wm' = MarkAfter(mark, slots, unread) /\ rows' = sent
      /\ curPage' = p /\ items' = ItemsOn(p) /\ dir' = dir /\ inSubDir' = inSubDir
  BY DEF HandleReadDirectory
<1> HIDE DEF mark
<1>3. /\ Len(slots) = cap
      /\ \A r \in 1 .. Len(slots) :
           /\ slots[r].idx \in DOMAIN dir
           /\ SentOf(slots[r], unread) = dir[slots[r].idx]
           /\ Rank(SentOf(slots[r], unread)) = EntriesBefore(p) + r - 1
      /\ Count(MarkAfter(mark, slots, unread)) = EntriesBefore(p + 1)
  BY <1>1, PageRead DEF mark
<1>4. /\ cap \in Nat /\ cap = EntriesBefore(p + 1) - EntriesBefore(p)
      /\ ItemsOn(p) = cap + (IF DotDotOn(p) THEN 1 ELSE 0)
      /\ Offset(p) \in Nat /\ EntriesBefore(p) \in 0 .. Len(dir) /\ Len(dir) \in Nat
      /\ EntriesBefore(p + 1) \in 0 .. Len(dir)
  BY <1>1, PageNumbers, p + 1 \in Nat
<1>5. slots \in Seq(Slots) /\ DOMAIN slots = 1 .. cap
  BY <1>1, <1>3, <1>4, ScanFacts
<1>6. cap > 0 => EntriesBefore(p) = Offset(p)
  BY <1>4 DEF EntriesBefore
<1> HIDE DEF cap, slots
<1>7. /\ DOMAIN sent = 1 .. cap /\ Len(sent) = cap
      /\ \A r \in 1 .. cap : sent[r] = SentOf(slots[r], unread)
  BY <1>4, <1>5
<1> HIDE DEF sent
<1>8. \A r \in 1 .. cap : /\ \E i \in DOMAIN dir : sent[r] = dir[i]
                          /\ Rank(sent[r]) = Offset(p) + r - 1
  <2> SUFFICES ASSUME NEW r \in 1 .. cap
               PROVE  /\ \E i \in DOMAIN dir : sent[r] = dir[i]
                      /\ Rank(sent[r]) = Offset(p) + r - 1
    OBVIOUS
  <2>1. cap > 0
    BY <1>4
  <2> QED BY <1>3, <1>6, <1>7, <2>1
<1>9. RowsRight'
  <2>1. \A e : Rank(e)' = Rank(e)
    BY <1>2 DEF Rank, Before
  <2>2. Offset(curPage)' = Offset(p) /\ EntriesBefore(curPage)' = EntriesBefore(p)
        /\ EntriesBefore(curPage + 1)' = EntriesBefore(p + 1) /\ DotDotOn(curPage)' = DotDotOn(p)
    BY <1>2 DEF Offset, EntriesBefore, DotDotOn
  <2>3. (Len(rows) = EntriesBefore(curPage + 1) - EntriesBefore(curPage))'
    BY <1>2, <1>4, <1>7, <2>2
  <2>4. (items = Len(rows) + (IF DotDotOn(curPage) THEN 1 ELSE 0))'
    BY <1>2, <1>4, <1>7, <2>2
  <2>5. ASSUME NEW r \in DOMAIN rows'
        PROVE  (\E i \in DOMAIN dir : rows[r] = dir[i])' /\ (Rank(rows[r]) = Offset(curPage) + r - 1)'
    <3>1. r \in 1 .. cap /\ rows'[r] = sent[r]
      BY <1>2, <1>7, <2>5
    <3>2. Rank(rows[r])' = Rank(sent[r])
      BY <1>2, <3>1 DEF Rank, Before
    <3> QED BY <1>2, <1>8, <2>2, <3>1, <3>2
  <2> QED BY <2>3, <2>4, <2>5 DEF RowsRight
<1> QED BY <1>2, <1>3, <1>9

-----------------------------------------------------------------------------
(* The watermark left behind is the last row sent.                          *)

ListInv ==
  Listed =>
    /\ cachedPage = curPage /\ pagePage = curPage /\ pageCount = Pages % 256
    /\ curPage = 0 \/ curPage < pageCount
    /\ rows # << >> => wm = Last(rows)

LEMMA ReadList ==
  ASSUME TypeOK, NEW p \in Nat, ReadPage(p), p = 0 \/ p < Pages % 256
  PROVE  ListInv'
<1>1. PICK unread : HandleReadDirectory(p, unread) /\ UNCHANGED <<dir, inSubDir>>
  BY DEF ReadPage
<1> DEFINE chain == WatermarkSetup(p, unread)
           slots == Scan(chain.name, ScanTarget(p))
           sent == [i \in DOMAIN slots |-> SentOf(slots[i], unread)]
<1>2. /\ wm' = MarkAfter(chain.name, slots, unread) /\ rows' = sent
      /\ cachedPage' = p /\ pagePage' = p /\ curPage' = p /\ pageCount' = Pages % 256
      /\ dir' = dir /\ inSubDir' = inSubDir
  BY <1>1 DEF HandleReadDirectory
<1>3. slots \in Seq(Slots)
  BY ScanFacts, PageNumbers DEF TypeOK
<1> HIDE DEF slots, chain
<1>4. sent # << >> => MarkAfter(chain.name, slots, unread) = Last(sent)
  <2> SUFFICES ASSUME sent # << >>
               PROVE  MarkAfter(chain.name, slots, unread) = Last(sent)
    OBVIOUS
  <2>1. DOMAIN sent = DOMAIN slots /\ DOMAIN slots = 1 .. Len(slots) /\ Len(slots) \in Nat
    BY <1>3
  <2>2. slots # << >> /\ Len(sent) = Len(slots) /\ Len(slots) \in DOMAIN slots
    BY <1>3, <2>1
  <2> QED BY <2>2 DEF MarkAfter, Last
<1> HIDE DEF sent
<1>5. Pages' = Pages
  BY <1>2 DEF Pages, GetCount
<1> QED BY <1>2, <1>4, <1>5 DEF ListInv, Last

LEMMA InitList == Init => ListInv
BY DEF Init, ListInv, Listed

LEMMA NextList == TypeOK /\ ListInv /\ [Next]_vars => ListInv'
<1> SUFFICES ASSUME TypeOK, ListInv, [Next]_vars
             PROVE  ListInv'
  OBVIOUS
<1> DEFINE count == Pages % 256
<1>0. count \in 0 .. 255 /\ (Listed => pageCount = count)
  BY PageCountFacts DEF TypeOK, ListInv
<1>1. CASE FirstPage
  BY <1>1, ReadList, 0 \in Nat DEF FirstPage
<1>2. CASE NextPage
  <2>1. curPage + 1 \in Nat /\ curPage + 1 < count
    BY <1>0, <1>2 DEF NextPage, TypeOK
  <2> QED BY <1>2, <2>1, ReadList DEF NextPage
<1>3. CASE PrevPage
  <2>1. curPage - 1 \in Nat /\ curPage - 1 < count
    <3> HIDE DEF count
    <3> QED BY <1>0, <1>3 DEF PrevPage, TypeOK, ListInv
  <2> QED BY <1>3, <2>1, ReadList DEF PrevPage
<1>4. ASSUME NEW p \in 0 .. pageCount - 1, JumpTo(p)
      PROVE  ListInv'
  <2>1. p \in Nat /\ p < count
    <3> HIDE DEF count
    <3> QED BY <1>0, <1>4 DEF JumpTo
  <2> QED BY <1>4, <2>1, ReadList DEF JumpTo
<1>5. CASE ChangeDirectory
  BY <1>5 DEF ChangeDirectory, ListInv, Listed
<1>6. CASE UNCHANGED vars
  BY <1>6 DEF vars, firmwareVars, screenVars, ListInv, Listed, Last, Pages, GetCount
<1> QED BY <1>1, <1>2, <1>3, <1>4, <1>5, <1>6 DEF Next

-----------------------------------------------------------------------------
(* Going forward.                                                           *)

\* A page that exists begins below the number of rows.
LEMMA PageStarts ==
  ASSUME dir \in Directories, inSubDir \in BOOLEAN, NEW p \in Nat, p < Pages
  PROVE  PageSize * p < GetCount
<1>1. PageSize \in Nat \ {0} /\ GetCount \in Nat
  BY PageNumbers
<1>2. PICK q \in Int, r \in 0 .. PageSize - 1 :
        GetCount = PageSize * q + r /\ GetCount % PageSize = r /\ GetCount \div PageSize = q
  BY <1>1, DivMod
<1>3. Pages = q + (IF r > 0 THEN 1 ELSE 0)
  BY <1>2 DEF Pages
<1>4. CASE p < q
  <2>1. PageSize * (p + 1) <= PageSize * q
    BY <1>1, <1>2, <1>4
  <2>2. PageSize * (p + 1) = PageSize * p + PageSize /\ PageSize * p \in Nat /\ PageSize * q \in Int
    BY <1>1, <1>2
  <2> DEFINE a == PageSize * p
             b == PageSize * (p + 1)
             c == PageSize * q
  <2> HIDE DEF a, b, c
  <2>3. b <= c /\ b = a + PageSize /\ a \in Nat /\ c \in Int /\ GetCount = c + r
    BY <1>2, <2>1, <2>2 DEF a, b, c
  <2>4. a < GetCount
    BY <1>1, <2>3
  <2> QED BY <2>4 DEF a
<1>5. CASE p >= q
  <2>1. p = q /\ r > 0
    BY <1>2, <1>3, <1>5
  <2> QED BY <1>1, <1>2, <2>1
<1> QED BY <1>2, <1>4, <1>5

\* The entries before two neighbouring pages, the second of which exists.
LEMMA NextStarts ==
  ASSUME dir \in Directories, inSubDir \in BOOLEAN, PageSize >= 2, NEW c \in Nat, c + 1 < Pages
  PROVE  /\ EntriesBefore(c + 1) = Offset(c + 1) /\ EntriesBefore(c) = Offset(c)
         /\ Offset(c) \in Nat /\ Offset(c + 1) \in Nat /\ Offset(c) < Offset(c + 1)
<1> DEFINE a == PageSize * c
           b == PageSize * (c + 1)
           d == DotDots
<1>1. /\ PageSize \in Nat /\ Len(dir) \in Nat /\ GetCount = Len(dir) + d
      /\ Offset(c) \in Nat /\ Offset(c + 1) \in Nat
  BY PageNumbers, c + 1 \in Nat
<1>2. b < GetCount
  BY PageStarts, c + 1 \in Nat
<1>3. b = a + PageSize /\ a \in Nat /\ (c = 0 => a = 0) /\ d \in 0 .. 1
  BY <1>1 DEF DotDots
<1>4. /\ c = 0 => Offset(c) = 0
      /\ c # 0 => Offset(c) = a - d
      /\ Offset(c + 1) = b - d
  BY DEF Offset, DotDots
<1> HIDE DEF a, b, d
<1>5. Offset(c) < Offset(c + 1) /\ Offset(c + 1) < Len(dir)
  BY <1>1, <1>2, <1>3, <1>4
<1> QED BY <1>1, <1>5 DEF EntriesBefore

\* The last row of a right page that is not the last is where the next begins.
LEMMA EndOfRight ==
  ASSUME TypeOK, ListInv, Listed, RowsRight, PageSize >= 2, curPage + 1 < Pages
  PROVE  Count(wm) = EntriesBefore(curPage + 1)
<1> DEFINE n == Len(rows)
<1>1. dir \in Directories /\ inSubDir \in BOOLEAN /\ curPage \in Nat /\ rows \in Seq(Entries)
  BY DEF TypeOK
<1>2. /\ EntriesBefore(curPage + 1) = Offset(curPage + 1) /\ EntriesBefore(curPage) = Offset(curPage)
      /\ Offset(curPage) \in Nat /\ Offset(curPage + 1) \in Nat
      /\ Offset(curPage) < Offset(curPage + 1)
  BY <1>1, NextStarts
<1>3. n = Offset(curPage + 1) - Offset(curPage) /\ n > 0 /\ n \in Nat
  BY <1>2 DEF RowsRight
<1>4. n \in DOMAIN rows /\ rows # << >>
  BY <1>1, <1>3
<1>5. wm = rows[n]
  BY <1>4 DEF ListInv, Last
<1>6. PICK i \in DOMAIN dir : rows[n] = dir[i]
  BY <1>4 DEF RowsRight
<1>7. Cardinality(Smaller(dir[i])) = Offset(curPage) + n - 1
  BY <1>4, <1>6 DEF RowsRight, Rank, Smaller
<1>8. i \in 1 .. Len(dir)
  BY <1>1, DirFacts
<1>9. Count(dir[i]) = Cardinality(Smaller(dir[i])) + 1
  BY <1>1, <1>8, CountOwn
<1> QED BY <1>2, <1>3, <1>5, <1>6, <1>7, <1>9

\* A page read on the way forward, or anew, is read with the right watermark.
LEMMA ForwardSetup ==
  ASSUME TypeOK, ListInv, Listed, OwnKeys, RowsRight, PageSize >= 2, NEW p \in Nat, NEW unread,
         p > curPage \/ p < curPage - 1 \/ p = 0, p = 0 \/ p < Pages
  PROVE  Count(WatermarkSetup(p, unread).name) = EntriesBefore(p)
<1>1. dir \in Directories /\ inSubDir \in BOOLEAN /\ curPage \in Nat /\ cachedPage = curPage
  BY DEF TypeOK, ListInv
<1>2. CASE p = 0
  BY <1>1, <1>2, MarkBottom DEF WatermarkSetup, Chain
<1>3. CASE p # 0 /\ p = curPage + 1
  <2>1. WatermarkSetup(p, unread).name = wm
    BY <1>1, <1>3 DEF WatermarkSetup, Chain, NoPage
  <2> QED BY <1>3, <2>1, EndOfRight
<1>4. CASE p # 0 /\ p # curPage + 1
  <2>1. p # cachedPage /\ p # cachedPage - 1 /\ p # cachedPage + 1
    BY <1>1, <1>4
  <2>2. WatermarkSetup(p, unread) = Rebuild(p, unread)
    BY <1>4, <2>1 DEF WatermarkSetup
  <2> QED BY <1>1, <2>2, RebuildRight
<1> QED BY <1>2, <1>3, <1>4

LEMMA ForwardStep ==
  ASSUME PageSize >= 2, TypeOK, ListInv, [Next]_vars,
         OwnKeys, RowsRight, Listed, Listed', curPage' > curPage \/ curPage' < curPage - 1
  PROVE  RowsRight'
<1>0. curPage \in Nat /\ Pages \in Nat /\ pageCount \in 0 .. 255 /\ pageCount <= Pages
  BY PagesType, PageCountFacts DEF TypeOK, ListInv
<1>1. ASSUME NEW p \in Nat, ReadPage(p), p = 0 \/ p < Pages
      PROVE  RowsRight'
  <2>1. PICK unread : HandleReadDirectory(p, unread) /\ UNCHANGED <<dir, inSubDir>>
    BY <1>1 DEF ReadPage
  <2>2. curPage' = p
    BY <2>1 DEF HandleReadDirectory
  <2>3. Count(WatermarkSetup(p, unread).name) = EntriesBefore(p)
    BY <1>1, <2>2, ForwardSetup
  <2> QED BY <2>1, <2>3, ReadRight
<1>2. CASE FirstPage
  BY <1>2 DEF FirstPage, Listed
<1>3. CASE NextPage
  <2>1. curPage + 1 \in Nat /\ curPage + 1 < Pages
    BY <1>0, <1>3 DEF NextPage
  <2> QED BY <1>1, <1>3, <2>1 DEF NextPage
<1>4. CASE PrevPage
  <2>1. curPage - 1 \in Nat /\ curPage - 1 < Pages
    BY <1>0, <1>4 DEF PrevPage, ListInv, Listed
  <2> QED BY <1>1, <1>4, <2>1 DEF PrevPage
<1>5. ASSUME NEW p \in 0 .. pageCount - 1, JumpTo(p)
      PROVE  RowsRight'
  <2>1. p \in Nat /\ p < Pages
    BY <1>0
  <2> QED BY <1>1, <1>5, <2>1 DEF JumpTo
<1>6. CASE ChangeDirectory
  BY <1>6 DEF ChangeDirectory, Listed
<1>7. CASE UNCHANGED vars
  <2>1. curPage' = curPage
    BY <1>7 DEF vars, screenVars
  <2> QED BY <1>0, <2>1
<1> QED BY <1>2, <1>3, <1>4, <1>5, <1>6, <1>7 DEF Next

\* From a right page, a step forward, a jump elsewhere and the return to page 0
\* show a right page (WatermarkSetup, Rebuild and the watermark that
\* HandleReadDirectory leaves behind), with at least two rows a page: the menu
\* has 21.
THEOREM ForwardStaysRightHolds ==
  ASSUME PageSize >= 2
  PROVE  Spec => ForwardStaysRight
<1>1. TypeOK /\ ListInv /\ [Next]_vars =>
        [OwnKeys /\ RowsRight /\ Listed /\ Listed' /\ (curPage' > curPage \/ curPage' < curPage - 1)
           => RowsRight']_vars
  BY ForwardStep
<1>2. TypeOK /\ RowsMatch => TypeOK
  OBVIOUS
<1> QED BY <1>1, InitTypes, InitList, NextTypes, NextList, PTL DEF Spec, ForwardStaysRight

-----------------------------------------------------------------------------
(* The three watermarks.                                                    *)

\* Every watermark is the end of the page it stands for, that of the page
\* before the last one as long as nothing was retraced.
ChainRight ==
  /\ RowsRight
  /\ Count(wm) = EntriesBefore(curPage + 1)
  /\ Count(wmPrev) = EntriesBefore(curPage)
  /\ trail = "fresh" /\ curPage > 0 => Count(wmPp) = EntriesBefore(curPage - 1)
ChainInv == Listed /\ OwnKeys /\ trail # "lost" => ChainRight

\* What the setup of page p must give.
SetupRight(chain, p) ==
  /\ Count(chain.name) = EntriesBefore(p)
  /\ Count(chain.prev) = EntriesBefore(p)
  /\ Trail(p) = "fresh" /\ p > 0 => Count(chain.pp) = EntriesBefore(p - 1)

LEMMA SetupIsRight ==
  ASSUME PageSize >= 2, TypeOK, OwnKeys, NEW p \in Nat, NEW unread,
         p = 0 \/ (Listed /\ cachedPage = curPage /\ (trail # "lost" => ChainRight)),
         Trail(p) # "lost"
  PROVE  SetupRight(WatermarkSetup(p, unread), p)
<1>1. dir \in Directories /\ inSubDir \in BOOLEAN /\ curPage \in Nat
  BY DEF TypeOK
<1>2. CASE p = 0
  <2>1. WatermarkSetup(p, unread) = Chain(Bottom, Bottom, Bottom)
    BY <1>2 DEF WatermarkSetup
  <2> QED BY <1>1, <1>2, <2>1, MarkBottom DEF SetupRight, Chain
<1>3. CASE p # 0 /\ p \notin curPage - 1 .. curPage + 1
  <2>1. p # cachedPage /\ p # cachedPage - 1 /\ p # cachedPage + 1
    BY <1>1, <1>3
  <2>2. WatermarkSetup(p, unread) = Rebuild(p, unread)
    BY <1>3, <2>1 DEF WatermarkSetup
  <2> QED BY <1>1, <2>2, RebuildRight DEF SetupRight
<1>4. CASE p # 0 /\ p \in curPage - 1 .. curPage + 1
  <2>1. Listed /\ cachedPage = curPage
    BY <1>4
  <2>2. trail # "lost"
    BY <1>4 DEF Trail
  <2>3. ChainRight
    BY <1>4, <2>2
  <2>4. CASE p = curPage + 1
    <3>1. WatermarkSetup(p, unread) = Chain(wm, wm, wmPrev)
      BY <1>1, <1>4, <2>1, <2>4 DEF WatermarkSetup, NoPage
    <3>2. p - 1 = curPage
      BY <1>1, <2>4
    <3> QED BY <2>3, <2>4, <3>1, <3>2 DEF SetupRight, Chain, ChainRight
  <2>5. CASE p = curPage
    <3>1. WatermarkSetup(p, unread) = Chain(wmPrev, wmPrev, wmPrev)
      BY <1>1, <1>4, <2>1, <2>5 DEF WatermarkSetup
    <3>2. Trail(p) = "retraced"
      BY <1>1, <1>4, <2>2, <2>5 DEF Trail
    <3> QED BY <2>3, <2>5, <3>1, <3>2 DEF SetupRight, Chain, ChainRight
  <2>6. CASE p = curPage - 1
    <3>1. WatermarkSetup(p, unread) = Chain(wmPp, wmPp, wmPrev)
      BY <1>1, <1>4, <2>1, <2>6 DEF WatermarkSetup, StepBack, NoPage
    <3>2. Trail(p) = "retraced" /\ trail = "fresh"
      BY <1>1, <1>4, <2>2, <2>6 DEF Trail
    <3>3. curPage > 0
      BY <1>1, <1>4, <2>6
    <3> QED BY <2>3, <2>6, <3>1, <3>2, <3>3 DEF SetupRight, Chain, ChainRight
  <2> QED BY <1>1, <1>4, <2>4, <2>5, <2>6
<1> QED BY <1>2, <1>3, <1>4

LEMMA ReadChain ==
  ASSUME PageSize >= 2, TypeOK, NEW p \in Nat, ReadPage(p),
         p = 0 \/ (Listed /\ cachedPage = curPage /\ ChainInv)
  PROVE  ChainInv'
<1>1. PICK unread : HandleReadDirectory(p, unread) /\ UNCHANGED <<dir, inSubDir>>
  BY DEF ReadPage
<1> DEFINE chain == WatermarkSetup(p, unread)
<1>2. /\ wmPrev' = chain.prev /\ wmPp' = chain.pp /\ curPage' = p
      /\ dir' = dir /\ inSubDir' = inSubDir /\ trail' = Trail(p)
  BY <1>1 DEF HandleReadDirectory, ReadPage
<1> SUFFICES ASSUME OwnKeys', trail' # "lost"
             PROVE  ChainRight'
  BY DEF ChainInv
<1>3. OwnKeys
  BY <1>2 DEF OwnKeys, KeyOf
<1>4. SetupRight(chain, p)
  <2>1. p = 0 \/ (Listed /\ cachedPage = curPage /\ (trail # "lost" => ChainRight))
    BY <1>3 DEF ChainInv
  <2> QED BY <1>2, <1>3, <2>1, SetupIsRight
<1> HIDE DEF chain
<1>5. RowsRight' /\ Count(wm') = EntriesBefore(p + 1)
  BY <1>1, <1>3, <1>4, ReadRight DEF SetupRight, chain
<1>6. /\ Count(wm)' = Count(wm') /\ Count(wmPrev)' = Count(wmPrev') /\ Count(wmPp)' = Count(wmPp')
  BY <1>2 DEF Count, UpTo, Above, Before
<1>7. /\ EntriesBefore(curPage + 1)' = EntriesBefore(p + 1)
      /\ EntriesBefore(curPage)' = EntriesBefore(p)
      /\ EntriesBefore(curPage - 1)' = EntriesBefore(p - 1)
  BY <1>2 DEF EntriesBefore, Offset
<1> QED BY <1>2, <1>4, <1>5, <1>6, <1>7 DEF ChainRight, SetupRight

LEMMA InitChain == Init => ChainInv
BY DEF Init, ChainInv, Listed

LEMMA NextChain ==
  ASSUME PageSize >= 2, TypeOK, ListInv, ChainInv, [Next]_vars
  PROVE  ChainInv'
<1>0. curPage \in Nat /\ pageCount \in 0 .. 255 /\ (Listed => cachedPage = curPage)
  BY DEF TypeOK, ListInv
<1>1. CASE FirstPage
  BY <1>1, ReadChain, 0 \in Nat DEF FirstPage
<1>2. CASE NextPage
  BY <1>0, <1>2, ReadChain, curPage + 1 \in Nat DEF NextPage
<1>3. CASE PrevPage
  <2>1. curPage - 1 \in Nat
    BY <1>0, <1>3 DEF PrevPage
  <2> QED BY <1>0, <1>3, <2>1, ReadChain DEF PrevPage
<1>4. ASSUME NEW p \in 0 .. pageCount - 1, JumpTo(p)
      PROVE  ChainInv'
  <2>1. p \in Nat
    BY <1>0
  <2> QED BY <1>0, <1>4, <2>1, ReadChain DEF JumpTo
<1>5. CASE ChangeDirectory
  BY <1>5 DEF ChangeDirectory, ChainInv, Listed
<1>6. CASE UNCHANGED vars
  BY <1>6, SMTT(20)
     DEF vars, firmwareVars, screenVars, ChainInv, ChainRight, Listed, OwnKeys, KeyOf,
              RowsRight, Count, UpTo, Above, Before, EntriesBefore, Offset, Rank, DotDotOn
<1> QED BY <1>1, <1>2, <1>3, <1>4, <1>5, <1>6 DEF Next

\* Every page is shown as it is, each entry of the directory in its place, for
\* listings of any length and on every way to a page that goes back no more than
\* once since the last step forward, jump or page 0 (HandleReadDirectory,
\* WatermarkSetup, Rebuild), also when entries cannot be read back.  A page has
\* at least two rows: the menu's has 21.
THEOREM PageShownHolds ==
  ASSUME PageSize >= 2
  PROVE  Spec => []PageShown
<1>1. TypeOK /\ ListInv /\ ChainInv /\ [Next]_vars => ChainInv'
  BY NextChain
<1>2. ChainInv => PageShown
  BY DEF ChainInv, ChainRight, PageShown
<1> QED BY <1>1, <1>2, InitTypes, InitList, InitChain, NextTypes, NextList, PTL DEF Spec

-----------------------------------------------------------------------------
(* Entering a row.                                                          *)

\* No two entries have the same number of smaller ones.
LEMMA RankUnique ==
  ASSUME dir \in Directories, NEW i \in 1 .. Len(dir), NEW k \in 1 .. Len(dir),
         Cardinality(Smaller(dir[i])) = Cardinality(Smaller(dir[k]))
  PROVE  i = k
<1>1. /\ DOMAIN dir = 1 .. Len(dir)
      /\ \A j \in 1 .. Len(dir) : IsSlot(dir[j])
      /\ \A j, l \in 1 .. Len(dir) : dir[j].name = dir[l].name => j = l
  BY DirFacts
<1>2. ASSUME NEW j \in 1 .. Len(dir), NEW l \in 1 .. Len(dir), Before(dir[j], dir[l])
      PROVE  Cardinality(Smaller(dir[j])) < Cardinality(Smaller(dir[l]))
  <2>1. UpTo(dir[j]) \subseteq Smaller(dir[l])
    <3> SUFFICES ASSUME NEW m \in UpTo(dir[j])
                 PROVE  m \in Smaller(dir[l])
      OBVIOUS
    <3>1. m \in 1 .. Len(dir) /\ ~Before(dir[j], dir[m]) /\ IsSlot(dir[m])
      BY <1>1 DEF UpTo, Above
    <3>2. Before(dir[m], dir[l])
      BY <1>1, <1>2, <3>1, BeforeOrder
    <3> QED BY <1>1, <3>1, <3>2 DEF Smaller
  <2>2. /\ IsFiniteSet(Smaller(dir[l])) /\ Cardinality(Smaller(dir[l])) \in Nat
        /\ Cardinality(Smaller(dir[j])) \in Nat
        /\ Cardinality(UpTo(dir[j])) = Cardinality(Smaller(dir[j])) + 1
    BY CountOwn DEF Count
  <2>3. Cardinality(UpTo(dir[j])) <= Cardinality(Smaller(dir[l]))
    BY <2>1, <2>2, FS_Subset
  <2> QED BY <2>2, <2>3
<1>3. Cardinality(Smaller(dir[i])) \in Nat
  BY CountOwn
<1>4. ~Before(dir[i], dir[k]) /\ ~Before(dir[k], dir[i])
  BY <1>2, <1>3
<1> QED BY <1>1, <1>4, BeforeOrder

\* A directory is found by its rank among all entries.
LEMMA FoundByRank ==
  ASSUME dir \in Directories, NEW i \in 1 .. Len(dir), dir[i].isDir
  PROVE  DirectoriesRanked(Rank(dir[i])) = {dir[i].name}
<1> DEFINE Ahead(k) == {j \in DOMAIN dir : dir[j].isDir /\ dir[j].name < dir[k].name}
           found == {k \in DOMAIN dir : dir[k].isDir /\ Cardinality(Ahead(k)) = Rank(dir[i])}
<1>1. /\ DOMAIN dir = 1 .. Len(dir)
      /\ \A j \in 1 .. Len(dir) : dir[j].isDir \in BOOLEAN
  BY DirFacts
<1>2. \A k \in DOMAIN dir : dir[k].isDir => Ahead(k) = Smaller(dir[k])
  BY <1>1 DEF Smaller, Before
<1>3. Rank(dir[i]) = Cardinality(Smaller(dir[i]))
  BY DEF Rank, Smaller
<1> HIDE DEF Ahead
<1>4. i \in found
  BY <1>1, <1>2, <1>3
<1>5. \A k \in found : k = i
  BY <1>1, <1>2, <1>3, RankUnique
<1>6. found = {i}
  BY <1>4, <1>5
<1>7. DirectoriesRanked(Rank(dir[i])) = {dir[k].name : k \in found}
  BY DEF DirectoriesRanked, Ahead
<1> HIDE DEF found
<1> QED BY <1>6, <1>7

LEMMA RightEnters ==
  ASSUME TypeOK, Listed => RowsRight
  PROVE  RowEntersShown
<1> SUFFICES ASSUME Listed, NEW r \in DOMAIN rows, rows[r].isDir
             PROVE  FindDirectoryNameByVisibleIndex(PageSize * curPage + RowOf(r)) = rows[r].name
  BY DEF RowEntersShown
<1>1. /\ dir \in Directories /\ inSubDir \in BOOLEAN /\ curPage \in Nat
      /\ r \in Nat /\ PageSize \in Nat /\ DOMAIN dir = 1 .. Len(dir)
  BY PagingAssumption, DirFacts DEF TypeOK
<1>2. PICK i \in DOMAIN dir : rows[r] = dir[i]
  BY DEF RowsRight
<1>3. Rank(dir[i]) = Offset(curPage) + r - 1
  BY <1>2 DEF RowsRight
<1> DEFINE a == PageSize * curPage
<1>4. a \in Nat /\ (curPage = 0 => a = 0)
  BY <1>1
<1> HIDE DEF a
<1>5. (a + RowOf(r)) - (IF inSubDir THEN 1 ELSE 0) = Rank(dir[i])
  BY <1>1, <1>3, <1>4 DEF RowOf, Offset, DotDotOn, a
<1>6. DirectoriesRanked(Rank(dir[i])) = {dir[i].name}
  BY <1>1, <1>2, FoundByRank
<1> DEFINE v == a + RowOf(r)
<1>7. v - (IF inSubDir THEN 1 ELSE 0) = Rank(dir[i])
  BY <1>5
<1> HIDE DEF v
<1>8. DirectoriesRanked(v - (IF inSubDir THEN 1 ELSE 0)) = {rows[r].name}
  BY <1>2, <1>6, <1>7
<1>9. FindDirectoryNameByVisibleIndex(v) = rows[r].name
  BY <1>8 DEF FindDirectoryNameByVisibleIndex
<1> QED BY <1>9 DEF a, v

\* CHANGE_DIR_INDEX, given the number of a row on the screen, enters the
\* directory shown there (FindDirectoryNameByVisibleIndex), on every page that
\* PageShown is about.
THEOREM RowEntersShownHolds ==
  ASSUME PageSize >= 2
  PROVE  Spec => []RowEntersShown
<1>1. Spec => []PageShown
  BY PageShownHolds
<1>2. TypeOK /\ PageShown => RowEntersShown
  <2> SUFFICES ASSUME TypeOK, PageShown, Listed, OwnKeys, trail # "lost"
               PROVE  RowEntersShown
    BY DEF RowEntersShown
  <2> QED BY RightEnters DEF PageShown
<1> QED BY <1>1, <1>2, TypeCorrect, PTL
===============================================================================
