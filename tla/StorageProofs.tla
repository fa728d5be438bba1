--------------------------- MODULE StorageProofs ---------------------------
(* What is proved of the nodes of CFStorage, for any capacity of a leaf and *)
(* any heap.  Leaves: an insertion, whether the leaf is frozen or not, opens*)
(* the list of its values where it was asked to, divides it between at most *)
(* two leaves that are neither empty nor too long, and leaves the cache     *)
(* knowing where the leaf begins that it remembers; a deletion closes the   *)
(* list; a frozen leaf stays what it was.  Branches: a value is looked for  *)
(* in the child that has it, a deletion takes from each child what lies in  *)
(* the range, and an insertion leaves one branch or two with all children,  *)
(* two or three each, that know their lengths.                              *)
EXTENDS StorageNodes, Integers, SequenceTheorems, WellFoundedInduction, TLAPS

-----------------------------------------------------------------------------
(* Lists of values.                                                         *)

LEMMA GapIs ==
  ASSUME NEW V, Garbage \in V, NEW n \in Nat
  PROVE  /\ Gap(n) \in Seq(V) /\ Len(Gap(n)) = n
         /\ \A i \in 1 .. n : Gap(n)[i] = Garbage
<1>1. Gap(n) \in [1 .. n -> V]
  BY DEF Gap
<1> QED
  BY <1>1 DEF Gap

LEMMA TakeIs ==
  ASSUME NEW V, NEW vs \in Seq(V), NEW n \in 0 .. Len(vs)
  PROVE  /\ Take(vs, n) \in Seq(V) /\ Len(Take(vs, n)) = n
         /\ \A i \in 1 .. n : Take(vs, n)[i] = vs[i]
<1>1. \A i \in 1 .. n : vs[i] \in V
  BY ElementOfSeq
<1> QED
  BY <1>1, SubSeqProperties DEF Take

LEMMA DropIs ==
  ASSUME NEW V, NEW vs \in Seq(V), NEW n \in 0 .. Len(vs)
  PROVE  /\ Drop(vs, n) \in Seq(V) /\ Len(Drop(vs, n)) = Len(vs) - n
         /\ \A i \in 1 .. Len(vs) - n : Drop(vs, n)[i] = vs[n + i]
<1>1. Len(vs) \in Nat /\ n + 1 \in Int
  OBVIOUS
<1>2. \A i \in n + 1 .. Len(vs) : vs[i] \in V
  BY <1>1, ElementOfSeq
<1>3. /\ SubSeq(vs, n + 1, Len(vs)) \in Seq(V)
      /\ Len(SubSeq(vs, n + 1, Len(vs))) =
           IF n + 1 <= Len(vs) THEN Len(vs) - (n + 1) + 1 ELSE 0
      /\ \A i \in 1 .. Len(vs) - (n + 1) + 1 :
           SubSeq(vs, n + 1, Len(vs))[i] = vs[(n + 1) + i - 1]
  BY <1>1, <1>2, SubSeqProperties
<1>4. Len(vs) - (n + 1) + 1 = Len(vs) - n /\ Len(vs) - n \in Nat
  BY <1>1
<1>5. ASSUME NEW i \in 1 .. Len(vs) - n
      PROVE  SubSeq(vs, n + 1, Len(vs))[i] = vs[n + i]
  <2>1. (n + 1) + i - 1 = n + i
    BY <1>4
  <2> QED
    BY <1>3, <1>4, <2>1
<1>6. Len(SubSeq(vs, n + 1, Len(vs))) = Len(vs) - n
  BY <1>1, <1>3
<1> QED
  BY <1>3, <1>5, <1>6 DEF Drop

\* What is divided is whole again when it is put together.
LEMMA Halves ==
  ASSUME NEW V, NEW vs \in Seq(V), NEW n \in 0 .. Len(vs)
  PROVE  Take(vs, n) \o Drop(vs, n) = vs
<1> DEFINE both == Take(vs, n) \o Drop(vs, n)
<1>1. Len(vs) \in Nat
  OBVIOUS
<1>2. /\ both \in Seq(V) /\ Len(both) = n + (Len(vs) - n)
      /\ \A i \in 1 .. n + (Len(vs) - n) :
           both[i] = IF i <= n THEN Take(vs, n)[i] ELSE Drop(vs, n)[i - n]
  BY TakeIs, DropIs, ConcatProperties
<1>3. Len(both) = Len(vs)
  BY <1>1, <1>2
<1>4. ASSUME NEW i \in 1 .. Len(vs) PROVE both[i] = vs[i]
  <2>1. CASE i <= n
    BY <1>1, <1>2, <2>1, TakeIs
  <2>2. CASE ~(i <= n)
    <3>1. i - n \in 1 .. Len(vs) - n /\ n + (i - n) = i
      BY <1>1, <2>2
    <3>2. Drop(vs, n)[i - n] = vs[n + (i - n)]
      BY <3>1, DropIs
    <3> QED
      BY <1>1, <1>2, <2>2, <3>1, <3>2
  <2> QED
    BY <2>1, <2>2
<1> HIDE DEF both
<1> QED
  BY <1>2, <1>3, <1>4, SeqEqual DEF both

\* both is a of length k and then b of length l.
Joined(S, both, a, b, k, l) ==
  /\ both \in Seq(S) /\ Len(both) = k + l
  /\ \A j \in 1 .. k + l : both[j] = IF j <= k THEN a[j] ELSE b[j - k]

LEMMA JoinedIs ==
  ASSUME NEW S, NEW a \in Seq(S), NEW b \in Seq(S), NEW k, NEW l,
         Len(a) = k, Len(b) = l
  PROVE  Joined(S, a \o b, a, b, k, l)
BY ConcatProperties DEF Joined

LEMMA OpenedIs ==
  ASSUME NEW V, Garbage \in V, NEW vs \in Seq(V), NEW at \in 0 .. Len(vs),
         NEW n \in Nat
  PROVE  LET new == Opened(vs, at, n) IN
         /\ new \in Seq(V) /\ Len(new) = Len(vs) + n
         /\ \A i \in 1 .. Len(vs) + n :
              new[i] = CASE i <= at -> vs[i]
                         [] i > at /\ i <= at + n -> Garbage
                         [] i > at + n -> vs[i - n]
<1> DEFINE left  == Take(vs, at) \o Gap(n)
           new   == Opened(vs, at, n)
<1>1. Len(vs) \in Nat
  OBVIOUS
<1>2. /\ left \in Seq(V) /\ Len(left) = at + n
      /\ \A i \in 1 .. at + n :
           left[i] = IF i <= at THEN Take(vs, at)[i] ELSE Gap(n)[i - at]
  <2>1. /\ Take(vs, at) \in Seq(V) /\ Len(Take(vs, at)) = at
        /\ Gap(n) \in Seq(V) /\ Len(Gap(n)) = n
    BY TakeIs, GapIs
  <2>2. Joined(V, left, Take(vs, at), Gap(n), at, n)
    BY <2>1, JoinedIs
  <2> HIDE DEF left
  <2> QED
    BY <2>2 DEF Joined
<1> HIDE DEF left
<1>3. new = left \o Drop(vs, at)
  BY DEF Opened, left
<1>4. /\ new \in Seq(V) /\ Len(new) = (at + n) + (Len(vs) - at)
      /\ \A i \in 1 .. (at + n) + (Len(vs) - at) :
           new[i] = IF i <= at + n THEN left[i] ELSE Drop(vs, at)[i - (at + n)]
  <2>1. Drop(vs, at) \in Seq(V) /\ Len(Drop(vs, at)) = Len(vs) - at
    BY DropIs
  <2>2. Joined(V, left \o Drop(vs, at), left, Drop(vs, at), at + n, Len(vs) - at)
    BY <1>2, <2>1, JoinedIs
  <2> HIDE DEF new
  <2> QED
    BY <1>3, <2>2 DEF Joined
<1> HIDE DEF new
<1>5. (at + n) + (Len(vs) - at) = Len(vs) + n
  BY <1>1
<1>6. ASSUME NEW i \in 1 .. Len(vs) + n
      PROVE  new[i] = CASE i <= at -> vs[i]
                        [] i > at /\ i <= at + n -> Garbage
                        [] i > at + n -> vs[i - n]
  <2>1. CASE i <= at
    <3>1. i <= at + n
      BY <2>1
    <3>2. new[i] = left[i] /\ i \in 1 .. at + n /\ i \in 1 .. at
      BY <1>4, <1>5, <2>1, <3>1
    <3>3. Take(vs, at)[i] = vs[i]
      BY <3>2, TakeIs
    <3> QED
      BY <1>2, <2>1, <3>2, <3>3
  <2>2. CASE i > at /\ i <= at + n
    <3>1. i - at \in 1 .. n
      BY <2>2
    <3>2. new[i] = left[i] /\ i \in 1 .. at + n /\ ~(i <= at)
      BY <1>4, <1>5, <2>2
    <3>3. Gap(n)[i - at] = Garbage
      BY <3>1, GapIs
    <3> QED
      BY <1>2, <2>2, <3>2, <3>3
  <2>3. CASE i > at + n
    <3>1. /\ i - (at + n) \in 1 .. Len(vs) - at
          /\ at + (i - (at + n)) = i - n
      BY <1>1, <2>3
    <3>2. new[i] = Drop(vs, at)[i - (at + n)]
      BY <1>4, <1>5, <2>3
    <3>3. Drop(vs, at)[i - (at + n)] = vs[at + (i - (at + n))]
      BY <3>1, DropIs
    <3> QED
      BY <2>3, <3>1, <3>2, <3>3
  <2> QED
    BY <2>1, <2>2, <2>3
<1> QED
  BY <1>4, <1>5, <1>6 DEF new

\* A list with a gap at its start, at its end, or of garbage only.
LEMMA OpenedAtEnds ==
  ASSUME NEW V, Garbage \in V, NEW vs \in Seq(V), NEW n \in Nat
  PROVE  /\ Take(Opened(vs, 0, n), n) = Gap(n)
         /\ Drop(Opened(vs, 0, n), n) = vs
         /\ Take(Opened(vs, Len(vs), n), Len(vs)) = vs
         /\ Drop(Opened(vs, Len(vs), n), Len(vs)) = Gap(n)
<1>1. Len(vs) \in Nat /\ 0 \in 0 .. Len(vs) /\ Len(vs) \in 0 .. Len(vs)
  OBVIOUS
<1>2. n \in 0 .. Len(vs) + n /\ Len(vs) \in 0 .. Len(vs) + n
  BY <1>1
<1> DEFINE front == Opened(vs, 0, n)
           back  == Opened(vs, Len(vs), n)
<1>3. /\ front \in Seq(V) /\ Len(front) = Len(vs) + n
      /\ \A i \in 1 .. Len(vs) + n :
           front[i] = CASE i <= 0 -> vs[i]
                        [] i > 0 /\ i <= 0 + n -> Garbage
                        [] i > 0 + n -> vs[i - n]
  BY <1>1, OpenedIs
<1>4. /\ back \in Seq(V) /\ Len(back) = Len(vs) + n
      /\ \A i \in 1 .. Len(vs) + n :
           back[i] = CASE i <= Len(vs) -> vs[i]
                       [] i > Len(vs) /\ i <= Len(vs) + n -> Garbage
                       [] i > Len(vs) + n -> vs[i - n]
  BY <1>1, OpenedIs
<1>5. \A i \in 1 .. n : front[i] = Garbage
  BY <1>1, <1>3
<1>6. ASSUME NEW i \in 1 .. Len(vs) PROVE front[n + i] = vs[i]
  <2>1. n + i \in 1 .. Len(vs) + n /\ ~(n + i <= 0) /\ n + i > 0 + n
        /\ (n + i) - n = i
    BY <1>1
  <2> QED
    BY <1>3, <2>1
<1>7. \A i \in 1 .. Len(vs) : back[i] = vs[i]
  BY <1>1, <1>4
<1>8. ASSUME NEW i \in 1 .. n PROVE back[Len(vs) + i] = Garbage
  <2>1. Len(vs) + i \in 1 .. Len(vs) + n /\ ~(Len(vs) + i <= Len(vs))
        /\ Len(vs) + i <= Len(vs) + n
    BY <1>1
  <2> QED
    BY <1>4, <2>1
<1> HIDE DEF front, back
<1>a. n \in 0 .. Len(front) /\ Len(vs) \in 0 .. Len(back)
  BY <1>2, <1>3, <1>4
<1>9. Take(front, n) = Gap(n)
  <2>1. /\ Take(front, n) \in Seq(V) /\ Len(Take(front, n)) = n
        /\ \A i \in 1 .. n : Take(front, n)[i] = front[i]
    BY <1>3, <1>a, TakeIs
  <2> QED
    BY <1>5, <2>1, GapIs, SeqEqual
<1>10. Drop(front, n) = vs
  <2>1. (Len(vs) + n) - n = Len(vs)
    BY <1>1
  <2>2. /\ Drop(front, n) \in Seq(V) /\ Len(Drop(front, n)) = Len(vs)
        /\ \A i \in 1 .. Len(vs) : Drop(front, n)[i] = front[n + i]
    <3>1. /\ Drop(front, n) \in Seq(V) /\ Len(Drop(front, n)) = Len(front) - n
          /\ \A i \in 1 .. Len(front) - n : Drop(front, n)[i] = front[n + i]
      BY <1>3, <1>a, DropIs
    <3> QED
      BY <1>3, <2>1, <3>1
  <2> QED
    BY <1>6, <2>2, SeqEqual
<1>11. Take(back, Len(vs)) = vs
  <2>1. /\ Take(back, Len(vs)) \in Seq(V) /\ Len(Take(back, Len(vs))) = Len(vs)
        /\ \A i \in 1 .. Len(vs) : Take(back, Len(vs))[i] = back[i]
    BY <1>4, <1>a, TakeIs
  <2> QED
    BY <1>7, <2>1, SeqEqual
<1>12. Drop(back, Len(vs)) = Gap(n)
  <2>1. (Len(vs) + n) - Len(vs) = n
    BY <1>1
  <2>2. /\ Drop(back, Len(vs)) \in Seq(V) /\ Len(Drop(back, Len(vs))) = n
        /\ \A i \in 1 .. n : Drop(back, Len(vs))[i] = back[Len(vs) + i]
    <3>1. /\ Drop(back, Len(vs)) \in Seq(V)
          /\ Len(Drop(back, Len(vs))) = Len(back) - Len(vs)
          /\ \A i \in 1 .. Len(back) - Len(vs) :
               Drop(back, Len(vs))[i] = back[Len(vs) + i]
      BY <1>4, <1>a, DropIs
    <3> QED
      BY <1>4, <2>1, <3>1
  <2>3. /\ Gap(n) \in Seq(V) /\ Len(Gap(n)) = n
        /\ \A i \in 1 .. n : Gap(n)[i] = Garbage
    BY GapIs
  <2>4. \A i \in 1 .. n : Drop(back, Len(vs))[i] = Gap(n)[i]
    BY <1>8, <2>2, <2>3
  <2> QED
    BY <2>2, <2>3, <2>4, SeqEqual
<1> QED
  BY <1>9, <1>10, <1>11, <1>12 DEF front, back

\* Garbage stays garbage.
LEMMA GapsAre ==
  ASSUME NEW n \in Nat, NEW at \in 0 .. n, NEW k \in Nat
  PROVE  /\ Opened(Gap(n), at, k) = Gap(n + k)
         /\ Take(Gap(n), at) = Gap(at) /\ Drop(Gap(n), at) = Gap(n - at)
<1> DEFINE V == {Garbage}
           new == Opened(Gap(n), at, k)
<1> HIDE DEF V
<1>1. Garbage \in V /\ \A v \in V : v = Garbage
  BY DEF V
<1>2. ASSUME NEW i \in Nat, NEW vs \in Seq(V), Len(vs) = i PROVE vs = Gap(i)
  <2>1. \A j \in 1 .. i : vs[j] = Garbage
    BY <1>1, <1>2, ElementOfSeq
  <2>2. Gap(i) \in Seq(V) /\ Len(Gap(i)) = i /\ \A j \in 1 .. i : Gap(i)[j] = Garbage
    BY <1>1, GapIs
  <2> QED
    BY <1>2, <2>1, <2>2, SeqEqual
<1>3. Gap(n) \in Seq(V) /\ Len(Gap(n)) = n /\ n + k \in Nat /\ n - at \in Nat
  BY <1>1, GapIs
<1>4. new \in Seq(V) /\ Len(new) = n + k
  BY <1>1, <1>3, OpenedIs
<1>5. /\ Take(Gap(n), at) \in Seq(V) /\ Len(Take(Gap(n), at)) = at
      /\ Drop(Gap(n), at) \in Seq(V) /\ Len(Drop(Gap(n), at)) = n - at
  BY <1>3, TakeIs, DropIs
<1> HIDE DEF new
<1>6. new = Gap(n + k)
  BY <1>2, <1>3, <1>4
<1>7. Take(Gap(n), at) = Gap(at) /\ Drop(Gap(n), at) = Gap(n - at)
  BY <1>2, <1>3, <1>5
<1> QED
  BY <1>6, <1>7 DEF new

LEMMA ClosedIs ==
  ASSUME NEW V, NEW vs \in Seq(V), NEW n \in Nat, NEW at \in Nat,
         at + n <= Len(vs)
  PROVE  Closed(vs, at, n) \in Seq(V) /\ Len(Closed(vs, at, n)) = Len(vs) - n
<1>1. /\ Len(vs) \in Nat /\ at \in 0 .. Len(vs) /\ at + n \in 0 .. Len(vs)
      /\ at + (Len(vs) - (at + n)) = Len(vs) - n
  OBVIOUS
<1>2. /\ Take(vs, at) \in Seq(V) /\ Len(Take(vs, at)) = at
      /\ Drop(vs, at + n) \in Seq(V)
      /\ Len(Drop(vs, at + n)) = Len(vs) - (at + n)
  BY <1>1, TakeIs, DropIs
<1> QED
  BY <1>1, <1>2, ConcatProperties DEF Closed

\* A list of garbage that is closed.
LEMMA GapClosed ==
  ASSUME NEW k \in Nat, NEW n \in Nat, NEW at \in Nat, at + n <= k
  PROVE  Closed(Gap(k), at, n) = Gap(k - n)
<1> DEFINE V == {Garbage}
           new == Closed(Gap(k), at, n)
<1> HIDE DEF V
<1>1. Garbage \in V /\ \A v \in V : v = Garbage
  BY DEF V
<1>2. Gap(k) \in Seq(V) /\ Len(Gap(k)) = k /\ k - n \in Nat
  BY <1>1, GapIs
<1>3. new \in Seq(V) /\ Len(new) = k - n
  BY <1>2, ClosedIs
<1>4. /\ Gap(k - n) \in Seq(V) /\ Len(Gap(k - n)) = k - n
      /\ \A j \in 1 .. k - n : Gap(k - n)[j] = Garbage
  BY <1>1, <1>2, GapIs
<1> HIDE DEF new
<1>5. \A j \in 1 .. k - n : new[j] = Garbage
  BY <1>1, <1>3, ElementOfSeq
<1> QED
  BY <1>3, <1>4, <1>5, SeqEqual DEF new

-----------------------------------------------------------------------------
(* The values of a leaf whose memory may not be there yet.                  *)

\* The values of a leaf with num values and this memory.
Held(num, mem) == IF mem = <<>> THEN Gap(num) ELSE mem

LEMMA HeldIs ==
  ASSUME NEW V, Garbage \in V, NEW num \in Nat, NEW mem \in Seq(V),
         mem = <<>> \/ Len(mem) = num
  PROVE  /\ Held(num, mem) \in Seq(V) /\ Len(Held(num, mem)) = num
         /\ mem # <<>> => Held(num, mem) = mem
         /\ mem = <<>> => Held(num, mem) = Gap(num)
BY GapIs DEF Held

\* Memory of the right length holds what is in it, even if that is nothing.
LEMMA HeldThere ==
  ASSUME NEW V, NEW vs \in Seq(V)
  PROVE  Held(Len(vs), vs) = vs
<1>1. CASE vs = <<>>
  <2>1. Len(vs) = 0 /\ Gap(0) = <<>>
    BY <1>1 DEF Gap
  <2> QED
    BY <1>1, <2>1 DEF Held
<1>2. CASE vs # <<>>
  BY <1>2 DEF Held
<1> QED
  BY <1>1, <1>2

\* The values of a leaf after an insertion, and its memory.
Whole(num, mem, at, size) == Opened(Held(num, mem), at, size)
Memory(mem, at, size)     == IfThere(mem, Opened(mem, at, size))

\* An insertion into the memory of a leaf, and what Take and Drop make of it.
LEMMA OpenedLazily ==
  ASSUME NEW V, Garbage \in V, NEW num \in Nat, NEW mem \in Seq(V),
         mem = <<>> \/ Len(mem) = num, NEW at \in 0 .. num, NEW size \in Nat,
         NEW cut \in 0 .. num + size
  PROVE  LET all == Whole(num, mem, at, size)
             new == Memory(mem, at, size) IN
         /\ all \in Seq(V) /\ Len(all) = num + size
         /\ new \in Seq(V) /\ (new = <<>> \/ Len(new) = num + size)
         /\ Held(num + size, new) = all
         /\ Held(cut, IfThere(new, Take(new, cut))) = Take(all, cut)
         /\ Held((num + size) - cut, IfThere(new, Drop(new, cut))) = Drop(all, cut)
<1> DEFINE vs  == Held(num, mem)
           all == Whole(num, mem, at, size)
           new == Memory(mem, at, size)
<1>0. /\ all = Opened(vs, at, size)
      /\ new = IfThere(mem, Opened(mem, at, size))
  BY DEF Whole, Memory
<1>1. vs \in Seq(V) /\ Len(vs) = num
  BY HeldIs
<1>2. all \in Seq(V) /\ Len(all) = num + size /\ num + size \in Nat
  BY <1>0, <1>1, OpenedIs
<1>3. CASE mem = <<>>
  <2>1. vs = Gap(num) /\ new = <<>>
    BY <1>0, <1>3 DEF Held, IfThere
  <2>2. /\ all = Gap(num + size)
        /\ Take(Gap(num + size), cut) = Gap(cut)
        /\ Drop(Gap(num + size), cut) = Gap((num + size) - cut)
    <3>1. Opened(Gap(num), at, size) = Gap(num + size)
      BY GapsAre
    <3>2. /\ Take(Gap(num + size), cut) = Gap(cut)
          /\ Drop(Gap(num + size), cut) = Gap((num + size) - cut)
      BY <1>2, GapsAre
    <3> QED
      BY <1>0, <2>1, <3>1, <3>2
  <2>3. \A n, t : Held(n, IfThere(new, t)) = Gap(n)
    BY <2>1 DEF Held, IfThere
  <2>4. Held(num + size, new) = Gap(num + size) /\ new \in Seq(V)
    BY <2>1 DEF Held
  <2> HIDE DEF all, new, vs
  <2> QED
    BY <1>2, <2>1, <2>2, <2>3, <2>4 DEF all, new, vs
<1>4. CASE mem # <<>>
  <2>1. vs = mem /\ new = Opened(mem, at, size)
    BY <1>0, <1>4 DEF Held, IfThere
  <2>2. new = all
    BY <1>0, <2>1
  <2> HIDE DEF all, new, vs
  <2>3. Held(num + size, new) = all
    BY <1>2, <2>2, HeldThere
  <2>4. Held(cut, IfThere(new, Take(new, cut))) = Take(all, cut)
    <3>1. CASE new = <<>>
      <4>1. num + size = 0 /\ cut = 0
        BY <1>2, <2>2, <3>1
      <4>2. IfThere(new, Take(new, cut)) = <<>> /\ Take(all, cut) = <<>>
        BY <2>2, <3>1, <4>1, TakeIs DEF IfThere
      <4> QED
        BY <4>1, <4>2 DEF Held, Gap
    <3>2. CASE new # <<>>
      <4>1. Take(all, cut) \in Seq(V) /\ Len(Take(all, cut)) = cut
        BY <1>2, TakeIs
      <4> QED
        BY <2>2, <3>2, <4>1, HeldThere DEF IfThere
    <3> QED
      BY <3>1, <3>2
  <2>5. Held((num + size) - cut, IfThere(new, Drop(new, cut))) = Drop(all, cut)
    <3>1. CASE new = <<>>
      <4>1. num + size = 0 /\ cut = 0
        BY <1>2, <2>2, <3>1
      <4>2. Drop(all, cut) \in Seq(V) /\ Len(Drop(all, cut)) = 0
        BY <1>2, <4>1, DropIs
      <4>3. IfThere(new, Drop(new, cut)) = <<>> /\ Drop(all, cut) = <<>>
        BY <3>1, <4>2 DEF IfThere
      <4> QED
        BY <4>1, <4>3 DEF Held, Gap
    <3>2. CASE new # <<>>
      <4>1. /\ Drop(all, cut) \in Seq(V)
            /\ Len(Drop(all, cut)) = (num + size) - cut
        BY <1>2, DropIs
      <4> QED
        BY <2>2, <3>2, <4>1, HeldThere DEF IfThere
    <3> QED
      BY <3>1, <3>2
  <2> QED
    BY <1>2, <2>2, <2>3, <2>4, <2>5 DEF all, new, vs
<1> QED
  BY <1>3, <1>4

\* The memory after an insertion holds the values after it.
Grown(V, num, mem, at, size) ==
  /\ Whole(num, mem, at, size) \in Seq(V)
  /\ Memory(mem, at, size) \in Seq(V)
  /\ \/ Memory(mem, at, size) = <<>>
     \/ Len(Memory(mem, at, size)) = num + size
  /\ Held(num + size, Memory(mem, at, size)) = Whole(num, mem, at, size)

LEMMA WholeIs ==
  ASSUME NEW V, Garbage \in V, NEW num \in Nat, NEW mem \in Seq(V),
         mem = <<>> \/ Len(mem) = num, NEW at \in 0 .. num, NEW size \in Nat
  PROVE  Grown(V, num, mem, at, size)
<1>1. \A c \in 0 .. num + size :
        LET all == Whole(num, mem, at, size)
            new == Memory(mem, at, size) IN
        /\ all \in Seq(V) /\ Len(all) = num + size
        /\ new \in Seq(V) /\ (new = <<>> \/ Len(new) = num + size)
        /\ Held(num + size, new) = all
        /\ Held(c, IfThere(new, Take(new, c))) = Take(all, c)
        /\ Held((num + size) - c, IfThere(new, Drop(new, c))) = Drop(all, c)
  BY OpenedLazily
<1>2. 0 \in 0 .. num + size
  OBVIOUS
<1> QED
  BY <1>1, <1>2 DEF Grown

-----------------------------------------------------------------------------
(* Heaps.                                                                   *)

Places == Nodes \cup Storages

\* The nodes whose values are in V.
NodeOf(V) == [leaf : BOOLEAN, num : Nat, mem : Seq(V), kids : Seq(Nodes),
              refs : Nat, frozen : BOOLEAN, range : Nat \X Nat]

Heap(V) == [node : [Places -> NodeOf(V) \cup {None}],
            cache : Places \cup {None}, crashed : BOOLEAN]

IsThere(V, m, n) == n \in Places /\ m.node[n] \in NodeOf(V) /\ m.node[n] # None

Ranged(x, a, b) == [x EXCEPT !.range = <<a, b>>]

\* The node p of m becomes x, and no other one changes.
OnlyOne(V, m, new, p, x) ==
  /\ new \in Heap(V) /\ new.crashed = m.crashed
  /\ new.node[p] = x
  /\ \A q \in Places \ {p} : new.node[q] = m.node[q]

LEMMA LeastIs ==
  ASSUME NEW S \in SUBSET Nat, S # {}
  PROVE  Min(S) \in S /\ \A j \in S : Min(S) <= j
<1>1. PICK x \in S : \A y \in S : ~(<<y, x>> \in OpToRel(<, Nat))
  BY NatLessThanWellFounded, WFMin
<1>2. \A y \in S : ~(y < x)
  BY <1>1 DEF OpToRel
<1>3. \A y \in S : x <= y
  BY <1>2
<1> QED
  BY <1>3 DEF Min

LEMMA FreshIs ==
  ASSUME NEW m, \E f \in Nodes : m.node[f] = None
  PROVE  Fresh(m) \in Nodes /\ m.node[Fresh(m)] = None
<1> DEFINE S == {n \in Nodes : m.node[n] = None}
<1>1. S \in SUBSET Nat /\ S # {}
  BY StorageNodesAssumption
<1>2. Min(S) \in S
  BY <1>1, LeastIs
<1> QED
  BY <1>2 DEF Fresh

LEMMA Become ==
  ASSUME NEW V, NEW m \in Heap(V), NEW p \in Places, NEW x \in NodeOf(V) \cup {None}
  PROVE  OnlyOne(V, m, [m EXCEPT !.node[p] = x], p, x)
BY DEF Heap, OnlyOne

LEMMA Created ==
  ASSUME NEW V, NEW m \in Heap(V), \E f \in Nodes : m.node[f] = None,
         NEW x \in NodeOf(V)
  PROVE  /\ OnlyOne(V, m, Create(m, x), Fresh(m), x)
         /\ Create(m, x).cache = m.cache
<1>1. Fresh(m) \in Places
  BY FreshIs DEF Places
<1> QED
  BY <1>1, Become DEF Create, Heap

LEMMA Remembered ==
  ASSUME NEW V, NEW m \in Heap(V), NEW p \in Places, m.node[p] \in NodeOf(V),
         NEW at \in Nat
  PROVE  LET x == Ranged(m.node[p], at, m.node[p].num) IN
         /\ x \in NodeOf(V)
         /\ OnlyOne(V, m, Remember(m, p, at), p, x)
         /\ Remember(m, p, at).cache = p
<1> DEFINE x   == Ranged(m.node[p], at, m.node[p].num)
           new == Remember(m, p, at)
<1>1. m.node[p].num \in Nat
  BY DEF NodeOf
<1>2. x \in NodeOf(V)
  BY <1>1 DEF NodeOf, Ranged
<1>3. /\ new = [m EXCEPT !.cache = p, !.node = [@ EXCEPT ![p] = x]]
  BY DEF Remember, Heap, Ranged
<1> HIDE DEF x, new
<1>4. OnlyOne(V, m, new, p, x) /\ new.cache = p
  BY <1>2, <1>3 DEF Heap, OnlyOne
<1> QED
  BY <1>2, <1>4 DEF x, new

LEMMA LeafIs ==
  ASSUME NEW V, NEW num \in Nat, NEW mem \in Seq(V)
  PROVE  /\ Leaf(num, mem) \in NodeOf(V)
         /\ Leaf(num, mem).leaf /\ Leaf(num, mem).num = num
         /\ Leaf(num, mem).mem = mem
<1>1. <<>> \in Seq(Nodes) /\ <<0, 0>> \in Nat \X Nat
  OBVIOUS
<1> QED
  BY <1>1 DEF Leaf, NodeOf

LEMMA Resized ==
  ASSUME NEW V, NEW m \in Heap(V), NEW n \in Places, m.node[n] \in NodeOf(V),
         NEW num \in Nat, NEW mem \in Seq(V)
  PROVE  LET x   == [m.node[n] EXCEPT !.num = num, !.mem = mem]
             new == [m EXCEPT !.node[n].num = num, !.node[n].mem = mem] IN
         x \in NodeOf(V) /\ OnlyOne(V, m, new, n, x) /\ new.cache = m.cache
<1> DEFINE x   == [m.node[n] EXCEPT !.num = num, !.mem = mem]
           new == [m EXCEPT !.node[n].num = num, !.node[n].mem = mem]
<1>1. x \in NodeOf(V)
  BY DEF NodeOf
<1>2. new = [m EXCEPT !.node = [@ EXCEPT ![n] = x]]
  BY DEF Heap
<1> HIDE DEF x, new
<1>3. OnlyOne(V, m, new, n, x) /\ new.cache = m.cache
  BY <1>1, <1>2 DEF Heap, OnlyOne
<1> QED
  BY <1>1, <1>3 DEF x, new

LEMMA Shortened ==
  ASSUME NEW V, NEW m \in Heap(V), NEW n \in Places, m.node[n] \in NodeOf(V),
         NEW num \in Nat
  PROVE  LET x   == [m.node[n] EXCEPT !.range = <<@[1], num>>]
             new == [m EXCEPT !.node[n].range[2] = num] IN
         x \in NodeOf(V) /\ OnlyOne(V, m, new, n, x) /\ new.cache = m.cache
<1> DEFINE x   == [m.node[n] EXCEPT !.range = <<@[1], num>>]
           new == [m EXCEPT !.node[n].range[2] = num]
<1>0. m.node[n].range \in Nat \X Nat
  BY DEF NodeOf
<1>1. x \in NodeOf(V)
  BY <1>0 DEF NodeOf
<1>4. [m.node[n].range EXCEPT ![2] = num] = <<m.node[n].range[1], num>>
  BY <1>0
<1>2. new = [m EXCEPT !.node = [@ EXCEPT ![n] = x]]
  BY <1>4 DEF Heap
<1> HIDE DEF x, new
<1>3. OnlyOne(V, m, new, n, x) /\ new.cache = m.cache
  BY <1>1, <1>2 DEF Heap, OnlyOne
<1> QED
  BY <1>1, <1>3 DEF x, new

-----------------------------------------------------------------------------
(* Insertion into a leaf.                                                   *)

\* A leaf that fits in a tree.
GoodLeaf(V, x) ==
  x \in NodeOf(V) /\ x.leaf /\ LeafIsSound(x)

\* The insertion into leaf x gives one leaf or two, with the values of x and
\* new ones where they were asked for; neither is empty or too long; and the
\* leaf that is remembered knows where in the tree it begins, if x begins at
\* begin.
LeafOpened(V, r, x, at, size, begin) ==
  LET child   == r.m.node[r.child]
      sibling == r.m.node[r.sibling]
      all     == Opened(LeafValues(x), at, size)
      knows(y, from) == y.range[1] = from /\ y.range[2] <= y.num
  IN  /\ r.m \in Heap(V) /\ r.child \in Places
      /\ GoodLeaf(V, child) /\ child.num > 0
      /\ IF r.sibling = None
         THEN /\ LeafValues(child) = all
              /\ r.m.cache = r.child /\ knows(child, begin)
         ELSE /\ r.sibling \in Places \ {r.child}
              /\ GoodLeaf(V, sibling) /\ sibling.num > 0
              /\ LeafValues(child) \o LeafValues(sibling) = all
              /\ \/ r.m.cache = r.child /\ knows(child, begin)
                 \/ r.m.cache = r.sibling /\ knows(sibling, begin + child.num)

LEMMA CutIs ==
  ASSUME NEW num \in 0 .. MaxLeafCapacity, NEW at \in 0 .. num,
         NEW size \in 1 .. MaxLeafCapacity, num + size > MaxLeafCapacity
  PROVE  LET cut == Cut(num, at, size) IN
         /\ cut \in 1 .. MaxLeafCapacity /\ cut <= num + size
         /\ (num + size) - cut \in 1 .. MaxLeafCapacity
         /\ at = num => cut = num
         /\ at = 0 => cut = size
         /\ at # num /\ at # 0 =>
              cut = IF at + size <= MaxLeafCapacity THEN at + size
                    ELSE MaxLeafCapacity
<1>1. MaxLeafCapacity \in Nat /\ num # 0
  BY StorageNodesAssumption
<1>2. CASE at = num
  BY <1>1, <1>2 DEF Cut
<1>3. CASE at # num /\ at = 0
  BY <1>1, <1>3 DEF Cut
<1>4. CASE at # num /\ at # 0
  BY <1>1, <1>4 DEF Cut, Least
<1> QED
  BY <1>2, <1>3, <1>4

LeftPart(num, mem, at, size) ==
  LET new == Memory(mem, at, size) IN
  IF at = 0 THEN <<>> ELSE IfThere(new, Take(new, Cut(num, at, size)))

RightPart(num, mem, at, size) ==
  LET new == Memory(mem, at, size) IN
  IF at = num THEN <<>> ELSE IfThere(new, Drop(new, Cut(num, at, size)))

\* The parts have the right length, and are the whole.
Parted(V, num, mem, at, size) ==
  LET cut   == Cut(num, at, size)
      rest  == (num + size) - cut
      left  == LeftPart(num, mem, at, size)
      right == RightPart(num, mem, at, size)
  IN  /\ left \in Seq(V) /\ (left = <<>> \/ Len(left) = cut)
      /\ right \in Seq(V) /\ (right = <<>> \/ Len(right) = rest)
      /\ Held(cut, left) \o Held(rest, right) = Whole(num, mem, at, size)

\* Both parts of a full leaf, where one of new values only is lazy.
LEMMA PartsAre ==
  ASSUME NEW V, Garbage \in V, NEW num \in 0 .. MaxLeafCapacity,
         NEW mem \in Seq(V), mem = <<>> \/ Len(mem) = num,
         NEW at \in 0 .. num, NEW size \in 1 .. MaxLeafCapacity,
         num + size > MaxLeafCapacity
  PROVE  Parted(V, num, mem, at, size)
<1> DEFINE vs    == Held(num, mem)
           all   == Whole(num, mem, at, size)
           new   == Memory(mem, at, size)
           cut   == Cut(num, at, size)
           lazyL == IfThere(new, Take(new, cut))
           lazyR == IfThere(new, Drop(new, cut))
           left  == IF at = 0 THEN <<>> ELSE lazyL
           right == IF at = num THEN <<>> ELSE lazyR
           rest  == (num + size) - cut
<1>1. /\ num \in Nat /\ size \in Nat /\ num # 0
      /\ cut \in 0 .. num + size /\ rest \in Nat
      /\ at = num => cut = num
      /\ at = 0 => cut = size
  <2>1. /\ cut \in 1 .. MaxLeafCapacity /\ cut <= num + size
        /\ rest \in 1 .. MaxLeafCapacity
        /\ at = num => cut = num
        /\ at = 0 => cut = size
    BY CutIs
  <2> HIDE DEF cut, rest
  <2> QED
    BY <2>1, StorageNodesAssumption
<1>2. vs \in Seq(V) /\ Len(vs) = num
  BY <1>1, HeldIs
<1> HIDE DEF cut
<1>3. /\ all \in Seq(V) /\ Len(all) = num + size
      /\ new \in Seq(V) /\ (new = <<>> \/ Len(new) = num + size)
      /\ Held(cut, lazyL) = Take(all, cut)
      /\ Held(rest, lazyR) = Drop(all, cut)
  <2>1. num \in Nat /\ size \in Nat /\ cut \in 0 .. num + size
    BY <1>1
  <2>2. at \in 0 .. num /\ mem \in Seq(V)
    OBVIOUS
  <2> HIDE DEF left, right
  <2>3. \A c \in 0 .. num + size :
          LET w == Whole(num, mem, at, size)
              e == Memory(mem, at, size) IN
          /\ w \in Seq(V) /\ Len(w) = num + size
          /\ e \in Seq(V) /\ (e = <<>> \/ Len(e) = num + size)
          /\ Held(num + size, e) = w
          /\ Held(c, IfThere(e, Take(e, c))) = Take(w, c)
          /\ Held((num + size) - c, IfThere(e, Drop(e, c))) = Drop(w, c)
    BY <2>1, <2>2, OpenedLazily
  <2> QED
    BY <2>1, <2>3
<1> HIDE DEF new
<1>4. lazyL \in Seq(V) /\ (lazyL = <<>> \/ Len(lazyL) = cut)
  <2>1. CASE new = <<>>
    BY <2>1 DEF IfThere
  <2>2. CASE new # <<>>
    BY <1>1, <1>3, <2>2, TakeIs DEF IfThere
  <2> QED
    BY <2>1, <2>2
<1>5. lazyR \in Seq(V) /\ (lazyR = <<>> \/ Len(lazyR) = rest)
  <2>1. CASE new = <<>>
    BY <2>1 DEF IfThere
  <2>2. CASE new # <<>>
    <3>1. Len(new) = num + size /\ Len(new) - cut = rest
      BY <1>3, <2>2
    <3>2. Drop(new, cut) \in Seq(V) /\ Len(Drop(new, cut)) = Len(new) - cut
      BY <1>1, <1>3, <3>1, DropIs
    <3> QED
      BY <2>2, <3>1, <3>2 DEF IfThere
  <2> QED
    BY <2>1, <2>2
<1> HIDE DEF lazyL, lazyR
<1>6. Held(cut, left) = Take(all, cut)
  <2>1. CASE at = 0
    <3>1. Take(all, size) = Gap(size)
      BY <1>1, <1>2, <2>1, OpenedAtEnds DEF Whole
    <3> QED
      BY <1>1, <2>1, <3>1 DEF Held
  <2>2. CASE at # 0
    BY <1>3, <2>2
  <2> QED
    BY <2>1, <2>2
<1>7. Held(rest, right) = Drop(all, cut)
  <2>1. CASE at = num
    <3>1. Drop(all, num) = Gap(size) /\ (num + size) - num = size
      BY <1>1, <1>2, <2>1, OpenedAtEnds DEF Whole
    <3> QED
      BY <1>1, <2>1, <3>1 DEF Held
  <2>2. CASE at # num
    BY <1>3, <2>2
  <2> QED
    BY <2>1, <2>2
<1>8. Take(all, cut) \o Drop(all, cut) = all
  BY <1>1, <1>3, Halves
<1>9. left \in Seq(V) /\ (left = <<>> \/ Len(left) = cut)
  BY <1>4
<1>10. right \in Seq(V) /\ (right = <<>> \/ Len(right) = rest)
  BY <1>5
<1> HIDE DEF left, right, all, rest
<1>11. Held(cut, left) \o Held(rest, right) = all
  BY <1>6, <1>7, <1>8
<1> QED
  BY <1>9, <1>10, <1>11
     DEF left, right, all, rest, cut, vs, new, lazyL, lazyR, Parted, LeftPart,
         RightPart

LEMMA GoodLeafIs ==
  ASSUME NEW V, NEW x, GoodLeaf(V, x)
  PROVE  /\ x.num \in 0 .. MaxLeafCapacity /\ x.mem \in Seq(V)
         /\ x.mem = <<>> \/ Len(x.mem) = x.num
         /\ LeafValues(x) = Held(x.num, x.mem)
BY StorageNodesAssumption DEF GoodLeaf, NodeOf, LeafIsSound, LeafValues, Held

\* What makes a leaf one that holds certain values.
LEMMA IsGoodLeaf ==
  ASSUME NEW V, NEW x \in NodeOf(V), x.leaf, x.num <= MaxLeafCapacity,
         x.mem = <<>> \/ Len(x.mem) = x.num
  PROVE  GoodLeaf(V, x) /\ LeafValues(x) = Held(x.num, x.mem)
BY DEF GoodLeaf, NodeOf, LeafIsSound, LeafValues, Held

\* __CFStorageInsertLeafUnfrozen on a leaf that takes the new values.
LEMMA UnfrozenLeafGrows ==
  ASSUME NEW V, Garbage \in V, NEW m \in Heap(V), NEW n \in Places,
         GoodLeaf(V, m.node[n]), NEW at \in 0 .. m.node[n].num,
         NEW size \in 1 .. MaxLeafCapacity, NEW begin \in Nat,
         m.node[n].num + size <= MaxLeafCapacity
  PROVE  LET r == InsertLeafUnfrozen(m, n, at, size, begin + at) IN
         /\ LeafOpened(V, r, m.node[n], at, size, begin)
         /\ r.child = n /\ r.sibling = None /\ r.m.crashed = m.crashed
         /\ \A p \in Places \ {n} : r.m.node[p] = m.node[p]
<1> DEFINE x     == m.node[n]
           total == x.num + size
           mem   == Memory(x.mem, at, size)
           one   == [m EXCEPT !.node[n].num = total, !.node[n].mem = mem]
           r     == InsertLeafUnfrozen(m, n, at, size, begin + at)
<1>1. /\ x.num \in 0 .. MaxLeafCapacity /\ x.mem \in Seq(V)
      /\ x.mem = <<>> \/ Len(x.mem) = x.num
      /\ LeafValues(x) = Held(x.num, x.mem)
      /\ x \in NodeOf(V) /\ x.leaf
  BY GoodLeafIs DEF GoodLeaf
<1>2. x.num \in Nat /\ size \in Nat /\ total \in Nat /\ total > 0
  BY <1>1, StorageNodesAssumption
<1>3. /\ mem \in Seq(V) /\ (mem = <<>> \/ Len(mem) = total)
      /\ Held(total, mem) = Whole(x.num, x.mem, at, size)
  <2> DEFINE num == x.num
             had == x.mem
  <2>1. num \in Nat /\ had \in Seq(V) /\ (had = <<>> \/ Len(had) = num)
        /\ at \in 0 .. num /\ size \in Nat
    BY <1>1, <1>2
  <2> HIDE DEF num, had
  <2>2. Grown(V, num, had, at, size)
    BY <2>1, WholeIs
  <2> QED
    BY <2>2 DEF Grown, num, had
<1>4. /\ r = Result(Remember(one, n, begin), n, None)
  <2>1. (begin + at) - at = begin
    OBVIOUS
  <2> QED
    BY <2>1 DEF InsertLeafUnfrozen, Memory
<1> DEFINE y == [x EXCEPT !.num = total, !.mem = mem]
<1> HIDE DEF mem, total
<1>5. y \in NodeOf(V) /\ OnlyOne(V, m, one, n, y)
  BY <1>1, <1>2, <1>3, Resized
<1>6. y.num = total /\ y.mem = mem /\ y.leaf
  BY <1>1 DEF NodeOf
<1> HIDE DEF one, y, r
<1> DEFINE z == Ranged(y, begin, y.num)
<1>7. z \in NodeOf(V) /\ OnlyOne(V, one, r.m, n, z) /\ r.m.cache = n
  <2>1. one \in Heap(V) /\ one.node[n] = y
    BY <1>5 DEF OnlyOne
  <2> QED
    BY <1>4, <1>5, <2>1, Remembered DEF Result
<1>8. /\ z.num = total /\ z.mem = mem /\ z.leaf /\ z.range[1] = begin
      /\ z.range[2] = total
  BY <1>5, <1>6 DEF NodeOf, Ranged
<1> HIDE DEF z
<1>9. GoodLeaf(V, z) /\ LeafValues(z) = Held(total, mem)
  <2>1. total <= MaxLeafCapacity
    BY DEF total
  <2> QED
    BY <1>3, <1>7, <1>8, <2>1, IsGoodLeaf
<1>10. r.child = n /\ r.sibling = None /\ r.m.node[n] = z /\ r.m \in Heap(V)
  BY <1>4, <1>7 DEF Result, OnlyOne
<1>11. Opened(LeafValues(x), at, size) = Held(total, mem)
  BY <1>1, <1>3 DEF Whole
<1>12. LeafOpened(V, r, x, at, size, begin)
  BY <1>2, <1>7, <1>8, <1>9, <1>10, <1>11 DEF LeafOpened
<1>13. /\ r.m.crashed = m.crashed
       /\ \A p \in Places \ {n} : r.m.node[p] = m.node[p]
  BY <1>5, <1>7 DEF OnlyOne
<1> QED
  BY <1>10, <1>12, <1>13 DEF r

\* The range of a leaf is not among its values.
LEMMA SameValues ==
  ASSUME NEW V, NEW y \in NodeOf(V), GoodLeaf(V, y), NEW a \in Nat, NEW b \in Nat
  PROVE  LET z == Ranged(y, a, b) IN
         /\ GoodLeaf(V, z) /\ LeafValues(z) = LeafValues(y) /\ z.num = y.num
         /\ z.range[1] = a /\ z.range[2] = b
<1> DEFINE z == Ranged(y, a, b)
<1>1. /\ z \in NodeOf(V) /\ z.num = y.num /\ z.mem = y.mem /\ z.leaf = y.leaf
      /\ z.range = <<a, b>>
  BY DEF NodeOf, Ranged
<1> HIDE DEF z
<1>2. GoodLeaf(V, z) /\ LeafValues(z) = LeafValues(y)
  BY <1>1 DEF GoodLeaf, LeafIsSound, LeafValues
<1> QED
  BY <1>1, <1>2 DEF z

\* The heap with the leaf n divided in two, before one is remembered.
TwoOf(m, n, at, size) ==
  LET x     == m.node[n]
      mem   == IfThere(x.mem, Opened(x.mem, at, size))
      cut   == Cut(x.num, at, size)
      left  == IF at = 0 THEN <<>> ELSE IfThere(mem, Take(mem, cut))
      right == IF at = x.num THEN <<>> ELSE IfThere(mem, Drop(mem, cut))
  IN  [Create(m, Leaf((x.num + size) - cut, right))
         EXCEPT !.node[n].num = cut, !.node[n].mem = left]

\* The leaves n and f of two hold what n held in m and the new values.
InTwo(V, m, two, n, f, at, size) ==
  LET x == m.node[n] IN
  /\ two \in Heap(V) /\ two.crashed = m.crashed
  /\ GoodLeaf(V, two.node[n]) /\ two.node[n].num = Cut(x.num, at, size)
  /\ GoodLeaf(V, two.node[f])
  /\ two.node[f].num = (x.num + size) - Cut(x.num, at, size)
  /\ LeafValues(two.node[n]) \o LeafValues(two.node[f]) =
       Opened(LeafValues(x), at, size)
  /\ \A p \in Places \ {n, f} : two.node[p] = m.node[p]

\* A full leaf is made of two.
LEMMA TwoAre ==
  ASSUME NEW V, Garbage \in V, NEW m \in Heap(V), NEW n \in Places,
         m.node[n] # None, GoodLeaf(V, m.node[n]),
         NEW at \in 0 .. m.node[n].num, NEW size \in 1 .. MaxLeafCapacity,
         m.node[n].num + size > MaxLeafCapacity,
         \E f \in Nodes : m.node[f] = None
  PROVE  InTwo(V, m, TwoOf(m, n, at, size), n, Fresh(m), at, size)
<1> DEFINE x     == m.node[n]
           num   == x.num
           had   == x.mem
           mem   == IfThere(had, Opened(had, at, size))
           cut   == Cut(num, at, size)
           left  == IF at = 0 THEN <<>> ELSE IfThere(mem, Take(mem, cut))
           right == IF at = num THEN <<>> ELSE IfThere(mem, Drop(mem, cut))
           rest  == (num + size) - cut
           made  == Create(m, Leaf(rest, right))
           two   == [made EXCEPT !.node[n].num = cut, !.node[n].mem = left]
           f     == Fresh(m)
<1>1. /\ num \in 0 .. MaxLeafCapacity /\ had \in Seq(V)
      /\ had = <<>> \/ Len(had) = num
      /\ LeafValues(x) = Held(num, had)
      /\ x \in NodeOf(V) /\ x.leaf
  BY GoodLeafIs DEF GoodLeaf
<1>2. at \in 0 .. num /\ num + size > MaxLeafCapacity
  OBVIOUS
<1>3. f \in Nodes /\ f \in Places /\ m.node[f] = None /\ f # n
  BY FreshIs DEF Places
<1> HIDE DEF num, had
<1>4. /\ cut \in 1 .. MaxLeafCapacity /\ rest \in 1 .. MaxLeafCapacity
  BY <1>1, <1>2, CutIs
<1>5. /\ left \in Seq(V) /\ (left = <<>> \/ Len(left) = cut)
      /\ right \in Seq(V) /\ (right = <<>> \/ Len(right) = rest)
      /\ Held(cut, left) \o Held(rest, right) = Whole(num, had, at, size)
  <2>1. /\ left = LeftPart(num, had, at, size)
        /\ right = RightPart(num, had, at, size)
    BY DEF Memory, LeftPart, RightPart
  <2>2. Parted(V, num, had, at, size)
    BY <1>1, <1>2, PartsAre
  <2> HIDE DEF left, right
  <2> QED
    BY <2>1, <2>2 DEF Parted
<1> HIDE DEF cut, left, right, rest, f
<1>6. cut \in Nat /\ rest \in Nat
  BY <1>4, StorageNodesAssumption
<1> DEFINE new == Leaf(rest, right)
<1>7. /\ new \in NodeOf(V) /\ new.leaf /\ new.num = rest /\ new.mem = right
  <2>1. right \in Seq(V)
    BY <1>5
  <2>2. ASSUME NEW a \in Nat, NEW b \in Seq(V)
        PROVE  /\ Leaf(a, b) \in NodeOf(V) /\ Leaf(a, b).leaf
               /\ Leaf(a, b).num = a /\ Leaf(a, b).mem = b
    BY LeafIs
  <2> QED
    BY ONLY <1>6, <2>1, <2>2
<1> HIDE DEF new
<1>8. OnlyOne(V, m, made, f, new)
  BY <1>3, <1>7, Created DEF f, new
<1> HIDE DEF made
<1>9. made \in Heap(V) /\ made.node[n] = x /\ made.node[n] \in NodeOf(V)
  BY <1>1, <1>3, <1>8 DEF OnlyOne
<1> DEFINE y == [x EXCEPT !.num = cut, !.mem = left]
<1>10. y \in NodeOf(V) /\ OnlyOne(V, made, two, n, y)
  BY <1>5, <1>6, <1>9, Resized
<1>11. y.num = cut /\ y.mem = left /\ y.leaf
  BY <1>1 DEF NodeOf
<1> HIDE DEF two, y, x
<1>12. GoodLeaf(V, y) /\ LeafValues(y) = Held(cut, left)
  <2>1. y.num <= MaxLeafCapacity
    BY <1>4, <1>11
  <2> QED
    BY <1>5, <1>10, <1>11, <2>1, IsGoodLeaf
<1>13. GoodLeaf(V, new) /\ LeafValues(new) = Held(rest, right)
  <2>1. new.num <= MaxLeafCapacity
    BY <1>4, <1>7
  <2> QED
    BY <1>5, <1>7, <2>1, IsGoodLeaf
<1>14. two.node[n] = y /\ two.node[f] = new
  BY <1>3, <1>8, <1>10 DEF OnlyOne
<1>15. /\ two \in Heap(V) /\ two.crashed = m.crashed
       /\ \A p \in Places \ {n, f} : two.node[p] = m.node[p]
  BY <1>3, <1>8, <1>10 DEF OnlyOne
<1>16. Opened(LeafValues(x), at, size) = Whole(num, had, at, size)
  BY <1>1 DEF Whole
<1>17. LeafValues(two.node[n]) \o LeafValues(two.node[f]) =
         Opened(LeafValues(x), at, size)
  BY <1>5, <1>12, <1>13, <1>14, <1>16
<1>18. /\ GoodLeaf(V, two.node[n]) /\ two.node[n].num = cut
       /\ GoodLeaf(V, two.node[f]) /\ two.node[f].num = rest
  BY <1>7, <1>11, <1>12, <1>13, <1>14
<1> QED
  BY <1>15, <1>17, <1>18
     DEF two, made, mem, left, right, cut, rest, num, had, x, f, TwoOf, InTwo

\* r has the values of n and the new ones in n and f, and only these change.
Splits(V, m, r, n, f, at, size, begin) ==
  /\ LeafOpened(V, r, m.node[n], at, size, begin)
  /\ r.child = n /\ r.sibling = f /\ r.m.crashed = m.crashed
  /\ \A p \in Places \ {n, f} : r.m.node[p] = m.node[p]

\* __CFStorageInsertLeafUnfrozen on a leaf that does not.
LEMMA UnfrozenLeafSplits ==
  ASSUME NEW V, Garbage \in V, NEW m \in Heap(V), NEW n \in Places,
         m.node[n] # None, GoodLeaf(V, m.node[n]),
         NEW at \in 0 .. m.node[n].num, NEW size \in 1 .. MaxLeafCapacity,
         NEW begin \in Nat, m.node[n].num + size > MaxLeafCapacity,
         \E f \in Nodes : m.node[f] = None
  PROVE  Splits(V, m, InsertLeafUnfrozen(m, n, at, size, begin + at), n,
                Fresh(m), at, size, begin)
<1> DEFINE x   == m.node[n]
           num == x.num
           f   == Fresh(m)
           two == TwoOf(m, n, at, size)
           cut == Cut(num, at, size)
           r   == InsertLeafUnfrozen(m, n, at, size, begin + at)
<1>1. num \in 0 .. MaxLeafCapacity /\ num \in Nat /\ MaxLeafCapacity \in Nat
  BY GoodLeafIs, StorageNodesAssumption
<1>2. f \in Nodes /\ f \in Places /\ f # n /\ f # None
  BY FreshIs, StorageNodesAssumption DEF Places
<1>3. InTwo(V, m, two, n, f, at, size)
  BY TwoAre
<1>4. (begin + at) - at = begin
  OBVIOUS
<1> DEFINE late  == Remember(two, f, begin + at)
           early == Remember(two, n, begin)
           old   == [early EXCEPT !.node[n].range[2] = num]
<1>5. r = Result(IF at = num THEN late
                 ELSE IF at + size <= MaxLeafCapacity \/ at = 0 THEN early
                 ELSE old, n, f)
  <2>1. ~(x.num + size <= MaxLeafCapacity)
    BY <1>1
  <2> DEFINE from  == (begin + at) - at
             early1 == Remember(two, n, from)
             old1  == [early1 EXCEPT !.node[n].range[2] = num]
             one   == [m EXCEPT !.node[n].num = x.num + size,
                                !.node[n].mem = IfThere(x.mem, Opened(x.mem, at, size))]
  <2>2. r = IF x.num + size <= MaxLeafCapacity
            THEN Result(Remember(one, n, from), n, None)
            ELSE Result(IF at = num THEN late
                        ELSE IF at + size <= MaxLeafCapacity \/ at = 0 THEN early1
                        ELSE old1, n, f)
    BY DEF InsertLeafUnfrozen, TwoOf
  <2> HIDE DEF r, one, two, from
  <2>3. from = begin
    BY <1>4 DEF from
  <2> QED
    BY <2>1, <2>2, <2>3
<1> HIDE DEF two, f, r, num
<1>6. /\ at \in 0 .. num /\ num + size > MaxLeafCapacity
  BY DEF num
<1>7. /\ cut \in 1 .. MaxLeafCapacity
      /\ (num + size) - cut \in 1 .. MaxLeafCapacity
      /\ at = num => cut = num
      /\ at # num /\ at # 0 /\ ~(at + size <= MaxLeafCapacity) =>
           cut = MaxLeafCapacity
  BY <1>1, <1>6, CutIs
<1> DEFINE y == two.node[n]
           z == two.node[f]
<1>8. /\ two \in Heap(V) /\ two.crashed = m.crashed
      /\ GoodLeaf(V, y) /\ y.num = cut
      /\ GoodLeaf(V, z) /\ z.num = (num + size) - cut
      /\ LeafValues(y) \o LeafValues(z) = Opened(LeafValues(x), at, size)
      /\ \A p \in Places \ {n, f} : two.node[p] = m.node[p]
  BY <1>3 DEF InTwo, num
<1> HIDE DEF cut, y, z, x
<1>9. y \in NodeOf(V) /\ z \in NodeOf(V) /\ cut \in Nat /\ z.num \in Nat
      /\ cut > 0 /\ z.num > 0
  BY <1>1, <1>7, <1>8 DEF GoodLeaf
<1>10. CASE at = num
  <2> DEFINE zz == Ranged(z, begin + at, z.num)
  <2>1. OnlyOne(V, two, late, f, zz) /\ late.cache = f
    BY <1>2, <1>8, <1>9, Remembered DEF z
  <2>2. /\ GoodLeaf(V, zz) /\ LeafValues(zz) = LeafValues(z) /\ zz.num = z.num
        /\ zz.range[1] = begin + at /\ zz.range[2] = z.num
    BY <1>8, <1>9, SameValues
  <2> HIDE DEF zz, late
  <2>3. r.m = late /\ r.child = n /\ r.sibling = f
    BY <1>5, <1>10 DEF Result
  <2>4. /\ late \in Heap(V) /\ late.crashed = m.crashed
        /\ late.node[n] = y /\ late.node[f] = zz
        /\ \A p \in Places \ {n, f} : late.node[p] = m.node[p]
    BY <1>2, <1>8, <2>1 DEF OnlyOne, y
  <2>5. begin + y.num = begin + at /\ y.num > 0
    BY <1>7, <1>8, <1>9, <1>10
  <2>6. LeafOpened(V, r, x, at, size, begin)
    BY <1>2, <1>8, <1>9, <2>1, <2>2, <2>3, <2>4, <2>5 DEF LeafOpened
  <2> QED
    BY <2>3, <2>4, <2>6 DEF Splits, r, f, x
<1>11. CASE at # num
  <2> DEFINE yy == Ranged(y, begin, y.num)
  <2>1. OnlyOne(V, two, early, n, yy) /\ early.cache = n /\ yy \in NodeOf(V)
    BY <1>8, <1>9, Remembered DEF y
  <2>2. /\ GoodLeaf(V, yy) /\ LeafValues(yy) = LeafValues(y) /\ yy.num = y.num
        /\ yy.range[1] = begin /\ yy.range[2] = y.num
    BY <1>8, <1>9, SameValues
  <2> HIDE DEF yy, early
  <2>3. ASSUME NEW new, NEW v, OnlyOne(V, two, new, n, v), new.cache = n,
               r = Result(new, n, f), GoodLeaf(V, v),
               LeafValues(v) = LeafValues(y), v.num = y.num,
               v.range[1] = begin, v.range[2] <= v.num
        PROVE  /\ LeafOpened(V, r, x, at, size, begin)
               /\ r.child = n /\ r.sibling = f /\ r.m.crashed = m.crashed
               /\ \A p \in Places \ {n, f} : r.m.node[p] = m.node[p]
    <3>1. r.m = new /\ r.child = n /\ r.sibling = f
      BY <2>3 DEF Result
    <3>2. /\ new \in Heap(V) /\ new.crashed = m.crashed
          /\ new.node[n] = v /\ new.node[f] = z
          /\ \A p \in Places \ {n, f} : new.node[p] = m.node[p]
      BY <1>2, <1>8, <2>3 DEF OnlyOne, z
    <3>3. v.num > 0
      BY <1>8, <1>9, <2>3
    <3>4. LeafOpened(V, r, x, at, size, begin)
      BY <1>2, <1>8, <1>9, <2>3, <3>1, <3>2, <3>3 DEF LeafOpened
    <3> QED
      BY <3>1, <3>2, <3>4
  <2>4. CASE at + size <= MaxLeafCapacity \/ at = 0
    <3>1. r = Result(early, n, f)
      BY <1>5, <1>11, <2>4
    <3>2. yy.range[2] <= yy.num
      BY <1>8, <1>9, <2>2
    <3>3. /\ LeafOpened(V, r, x, at, size, begin)
          /\ r.child = n /\ r.sibling = f /\ r.m.crashed = m.crashed
          /\ \A p \in Places \ {n, f} : r.m.node[p] = m.node[p]
      BY <2>1, <2>2, <2>3, <3>1, <3>2
    <3> QED
      BY <3>3 DEF Splits, r, f, x
  <2>5. CASE ~(at + size <= MaxLeafCapacity \/ at = 0)
    <3>1. r = Result(old, n, f)
      BY <1>5, <1>11, <2>5
    <3> DEFINE v == [yy EXCEPT !.range = <<@[1], num>>]
    <3>2. early \in Heap(V) /\ early.node[n] = yy
      BY <2>1 DEF OnlyOne
    <3>3. OnlyOne(V, early, old, n, v) /\ old.cache = n
      BY <1>1, <2>1, <3>2, Shortened
    <3>4. v = Ranged(yy, begin, num)
      BY <2>2 DEF Ranged
    <3>5. /\ GoodLeaf(V, v) /\ LeafValues(v) = LeafValues(yy) /\ v.num = yy.num
          /\ v.range[1] = begin /\ v.range[2] = num
      BY <1>1, <2>1, <2>2, <3>4, SameValues
    <3> HIDE DEF v, old
    <3>6. OnlyOne(V, two, old, n, v)
      BY <2>1, <3>3 DEF OnlyOne
    <3>7. v.range[2] <= v.num
      BY <1>1, <1>7, <1>8, <1>11, <2>2, <2>5, <3>5
    <3>8. /\ LeafOpened(V, r, x, at, size, begin)
          /\ r.child = n /\ r.sibling = f /\ r.m.crashed = m.crashed
          /\ \A p \in Places \ {n, f} : r.m.node[p] = m.node[p]
      BY <2>2, <2>3, <3>1, <3>3, <3>5, <3>6, <3>7
    <3> QED
      BY <3>8 DEF Splits, r, f, x
  <2> QED
    BY <2>4, <2>5
<1> QED
  BY <1>10, <1>11

\* __CFStorageInsertLeafUnfrozen: a leaf that is not frozen takes the new values
\* where they belong, alone or with a sibling on its right that was not there;
\* no other node changes.
THEOREM UnfrozenLeafTakesValues ==
  ASSUME NEW V, Garbage \in V, None \notin NodeOf(V), NEW m \in Heap(V),
         NEW n \in Places, GoodLeaf(V, m.node[n]),
         NEW at \in 0 .. m.node[n].num, NEW size \in 1 .. MaxLeafCapacity,
         NEW absolute \in Nat, at <= absolute,
         \E f \in Nodes : m.node[f] = None
  PROVE  LET r == InsertLeafUnfrozen(m, n, at, size, absolute) IN
         /\ LeafOpened(V, r, m.node[n], at, size, absolute - at)
         /\ r.child = n /\ r.m.crashed = m.crashed
         /\ r.sibling # None => m.node[r.sibling] = None
         /\ \A p \in Places \ {r.child, r.sibling} : r.m.node[p] = m.node[p]
<1> DEFINE begin == absolute - at
           r     == InsertLeafUnfrozen(m, n, at, size, absolute)
<1>1. m.node[n].num \in Nat /\ m.node[n] # None
  BY DEF GoodLeaf, NodeOf
<1>2. begin \in Nat /\ absolute = begin + at
  BY <1>1
<1>3. Fresh(m) \in Nodes /\ m.node[Fresh(m)] = None
  BY FreshIs
<1>4. None \notin Places
  BY StorageNodesAssumption DEF Places
<1> HIDE DEF begin
<1> DEFINE q == InsertLeafUnfrozen(m, n, at, size, begin + at)
<1>5. r = q
  BY <1>2
<1>6. CASE m.node[n].num + size <= MaxLeafCapacity
  <2>1. /\ LeafOpened(V, q, m.node[n], at, size, begin)
        /\ q.child = n /\ q.sibling = None /\ q.m.crashed = m.crashed
        /\ \A p \in Places \ {n} : q.m.node[p] = m.node[p]
    BY <1>2, <1>6, UnfrozenLeafGrows
  <2> HIDE DEF q, r
  <2>2. \A p \in Places \ {q.child, q.sibling} : q.m.node[p] = m.node[p]
    BY <2>1
  <2> QED
    BY <1>5, <2>1, <2>2 DEF r, begin
<1>7. CASE ~(m.node[n].num + size <= MaxLeafCapacity)
  <2>1. m.node[n].num + size > MaxLeafCapacity
    BY <1>1, <1>7, StorageNodesAssumption
  <2>2. /\ LeafOpened(V, q, m.node[n], at, size, begin)
        /\ q.child = n /\ q.sibling = Fresh(m) /\ q.m.crashed = m.crashed
        /\ \A p \in Places \ {n, Fresh(m)} : q.m.node[p] = m.node[p]
    <3>1. Splits(V, m, q, n, Fresh(m), at, size, begin)
      BY <1>1, <1>2, <2>1, UnfrozenLeafSplits
    <3> QED
      BY <3>1 DEF Splits
  <2> HIDE DEF q, r
  <2>3. /\ m.node[q.sibling] = None
        /\ \A p \in Places \ {q.child, q.sibling} : q.m.node[p] = m.node[p]
    BY <1>3, <2>2
  <2> QED
    BY <1>5, <2>2, <2>3 DEF r, begin
<1> QED
  BY <1>6, <1>7

-----------------------------------------------------------------------------
(* A leaf that is frozen.                                                   *)

Counted(x) == IF x.refs > 0 THEN [x EXCEPT !.refs = @ + 1] ELSE x

LEMMA CountedIs ==
  ASSUME NEW V, NEW x, GoodLeaf(V, x)
  PROVE  /\ GoodLeaf(V, Counted(x)) /\ LeafValues(Counted(x)) = LeafValues(x)
         /\ Counted(x).num = x.num
<1>1. CASE x.refs > 0
  <2> DEFINE z == [x EXCEPT !.refs = @ + 1]
  <2>0. x \in NodeOf(V) /\ x.refs \in Nat /\ x.refs + 1 \in Nat
    BY DEF GoodLeaf, NodeOf
  <2>1. /\ z \in NodeOf(V) /\ z.num = x.num /\ z.mem = x.mem /\ z.leaf = x.leaf
    BY <2>0 DEF NodeOf
  <2>2. Counted(x) = z
    BY <1>1 DEF Counted
  <2> HIDE DEF z
  <2> QED
    BY <2>1, <2>2 DEF GoodLeaf, LeafIsSound, LeafValues
<1>2. CASE ~(x.refs > 0)
  BY <1>2 DEF Counted
<1> QED
  BY <1>1, <1>2

LEMMA Retained ==
  ASSUME NEW V, NEW m \in Heap(V), NEW n \in Places, GoodLeaf(V, m.node[n])
  PROVE  /\ OnlyOne(V, m, Retain(m, n), n, Counted(m.node[n]))
         /\ Retain(m, n).cache = m.cache
<1> DEFINE y   == Counted(m.node[n])
           new == [m EXCEPT !.node[n] = y]
<1>1. y \in NodeOf(V)
  BY CountedIs DEF GoodLeaf
<1>2. OnlyOne(V, m, new, n, y) /\ new.cache = m.cache
  BY <1>1, Become DEF Heap
<1>3. Retain(m, n) = new
  <2>1. CASE m.node[n].refs > 0
    BY <2>1 DEF Retain, Counted, Heap
  <2>2. CASE ~(m.node[n].refs > 0)
    BY <2>2 DEF Retain, Counted, Heap
  <2> QED
    BY <2>1, <2>2
<1> QED
  BY <1>2, <1>3

\* r has the values of n, which is frozen, and the new ones; the nodes that
\* it is made of are new, except for n, and n is what it was, but for a count.
Copies(V, m, r, n, at, size, begin) ==
  /\ LeafOpened(V, r, m.node[n], at, size, begin)
  /\ r.m.crashed = m.crashed
  /\ \A p \in {r.child, r.sibling} \ {None, n} : m.node[p] = None
  /\ r.m.node[n] = IF r.sibling = n THEN Counted(m.node[n]) ELSE m.node[n]
  /\ \A p \in Places \ {r.child, r.sibling} : r.m.node[p] = m.node[p]

\* A new leaf, remembered.
LEMMA NewLeafIs ==
  ASSUME NEW V, NEW m \in Heap(V), \E f \in Nodes : m.node[f] = None,
         NEW num \in 0 .. MaxLeafCapacity, NEW mem \in Seq(V),
         mem = <<>> \/ Len(mem) = num
  PROVE  LET x == Leaf(num, mem)
             f == Fresh(m) IN
         /\ GoodLeaf(V, x) /\ x.num = num /\ LeafValues(x) = Held(num, mem)
         /\ f \in Places /\ f # None /\ m.node[f] = None
         /\ OnlyOne(V, m, Create(m, x), f, x)
<1>1. num \in Nat /\ num <= MaxLeafCapacity
  BY StorageNodesAssumption
<1>2. /\ Leaf(num, mem) \in NodeOf(V) /\ Leaf(num, mem).leaf
      /\ Leaf(num, mem).num = num /\ Leaf(num, mem).mem = mem
  BY <1>1, LeafIs
<1> DEFINE x == Leaf(num, mem)
<1> HIDE DEF x
<1>3. GoodLeaf(V, x) /\ LeafValues(x) = Held(num, mem)
  BY <1>1, <1>2, IsGoodLeaf DEF x
<1>4. OnlyOne(V, m, Create(m, x), Fresh(m), x)
  BY <1>2, Created DEF x
<1>5. Fresh(m) \in Places /\ Fresh(m) # None /\ m.node[Fresh(m)] = None
  BY FreshIs, StorageNodesAssumption DEF Places
<1> QED
  BY <1>2, <1>3, <1>4, <1>5 DEF x

\* A leaf that is remembered.
LEMMA RememberedLeaf ==
  ASSUME NEW V, NEW m \in Heap(V), NEW p \in Places, GoodLeaf(V, m.node[p]),
         NEW from \in Nat
  PROVE  LET x   == m.node[p]
             new == Remember(m, p, from)
             y   == new.node[p] IN
         /\ GoodLeaf(V, y) /\ LeafValues(y) = LeafValues(x) /\ y.num = x.num
         /\ y.range[1] = from /\ y.range[2] <= y.num
         /\ OnlyOne(V, m, new, p, y) /\ new.cache = p
<1> DEFINE x == m.node[p]
           y == Ranged(x, from, x.num)
<1>1. x \in NodeOf(V) /\ x.num \in Nat
  BY DEF GoodLeaf, NodeOf
<1>2. OnlyOne(V, m, Remember(m, p, from), p, y) /\ Remember(m, p, from).cache = p
  BY <1>1, Remembered
<1>3. /\ GoodLeaf(V, y) /\ LeafValues(y) = LeafValues(x) /\ y.num = x.num
      /\ y.range[1] = from /\ y.range[2] = x.num
  BY <1>1, SameValues
<1>4. Remember(m, p, from).node[p] = y
  BY <1>2 DEF OnlyOne
<1> HIDE DEF y
<1>5. y.range[2] <= y.num
  BY <1>1, <1>3
<1> QED
  BY <1>2, <1>3, <1>4, <1>5

LEMMA FrozenLeafGrows ==
  ASSUME NEW V, Garbage \in V, NEW m \in Heap(V), NEW n \in Places,
         m.node[n] # None, GoodLeaf(V, m.node[n]),
         NEW at \in 0 .. m.node[n].num, NEW size \in 1 .. MaxLeafCapacity,
         NEW begin \in Nat, m.node[n].num + size <= MaxLeafCapacity,
         \E f \in Nodes : m.node[f] = None
  PROVE  Copies(V, m, InsertLeafFrozen(m, n, at, size, begin + at), n, at, size,
                begin)
<1> DEFINE x     == m.node[n]
           num   == x.num
           had   == x.mem
           total == num + size
           mem   == Memory(had, at, size)
           f     == Fresh(m)
           new   == Leaf(total, mem)
           one   == Create(m, new)
           r     == InsertLeafFrozen(m, n, at, size, begin + at)
<1>1. /\ num \in 0 .. MaxLeafCapacity /\ had \in Seq(V)
      /\ had = <<>> \/ Len(had) = num
      /\ LeafValues(x) = Held(num, had)
  BY GoodLeafIs
<1>2. (begin + at) - at = begin
  OBVIOUS
<1>3. r = Result(Remember(one, f, begin), f, None)
  <2> DEFINE from == (begin + at) - at
             all  == Opened(had, at, size)
             left == Create(m, Leaf(MaxLeafCapacity, Take(all, MaxLeafCapacity)))
             right == Create(left, Leaf(total - MaxLeafCapacity,
                                        Drop(all, MaxLeafCapacity)))
             lazy == Create(m, Leaf(size, <<>>))
             rest == CASE total <= MaxLeafCapacity ->
                            Result(Remember(one, f, from), f, None)
                       [] total > MaxLeafCapacity /\ at = num ->
                            Result(Remember(lazy, f, begin + at), n, f)
                       [] total > MaxLeafCapacity /\ at = 0 ->
                            Result(Remember(Retain(lazy, n), f, begin + at), f, n)
                       [] OTHER ->
                            IF had = <<>>
                            THEN Result([m EXCEPT !.crashed = TRUE], n, None)
                            ELSE Result(Remember(right, f, from), f, Fresh(left))
  <2>1. r = rest
    BY DEF InsertLeafFrozen, Memory
  <2>2. total <= MaxLeafCapacity /\ ~(total > MaxLeafCapacity)
    BY StorageNodesAssumption, GoodLeafIs
  <2> HIDE DEF r, one, right, left, lazy, total, from, f, num, had
  <2>3. from = begin
    BY <1>2 DEF from
  <2> QED
    BY <2>1, <2>2, <2>3
<1>4. at \in 0 .. num /\ num + size <= MaxLeafCapacity
  OBVIOUS
<1> HIDE DEF num, had, r
<1>5. /\ num \in Nat /\ size \in Nat /\ total \in 0 .. MaxLeafCapacity /\ total > 0
  BY <1>1, <1>4, StorageNodesAssumption
<1>6. /\ mem \in Seq(V) /\ (mem = <<>> \/ Len(mem) = total)
      /\ Held(total, mem) = Whole(num, had, at, size)
  <2>1. Grown(V, num, had, at, size)
    BY <1>1, <1>4, <1>5, WholeIs
  <2> QED
    BY <2>1 DEF Grown
<1> HIDE DEF mem, total
<1>7. /\ GoodLeaf(V, new) /\ new.num = total /\ LeafValues(new) = Held(total, mem)
      /\ f \in Places /\ f # None /\ m.node[f] = None
      /\ OnlyOne(V, m, one, f, new)
  BY <1>5, <1>6, NewLeafIs
<1> HIDE DEF new, one, f
<1>8. one \in Heap(V) /\ one.node[f] = new
  BY <1>7 DEF OnlyOne
<1> DEFINE q == Remember(one, f, begin)
           y == q.node[f]
<1>9. /\ GoodLeaf(V, y) /\ LeafValues(y) = LeafValues(new) /\ y.num = new.num
      /\ y.range[1] = begin /\ y.range[2] <= y.num
      /\ OnlyOne(V, one, q, f, y) /\ q.cache = f
  BY <1>7, <1>8, RememberedLeaf
<1> HIDE DEF q
<1>10. r.m = q /\ r.child = f /\ r.sibling = None
  BY <1>3 DEF Result, q
<1>11. q \in Heap(V)
  BY <1>9 DEF OnlyOne
<1> HIDE DEF y
<1>12. LeafOpened(V, r, x, at, size, begin)
  <2>1. LeafValues(y) = Opened(LeafValues(x), at, size)
    BY <1>1, <1>6, <1>7, <1>9 DEF Whole
  <2>2. r.m.node[r.child] = y /\ y.num > 0
    BY <1>5, <1>7, <1>9, <1>10 DEF y
  <2> QED
    BY <1>7, <1>9, <1>10, <1>11, <2>1, <2>2 DEF LeafOpened
<1>13. n # f /\ n # None
  BY <1>7, StorageNodesAssumption DEF Places
<1>14. /\ q.crashed = m.crashed
       /\ \A p \in Places \ {f} : q.node[p] = m.node[p]
  BY <1>7, <1>9 DEF OnlyOne
<1>15. Copies(V, m, r, n, at, size, begin)
  BY <1>7, <1>10, <1>12, <1>13, <1>14 DEF Copies
<1> QED
  BY <1>15 DEF r

\* What is left of InsertLeafFrozen for a leaf that is full.
LazyLeaf(m, size)  == Create(m, Leaf(size, <<>>))
AllOf(m, n, at, size) == Opened(m.node[n].mem, at, size)
LeftLeaf(m, n, at, size) ==
  Create(m, Leaf(MaxLeafCapacity, Take(AllOf(m, n, at, size), MaxLeafCapacity)))
RightLeaf(m, n, at, size) ==
  Create(LeftLeaf(m, n, at, size),
         Leaf((m.node[n].num + size) - MaxLeafCapacity,
              Drop(AllOf(m, n, at, size), MaxLeafCapacity)))

FullCases(m, n, at, size, begin) ==
  IF at = m.node[n].num
  THEN Result(Remember(LazyLeaf(m, size), Fresh(m), begin + at), n, Fresh(m))
  ELSE IF at = 0
  THEN Result(Remember(Retain(LazyLeaf(m, size), n), Fresh(m), begin + at),
              Fresh(m), n)
  ELSE IF m.node[n].mem = <<>>
  THEN Result([m EXCEPT !.crashed = TRUE], n, None)
  ELSE Result(Remember(RightLeaf(m, n, at, size), Fresh(m), begin),
              Fresh(m), Fresh(LeftLeaf(m, n, at, size)))

LEMMA FullLeafIs ==
  ASSUME NEW m, NEW n, m.node[n].num \in Nat,
         NEW at \in 0 .. m.node[n].num, NEW size \in 1 .. MaxLeafCapacity,
         NEW begin \in Nat, m.node[n].num + size > MaxLeafCapacity
  PROVE  InsertLeafFrozen(m, n, at, size, begin + at) =
           FullCases(m, n, at, size, begin)
<1> DEFINE num   == m.node[n].num
           had   == m.node[n].mem
           total == num + size
           from  == (begin + at) - at
           f     == Fresh(m)
           lazy  == LazyLeaf(m, size)
           left  == LeftLeaf(m, n, at, size)
           right == RightLeaf(m, n, at, size)
           one   == Create(m, Leaf(total, IfThere(had, AllOf(m, n, at, size))))
           r     == InsertLeafFrozen(m, n, at, size, begin + at)
           rest  == CASE total <= MaxLeafCapacity ->
                           Result(Remember(one, f, from), f, None)
                      [] total > MaxLeafCapacity /\ at = num ->
                           Result(Remember(lazy, f, begin + at), n, f)
                      [] total > MaxLeafCapacity /\ at = 0 ->
                           Result(Remember(Retain(lazy, n), f, begin + at), f, n)
                      [] OTHER ->
                           IF had = <<>>
                           THEN Result([m EXCEPT !.crashed = TRUE], n, None)
                           ELSE Result(Remember(right, f, from), f, Fresh(left))
<1>1. r = rest
  BY DEF InsertLeafFrozen, LazyLeaf, AllOf, LeftLeaf, RightLeaf
<1>2. total > MaxLeafCapacity /\ ~(total <= MaxLeafCapacity) /\ num # 0
  BY StorageNodesAssumption
<1>3. from = begin
  OBVIOUS
<1> HIDE DEF r, one, right, left, lazy, total, from, f, had, num
<1>4. r = IF at = num THEN Result(Remember(lazy, f, begin + at), n, f)
          ELSE IF at = 0 THEN Result(Remember(Retain(lazy, n), f, begin + at), f, n)
          ELSE IF had = <<>> THEN Result([m EXCEPT !.crashed = TRUE], n, None)
          ELSE Result(Remember(right, f, begin), f, Fresh(left))
  <2>1. CASE at = num
    <3>1. at # 0
      BY <1>2, <2>1
    <3> QED
      BY <1>1, <1>2, <1>3, <2>1, <3>1
  <2>2. CASE at # num /\ at = 0
    BY <1>1, <1>2, <1>3, <2>2
  <2>3. CASE at # num /\ at # 0
    <3>1. rest = IF had = <<>>
                 THEN Result([m EXCEPT !.crashed = TRUE], n, None)
                 ELSE Result(Remember(right, f, from), f, Fresh(left))
      BY <1>2, <2>3
    <3> QED
      BY <1>1, <1>3, <2>3, <3>1
  <2> QED
    BY <2>1, <2>2, <2>3
<1> QED
  BY <1>4 DEF r, right, left, lazy, f, had, num, FullCases

\* A gap at either end is new values beside the old ones.
LEMMA BesideIs ==
  ASSUME NEW V, Garbage \in V, NEW vs \in Seq(V), NEW n \in Nat
  PROVE  /\ Opened(vs, 0, n) = Gap(n) \o vs
         /\ Opened(vs, Len(vs), n) = vs \o Gap(n)
<1>1. /\ Len(vs) \in Nat /\ 0 \in 0 .. Len(vs) /\ Len(vs) \in 0 .. Len(vs)
      /\ n \in 0 .. Len(vs) + n /\ Len(vs) \in 0 .. Len(vs) + n
  OBVIOUS
<1> DEFINE front == Opened(vs, 0, n)
           back  == Opened(vs, Len(vs), n)
<1>2. /\ front \in Seq(V) /\ Len(front) = Len(vs) + n
      /\ back \in Seq(V) /\ Len(back) = Len(vs) + n
  BY <1>1, OpenedIs
<1>3. /\ Take(front, n) = Gap(n) /\ Drop(front, n) = vs
      /\ Take(back, Len(vs)) = vs /\ Drop(back, Len(vs)) = Gap(n)
  BY OpenedAtEnds
<1> HIDE DEF front, back
<1>4. Take(front, n) \o Drop(front, n) = front
  BY <1>1, <1>2, Halves
<1>5. Take(back, Len(vs)) \o Drop(back, Len(vs)) = back
  BY <1>1, <1>2, Halves
<1> QED
  BY <1>3, <1>4, <1>5 DEF front, back

\* The hypotheses of the three cases of a full leaf.
FullLeaf(V, m, n, at, size) ==
  /\ Garbage \in V /\ m \in Heap(V) /\ n \in Places
  /\ m.node[n] # None /\ GoodLeaf(V, m.node[n])
  /\ at \in 0 .. m.node[n].num /\ size \in 1 .. MaxLeafCapacity
  /\ m.node[n].num + size > MaxLeafCapacity
  /\ \E f \in Nodes : m.node[f] = None

LEMMA FrozenLeafAtEnds ==
  ASSUME NEW V, NEW m, NEW n, NEW at, NEW size, FullLeaf(V, m, n, at, size),
         NEW begin \in Nat, at = m.node[n].num \/ at = 0
  PROVE  Copies(V, m, InsertLeafFrozen(m, n, at, size, begin + at), n, at, size,
                begin)
<1> USE DEF FullLeaf
<1> DEFINE x    == m.node[n]
           num  == x.num
           vs   == LeafValues(x)
           f    == Fresh(m)
           new  == Leaf(size, <<>>)
           lazy == LazyLeaf(m, size)
           r    == InsertLeafFrozen(m, n, at, size, begin + at)
<1>1. /\ num \in 0 .. MaxLeafCapacity /\ vs \in Seq(V) /\ Len(vs) = num
  <2>1. /\ num \in 0 .. MaxLeafCapacity /\ x.mem \in Seq(V)
        /\ x.mem = <<>> \/ Len(x.mem) = num
        /\ vs = Held(num, x.mem)
    BY GoodLeafIs
  <2>2. num \in Nat
    BY <2>1, StorageNodesAssumption
  <2> HIDE DEF vs, num
  <2> QED
    BY <2>1, <2>2, HeldIs
<1>2. num \in Nat /\ num > 0 /\ size \in Nat /\ size \in 0 .. MaxLeafCapacity
      /\ size > 0
  BY <1>1, StorageNodesAssumption
<1>3. r = IF at = num
          THEN Result(Remember(lazy, f, begin + at), n, f)
          ELSE Result(Remember(Retain(lazy, n), f, begin + at), f, n)
  <2>1. r = FullCases(m, n, at, size, begin)
    BY <1>1, <1>2, FullLeafIs
  <2>2. FullCases(m, n, at, size, begin) =
          IF at = num
          THEN Result(Remember(lazy, f, begin + at), n, f)
          ELSE Result(Remember(Retain(lazy, n), f, begin + at), f, n)
    <3>1. at # num => at = 0
      OBVIOUS
    <3> HIDE DEF FullLeaf
    <3>2. CASE at = num
      BY <3>2 DEF FullCases
    <3>3. CASE at # num
      BY <3>1, <3>3 DEF FullCases
    <3> QED
      BY <3>2, <3>3
  <2> QED
    BY <2>1, <2>2
<1>4. /\ GoodLeaf(V, new) /\ new.num = size /\ LeafValues(new) = Held(size, <<>>)
      /\ f \in Places /\ f # None /\ m.node[f] = None
      /\ OnlyOne(V, m, lazy, f, new)
  <2>1. <<>> \in Seq(V)
    OBVIOUS
  <2> QED
    BY <1>2, <2>1, NewLeafIs DEF LazyLeaf
<1>5. LeafValues(new) = Gap(size)
  BY <1>4 DEF Held
<1>6. n # f /\ n # None /\ n \in Places
  BY <1>4, StorageNodesAssumption DEF Places
<1> HIDE DEF new, lazy, f, r, num, vs
<1>7. lazy \in Heap(V) /\ lazy.node[f] = new /\ lazy.node[n] = x
  BY <1>4, <1>6 DEF OnlyOne
<1>8. CASE at = num
  <2> DEFINE q == Remember(lazy, f, begin + at)
             y == q.node[f]
  <2>1. /\ GoodLeaf(V, y) /\ LeafValues(y) = LeafValues(new) /\ y.num = new.num
        /\ y.range[1] = begin + at /\ y.range[2] <= y.num
        /\ OnlyOne(V, lazy, q, f, y) /\ q.cache = f
    BY <1>2, <1>4, <1>7, <1>8, RememberedLeaf
  <2> HIDE DEF q
  <2>2. r.m = q /\ r.child = n /\ r.sibling = f
    BY <1>3, <1>8 DEF Result, q
  <2>3. /\ q \in Heap(V) /\ q.crashed = m.crashed /\ q.node[n] = x
        /\ \A p \in Places \ {n, f} : q.node[p] = m.node[p]
    BY <1>4, <1>6, <1>7, <2>1 DEF OnlyOne
  <2>4. vs \o Gap(size) = Opened(vs, at, size)
    BY <1>1, <1>2, <1>8, BesideIs
  <2> HIDE DEF y
  <2>5. LeafOpened(V, r, x, at, size, begin)
    <3>1. /\ r.m.node[r.child] = x /\ r.m.node[r.sibling] = y
          /\ x.num = num /\ y.num = size /\ begin + at = begin + x.num
      BY <1>4, <1>8, <2>1, <2>2, <2>3 DEF y, num
    <3>2. LeafValues(x) \o LeafValues(y) = Opened(LeafValues(x), at, size)
      BY <1>5, <2>1, <2>4 DEF vs
    <3>3. GoodLeaf(V, x) /\ x.num > 0 /\ y.num > 0
      BY <1>2, <3>1
    <3> QED
      BY <1>4, <1>6, <2>1, <2>2, <2>3, <3>1, <3>2, <3>3 DEF LeafOpened
  <2>6. Copies(V, m, r, n, at, size, begin)
    BY <1>4, <1>6, <2>2, <2>3, <2>5 DEF Copies
  <2> QED
    BY <2>6 DEF r
<1>9. CASE at # num
  <2>1. at = 0
    BY <1>9 DEF num
  <2> DEFINE kept == Retain(lazy, n)
             c    == Counted(x)
  <2>2. OnlyOne(V, lazy, kept, n, c)
    BY <1>6, <1>7, Retained
  <2>3. GoodLeaf(V, c) /\ LeafValues(c) = LeafValues(x) /\ c.num = x.num
    BY CountedIs
  <2> HIDE DEF kept, c
  <2>4. kept \in Heap(V) /\ kept.node[f] = new /\ kept.node[n] = c
    BY <1>4, <1>6, <1>7, <2>2 DEF OnlyOne
  <2> DEFINE q == Remember(kept, f, begin + at)
             y == q.node[f]
  <2>5. begin + at = begin /\ begin + at \in Nat
    BY <2>1
  <2>6. /\ GoodLeaf(V, y) /\ LeafValues(y) = LeafValues(new) /\ y.num = new.num
        /\ y.range[1] = begin + at /\ y.range[2] <= y.num
        /\ OnlyOne(V, kept, q, f, y) /\ q.cache = f
    BY <1>4, <2>4, <2>5, RememberedLeaf
  <2> HIDE DEF q
  <2>7. r.m = q /\ r.child = f /\ r.sibling = n
    BY <1>3, <1>9 DEF Result, q, kept
  <2>8. /\ q \in Heap(V) /\ q.crashed = m.crashed /\ q.node[n] = c
        /\ \A p \in Places \ {n, f} : q.node[p] = m.node[p]
    BY <1>4, <1>6, <1>7, <2>2, <2>4, <2>6 DEF OnlyOne
  <2>9. Gap(size) \o vs = Opened(vs, at, size)
    BY <1>1, <1>2, <2>1, BesideIs
  <2> HIDE DEF y
  <2>10. LeafOpened(V, r, x, at, size, begin)
    <3>1. /\ r.m.node[r.child] = y /\ r.m.node[r.sibling] = c
          /\ y.num = size /\ c.num = num
      BY <1>4, <2>3, <2>6, <2>7, <2>8 DEF y, num
    <3>2. LeafValues(y) \o LeafValues(c) = Opened(LeafValues(x), at, size)
      BY <1>5, <2>3, <2>6, <2>9 DEF vs
    <3>3. y.num > 0 /\ c.num > 0
      BY <1>2, <3>1
    <3> QED
      BY <1>4, <1>6, <2>3, <2>5, <2>6, <2>7, <2>8, <3>1, <3>2, <3>3
         DEF LeafOpened
  <2>11. Copies(V, m, r, n, at, size, begin)
    BY <1>4, <1>6, <2>7, <2>8, <2>10 DEF Copies, c
  <2> QED
    BY <2>11 DEF r
<1> QED
  BY <1>8, <1>9

\* A new leaf whose memory is there holds what is in it.
LEMMA HoldsAll ==
  ASSUME NEW V, NEW m \in Heap(V), \E f \in Nodes : m.node[f] = None,
         NEW num \in 0 .. MaxLeafCapacity, NEW vs \in Seq(V), Len(vs) = num
  PROVE  LET x == Leaf(num, vs)
             f == Fresh(m) IN
         /\ GoodLeaf(V, x) /\ x.num = num /\ LeafValues(x) = vs
         /\ f \in Places /\ f # None /\ m.node[f] = None
         /\ OnlyOne(V, m, Create(m, x), f, x)
<1>1. Held(num, vs) = vs
  BY HeldThere
<1> QED
  BY <1>1, NewLeafIs

LEMMA RestIs ==
  ASSUME NEW num \in Nat, NEW size \in Nat, NEW max \in Nat,
         num <= max, size <= max, size > 0, num + size > max
  PROVE  /\ (num + size) - max \in 0 .. max /\ (num + size) - max > 0
         /\ max > 0 /\ max \in 0 .. num + size /\ max \in 0 .. max
OBVIOUS

LEMMA FrozenLeafInside ==
  ASSUME NEW V, NEW m, NEW n, NEW at, NEW size, FullLeaf(V, m, n, at, size),
         NEW begin \in Nat, at # m.node[n].num, at # 0, m.node[n].mem # <<>>,
         None \notin NodeOf(V),
         \E f, g \in Nodes : f # g /\ m.node[f] = None /\ m.node[g] = None
  PROVE  Copies(V, m, InsertLeafFrozen(m, n, at, size, begin + at), n, at, size,
                begin)
<1> USE DEF FullLeaf
<1> DEFINE x     == m.node[n]
           num   == x.num
           had   == x.mem
           rest  == (num + size) - MaxLeafCapacity
           all   == Opened(had, at, size)
           f     == Fresh(m)
           one   == Take(all, MaxLeafCapacity)
           two   == Drop(all, MaxLeafCapacity)
           y     == Leaf(MaxLeafCapacity, one)
           z     == Leaf(rest, two)
           left  == Create(m, y)
           right == Create(left, z)
           g     == Fresh(left)
           r     == InsertLeafFrozen(m, n, at, size, begin + at)
<1>1. /\ num \in 0 .. MaxLeafCapacity /\ had \in Seq(V) /\ had # <<>>
      /\ Len(had) = num /\ LeafValues(x) = had
  <2>1. /\ num \in 0 .. MaxLeafCapacity /\ had \in Seq(V)
        /\ had = <<>> \/ Len(had) = num
        /\ LeafValues(x) = Held(num, had)
    BY GoodLeafIs
  <2> QED
    BY <2>1 DEF Held
<1>2. /\ num \in Nat /\ size \in Nat /\ MaxLeafCapacity \in Nat
      /\ at \in 0 .. num /\ num + size > MaxLeafCapacity /\ size > 0
      /\ size <= MaxLeafCapacity
  BY <1>1, StorageNodesAssumption
<1>3. /\ rest \in 0 .. MaxLeafCapacity /\ rest > 0 /\ MaxLeafCapacity > 0
      /\ MaxLeafCapacity \in 0 .. num + size
      /\ MaxLeafCapacity \in 0 .. MaxLeafCapacity
  BY ONLY <1>1, <1>2, RestIs
<1>4. r = Result(Remember(right, f, begin), f, g)
  <2>1. r = FullCases(m, n, at, size, begin)
    BY <1>1, <1>2, FullLeafIs
  <2> HIDE DEF FullLeaf
  <2> QED
    BY <2>1 DEF FullCases, LeftLeaf, RightLeaf, AllOf
<1>5. n # None
  BY StorageNodesAssumption DEF Places
<1>6. /\ m \in Heap(V) /\ n \in Places /\ m.node[n] # None /\ Garbage \in V
  OBVIOUS
<1> HIDE DEF FullLeaf, num, had, r
<1>7. all \in Seq(V) /\ Len(all) = num + size
  BY <1>1, <1>2, <1>6, OpenedIs
<1> HIDE DEF all
<1>8. /\ one \in Seq(V) /\ Len(one) = MaxLeafCapacity
      /\ two \in Seq(V) /\ Len(two) = rest /\ one \o two = all
  <2>1. MaxLeafCapacity \in 0 .. Len(all) /\ rest = Len(all) - MaxLeafCapacity
    BY <1>3, <1>7
  <2> HIDE DEF rest
  <2>2. one \in Seq(V) /\ Len(one) = MaxLeafCapacity
    BY <1>7, <2>1, TakeIs
  <2>3. two \in Seq(V) /\ Len(two) = rest
    BY <1>7, <2>1, DropIs
  <2>4. one \o two = all
    BY <1>7, <2>1, Halves
  <2> QED
    BY <2>2, <2>3, <2>4
<1> HIDE DEF one, two, rest
<1>9. /\ GoodLeaf(V, y) /\ y.num = MaxLeafCapacity /\ LeafValues(y) = one
      /\ f \in Places /\ f # None /\ m.node[f] = None
      /\ OnlyOne(V, m, left, f, y)
  BY <1>3, <1>6, <1>8, HoldsAll
<1> HIDE DEF y, f, left
<1>10. left \in Heap(V) /\ left.node[f] = y /\ left.node[n] = x /\ n # f
  BY <1>6, <1>9 DEF OnlyOne
<1>11. \E h \in Nodes : left.node[h] = None
  <2>1. PICK h, k \in Nodes : h # k /\ m.node[h] = None /\ m.node[k] = None
    OBVIOUS
  <2>2. h \in Places /\ k \in Places
    BY DEF Places
  <2>3. CASE h # f
    BY <1>9, <2>1, <2>2, <2>3 DEF OnlyOne
  <2>4. CASE k # f
    BY <1>9, <2>1, <2>2, <2>4 DEF OnlyOne
  <2> QED
    BY <2>1, <2>3, <2>4
<1>12. /\ GoodLeaf(V, z) /\ z.num = rest /\ LeafValues(z) = two
       /\ g \in Places /\ g # None /\ left.node[g] = None
       /\ OnlyOne(V, left, right, g, z)
  BY <1>3, <1>8, <1>10, <1>11, HoldsAll
<1> HIDE DEF z, g, right
<1>13. g # f /\ g # n /\ m.node[g] = None
  <2>1. y # None
    BY <1>9 DEF GoodLeaf
  <2>2. g # f
    BY <1>10, <1>12, <2>1
  <2> QED
    BY <1>6, <1>9, <1>10, <1>12, <2>2 DEF OnlyOne
<1>14. /\ right \in Heap(V) /\ right.node[f] = y /\ right.node[g] = z
       /\ right.node[n] = x
  BY <1>6, <1>9, <1>10, <1>12, <1>13 DEF OnlyOne
<1> DEFINE q == Remember(right, f, begin)
           w == q.node[f]
<1>15. /\ GoodLeaf(V, w) /\ LeafValues(w) = LeafValues(y) /\ w.num = y.num
       /\ w.range[1] = begin /\ w.range[2] <= w.num
       /\ OnlyOne(V, right, q, f, w) /\ q.cache = f
  BY <1>9, <1>14, RememberedLeaf
<1> HIDE DEF q
<1>16. r.m = q /\ r.child = f /\ r.sibling = g
  BY <1>4 DEF Result, q
<1>17. /\ q \in Heap(V) /\ q.crashed = m.crashed /\ q.node[n] = x
       /\ q.node[g] = z
       /\ \A p \in Places \ {f, g} : q.node[p] = m.node[p]
  BY <1>6, <1>9, <1>10, <1>12, <1>13, <1>14, <1>15 DEF OnlyOne
<1> HIDE DEF w
<1>18. LeafOpened(V, r, x, at, size, begin)
  <2>1. /\ r.m.node[r.child] = w /\ r.m.node[r.sibling] = z
        /\ w.num > 0 /\ z.num > 0
    BY <1>3, <1>9, <1>12, <1>15, <1>16, <1>17 DEF w
  <2>2. LeafValues(w) \o LeafValues(z) = Opened(LeafValues(x), at, size)
    BY <1>1, <1>8, <1>9, <1>12, <1>15 DEF all
  <2> QED
    BY <1>9, <1>12, <1>13, <1>15, <1>16, <1>17, <2>1, <2>2 DEF LeafOpened
<1>19. Copies(V, m, r, n, at, size, begin)
  BY <1>9, <1>10, <1>12, <1>13, <1>16, <1>17, <1>18 DEF Copies
<1> QED
  BY <1>19 DEF r

\* __CFStorageInsertLeafFrozen: the values of a leaf that is frozen and the new
\* ones are in at most two nodes, new ones but for the leaf itself, which keeps
\* its values for whoever else refers to it; no other node changes.  Only an
\* insertion in the middle of a full leaf reads its memory as if it were there.
THEOREM FrozenLeafIsKept ==
  ASSUME NEW V, Garbage \in V, None \notin NodeOf(V), NEW m \in Heap(V),
         NEW n \in Places, GoodLeaf(V, m.node[n]), ~m.crashed,
         NEW at \in 0 .. m.node[n].num, NEW size \in 1 .. MaxLeafCapacity,
         NEW absolute \in Nat, at <= absolute,
         \E f, g \in Nodes : f # g /\ m.node[f] = None /\ m.node[g] = None
  PROVE  LET x == m.node[n]
             r == InsertLeafFrozen(m, n, at, size, absolute) IN
         IF /\ x.mem = <<>> /\ x.num + size > MaxLeafCapacity
            /\ at # 0 /\ at # x.num
         THEN r.m.crashed
         ELSE ~r.m.crashed /\ Copies(V, m, r, n, at, size, absolute - at)
<1> DEFINE x     == m.node[n]
           begin == absolute - at
           q     == InsertLeafFrozen(m, n, at, size, begin + at)
<1>1. x.num \in Nat /\ x # None
  BY DEF GoodLeaf, NodeOf
<1>2. begin \in Nat /\ absolute = begin + at
  BY <1>1
<1> HIDE DEF begin
<1>3. \E f \in Nodes : m.node[f] = None
  OBVIOUS
<1> SUFFICES IF /\ x.mem = <<>> /\ x.num + size > MaxLeafCapacity
                /\ at # 0 /\ at # x.num
             THEN q.m.crashed
             ELSE ~q.m.crashed /\ Copies(V, m, q, n, at, size, begin)
  BY <1>2 DEF begin
<1>4. CASE x.num + size <= MaxLeafCapacity
  <2>1. Copies(V, m, q, n, at, size, begin)
    BY <1>1, <1>2, <1>3, <1>4, FrozenLeafGrows
  <2>2. ~(x.num + size > MaxLeafCapacity)
    BY <1>1, <1>4, StorageNodesAssumption
  <2> HIDE DEF q
  <2> QED
    BY <2>1, <2>2 DEF Copies
<1>5. CASE ~(x.num + size <= MaxLeafCapacity)
  <2>1. x.num + size > MaxLeafCapacity
    BY <1>1, <1>5, StorageNodesAssumption
  <2>2. FullLeaf(V, m, n, at, size)
    BY <1>1, <1>3, <2>1 DEF FullLeaf
  <2>3. CASE at = x.num \/ at = 0
    <3>1. Copies(V, m, q, n, at, size, begin)
      BY <1>2, <2>2, <2>3, FrozenLeafAtEnds
    <3> HIDE DEF q
    <3> QED
      BY <2>3, <3>1 DEF Copies
  <2>4. CASE at # x.num /\ at # 0 /\ x.mem # <<>>
    <3>1. Copies(V, m, q, n, at, size, begin)
      BY <1>2, <2>2, <2>4, FrozenLeafInside
    <3> HIDE DEF q
    <3> QED
      BY <2>4, <3>1 DEF Copies
  <2>5. CASE at # x.num /\ at # 0 /\ x.mem = <<>>
    <3>1. q = FullCases(m, n, at, size, begin)
      BY <1>1, <1>2, <2>1, FullLeafIs
    <3>2. FullCases(m, n, at, size, begin) =
            Result([m EXCEPT !.crashed = TRUE], n, None)
      BY <2>5 DEF FullCases
    <3> HIDE DEF q
    <3>3. q.m.crashed
      BY <3>1, <3>2 DEF Result, Heap
    <3> QED
      BY <2>1, <2>5, <3>3
  <2> QED
    BY <2>3, <2>4, <2>5
<1> QED
  BY <1>4, <1>5

-----------------------------------------------------------------------------
(* Deletion from a leaf.                                                    *)

\* d has the values of leaf n but those of the range: in a new leaf when n is
\* frozen, in n when it is not.
LeafClosed(V, m, d, n, at, size, frozen) ==
  LET y == d.m.node[d.node]
  IN  /\ GoodLeaf(V, y) /\ y.num > 0
      /\ LeafValues(y) = Closed(LeafValues(m.node[n]), at, size)
      /\ OnlyOne(V, m, d.m, d.node, y) /\ d.m.cache = m.cache
      /\ d.node \in Places
      /\ IF frozen THEN m.node[d.node] = None ELSE d.node = n

\* The memory of a leaf after a deletion holds the values after it.
Shrunk(V, num, mem, new, at, size) ==
  /\ new \in Seq(V) /\ (new = <<>> \/ Len(new) = num - size)
  /\ Held(num - size, new) = Closed(Held(num, mem), at, size)

LEMMA ClosedLazily ==
  ASSUME NEW V, Garbage \in V, NEW num \in Nat, NEW mem \in Seq(V),
         mem = <<>> \/ Len(mem) = num, NEW at \in Nat, NEW size \in Nat,
         at + size <= num, size < num
  PROVE  Shrunk(V, num, mem, IfThere(mem, Closed(mem, at, size)), at, size)
<1> DEFINE new == IfThere(mem, Closed(mem, at, size))
<1>1. CASE mem = <<>>
  <2>1. new = <<>> /\ Held(num, mem) = Gap(num)
    BY <1>1 DEF IfThere, Held
  <2>2. Closed(Gap(num), at, size) = Gap(num - size)
    BY GapClosed
  <2> HIDE DEF new
  <2> QED
    BY <2>1, <2>2 DEF new, Held, Shrunk
<1>2. CASE mem # <<>>
  <2>1. Len(mem) = num /\ Held(num, mem) = mem /\ new = Closed(mem, at, size)
    BY <1>2 DEF IfThere, Held
  <2>2. new \in Seq(V) /\ Len(new) = num - size
    BY <2>1, ClosedIs
  <2> HIDE DEF new
  <2>3. Held(num - size, new) = new
    BY <2>2, HeldThere
  <2> QED
    BY <2>1, <2>2, <2>3 DEF new, Shrunk
<1> QED
  BY <1>1, <1>2

\* A deletion from a leaf closes the list of its values; the leaf is changed
\* when it is not frozen, and only then.
\* (__CFStorageDeleteLeafFrozen, __CFStorageDeleteUnfrozen)
THEOREM LeafLosesValues ==
  ASSUME NEW V, Garbage \in V, NEW m \in Heap(V), NEW n \in Places,
         GoodLeaf(V, m.node[n]), NEW at \in Nat, NEW size \in Nat,
         at + size <= m.node[n].num, size < m.node[n].num,
         NEW frozen \in BOOLEAN,
         frozen => \E f \in Nodes : m.node[f] = None
  PROVE  LeafClosed(V, m, DeleteFromLeaf(m, n, at, size, frozen), n, at, size,
                    frozen)
<1> DEFINE x    == m.node[n]
           left == x.num - size
           mem  == IfThere(x.mem, Closed(x.mem, at, size))
           d    == DeleteFromLeaf(m, n, at, size, frozen)
<1>1. /\ x.num \in 0 .. MaxLeafCapacity /\ x.mem \in Seq(V)
      /\ x.mem = <<>> \/ Len(x.mem) = x.num
      /\ LeafValues(x) = Held(x.num, x.mem)
  BY GoodLeafIs
<1>2. left \in 0 .. MaxLeafCapacity /\ left > 0 /\ x.num \in Nat /\ left \in Nat
  BY <1>1, StorageNodesAssumption
<1>3. /\ mem \in Seq(V) /\ (mem = <<>> \/ Len(mem) = left)
      /\ Held(left, mem) = Closed(Held(x.num, x.mem), at, size)
  <2>1. Shrunk(V, x.num, x.mem, mem, at, size)
    BY <1>1, <1>2, ClosedLazily
  <2> HIDE DEF mem
  <2> QED
    BY <2>1 DEF Shrunk
<1> HIDE DEF left, mem
<1>4. CASE frozen
  <2> DEFINE y == Leaf(left, mem)
             f == Fresh(m)
  <2>1. /\ GoodLeaf(V, y) /\ y.num = left /\ LeafValues(y) = Held(left, mem)
        /\ f \in Places /\ f # None /\ m.node[f] = None
        /\ OnlyOne(V, m, Create(m, y), f, y)
    BY <1>2, <1>3, <1>4, NewLeafIs
  <2>2. Create(m, y).cache = m.cache
    BY <1>4, <2>1, Created DEF GoodLeaf
  <2>3. d = [m |-> Create(m, y), node |-> f]
    BY <1>4 DEF DeleteFromLeaf, left, mem
  <2> HIDE DEF y, f, d
  <2>4. d.node = f /\ d.m = Create(m, y) /\ d.m.node[d.node] = y
    BY <2>1, <2>3 DEF OnlyOne
  <2>5. LeafClosed(V, m, d, n, at, size, frozen)
    BY <1>1, <1>2, <1>3, <1>4, <2>1, <2>2, <2>4 DEF LeafClosed
  <2> QED
    BY <2>5 DEF d
<1>5. CASE ~frozen
  <2> DEFINE y   == [x EXCEPT !.num = left, !.mem = mem]
             new == [m EXCEPT !.node[n].num = left, !.node[n].mem = mem]
  <2>1. y \in NodeOf(V) /\ OnlyOne(V, m, new, n, y) /\ new.cache = m.cache
    <3>1. /\ m \in Heap(V) /\ n \in Places /\ m.node[n] \in NodeOf(V)
          /\ left \in Nat /\ mem \in Seq(V)
      BY <1>2, <1>3 DEF GoodLeaf
    <3>2. y \in NodeOf(V) /\ OnlyOne(V, m, new, n, y)
      BY <3>1, Resized
    <3>3. new.cache = m.cache
      BY DEF Heap
    <3> QED
      BY <3>2, <3>3
  <2>2. y.leaf /\ y.num = left /\ y.mem = mem
    BY DEF GoodLeaf, NodeOf
  <2>3. d = [m |-> Retain(new, n), node |-> n]
    BY <1>5 DEF DeleteFromLeaf, left, mem
  <2> HIDE DEF y, new, d
  <2>4. GoodLeaf(V, y) /\ LeafValues(y) = Held(left, mem)
    BY <1>2, <1>3, <2>1, <2>2, IsGoodLeaf
  <2>5. new \in Heap(V) /\ new.node[n] = y
    BY <2>1 DEF OnlyOne
  <2> DEFINE c == Counted(y)
             last == Retain(new, n)
  <2>6. OnlyOne(V, new, last, n, c) /\ last.cache = new.cache
    BY <2>4, <2>5, Retained
  <2>7. GoodLeaf(V, c) /\ LeafValues(c) = LeafValues(y) /\ c.num = y.num
    BY <2>4, CountedIs
  <2> HIDE DEF c, last
  <2>8. OnlyOne(V, m, last, n, c) /\ last.cache = m.cache
    BY <2>1, <2>6 DEF OnlyOne
  <2>9. d.node = n /\ d.m = last /\ d.m.node[d.node] = c
    BY <2>3, <2>6 DEF OnlyOne, last
  <2>10. LeafClosed(V, m, d, n, at, size, frozen)
    BY <1>1, <1>2, <1>3, <1>5, <2>2, <2>4, <2>7, <2>8, <2>9 DEF LeafClosed
  <2> QED
    BY <2>10 DEF d
<1> QED
  BY <1>4, <1>5

-----------------------------------------------------------------------------
(* Branches.                                                                *)

\* Children that are there.
Kin(V, m, kids) ==
  kids \in Seq(Nodes) /\ \A i \in 1 .. Len(kids) : m.node[kids[i]] \in NodeOf(V)

\* s gives the lengths of the first children of kids.
Sums(m, kids, s) ==
  /\ s[0] = 0
  /\ \A i \in 0 .. Len(kids) - 1 : s[i + 1] = s[i] + m.node[kids[i + 1]].num

\* What is true of 0, and of a number if it is of the one before, is of all.
LEMMA Counting ==
  ASSUME NEW n \in Nat, NEW S, 0 \in S,
         \A k \in 0 .. n - 1 : k \in S => k + 1 \in S
  PROVE  \A k \in 0 .. n : k \in S
<1> DEFINE Rest == {k \in 0 .. n : k \notin S}
<1>1. SUFFICES ASSUME Rest # {} PROVE FALSE
  OBVIOUS
<1>2. Rest \in SUBSET Nat
  OBVIOUS
<1> DEFINE k == Min(Rest)
<1>3. k \in Rest /\ \A j \in Rest : k <= j
  <2> HIDE DEF Rest
  <2> QED
    BY <1>1, <1>2, LeastIs
<1> HIDE DEF k
<1>4. k \in 0 .. n /\ k \notin S /\ k # 0
  BY <1>3
<1>5. k - 1 \in 0 .. n - 1
  BY <1>4
<1>6. k - 1 \notin Rest
  BY <1>3, <1>4
<1>7. k - 1 \in S
  BY <1>5, <1>6
<1> QED
  BY <1>4, <1>5, <1>7

LEMMA LengthUnrolled ==
  ASSUME NEW m, NEW kids, Len(kids) \in Nat
  PROVE  \E s : Sums(m, kids, s) /\ Length(m, kids) = s[Len(kids)]
<1> DEFINE N == Len(kids)
           num(i) == m.node[kids[i]].num
           Upto(f, n) == f = [i \in 0 .. n |-> IF i = 0 THEN 0 ELSE f[i - 1] + num(i)]
           S == {n \in 0 .. N : \E f : Upto(f, n)}
<1>1. 0 \in S
  <2> DEFINE g == [i \in 0 .. 0 |-> 0]
  <2>1. g = [i \in 0 .. 0 |-> IF i = 0 THEN 0 ELSE g[i - 1] + num(i)]
    OBVIOUS
  <2> HIDE DEF g
  <2>2. Upto(g, 0)
    BY <2>1
  <2>3. 0 \in 0 .. N
    OBVIOUS
  <2> QED
    BY <2>2, <2>3
<1>2. ASSUME NEW n \in 0 .. N - 1, n \in S PROVE n + 1 \in S
  <2>1. PICK f : Upto(f, n)
    BY <1>2
  <2> DEFINE g == [i \in 0 .. n + 1 |-> IF i = n + 1 THEN f[n] + num(n + 1) ELSE f[i]]
  <2>2. \A i \in 0 .. n : f[i] = IF i = 0 THEN 0 ELSE f[i - 1] + num(i)
    BY <2>1
  <2>3. \A i \in 0 .. n : g[i] = f[i]
    OBVIOUS
  <2>4. ASSUME NEW i \in 0 .. n + 1
        PROVE  g[i] = IF i = 0 THEN 0 ELSE g[i - 1] + num(i)
    <3>1. CASE i = n + 1
      <4>1. g[n] = f[n] /\ i # 0 /\ i - 1 = n
        BY <2>3, <3>1
      <4>2. g[i] = f[n] + num(n + 1)
        BY <3>1
      <4> HIDE DEF g, num
      <4> QED
        BY <3>1, <4>1, <4>2
    <3>2. CASE i = 0
      <4>1. g[0] = f[0]
        BY <2>3
      <4> HIDE DEF g
      <4> QED
        BY <2>2, <3>2, <4>1
    <3>3. CASE i \in 1 .. n
      <4>1. g[i] = f[i] /\ g[i - 1] = f[i - 1] /\ i \in 0 .. n /\ i # 0
        BY <2>3, <3>3
      <4> HIDE DEF g
      <4> QED
        BY <2>2, <4>1
    <3> QED
      BY <3>1, <3>2, <3>3
  <2>5. Upto(g, n + 1)
    <3> DEFINE h == [i \in 0 .. n + 1 |-> IF i = 0 THEN 0 ELSE g[i - 1] + num(i)]
    <3>1. DOMAIN g = 0 .. n + 1 /\ g = [i \in 0 .. n + 1 |-> g[i]]
      OBVIOUS
    <3> HIDE DEF g
    <3>2. g = h
      BY <2>4, <3>1
    <3> QED
      BY <3>2
  <2> HIDE DEF g
  <2>6. n + 1 \in 0 .. N
    OBVIOUS
  <2> QED
    BY <2>5, <2>6
<1>3. \E f : Upto(f, N)
  <2>1. N \in Nat /\ N \in 0 .. N
    OBVIOUS
  <2> HIDE DEF S, N
  <2>2. \A n \in 0 .. N : n \in S
    BY <1>1, <1>2, <2>1, Counting
  <2> QED
    BY <2>1, <2>2 DEF S
<1> DEFINE s == CHOOSE f : Upto(f, N)
<1>4. Upto(s, N)
  BY <1>3
<1>5. Length(m, kids) = s[N]
  BY DEF Length
<1> HIDE DEF s
<1>6. s[0] = 0
  BY <1>4
<1>7. ASSUME NEW i \in 0 .. N - 1 PROVE s[i + 1] = s[i] + num(i + 1)
  <2>1. i + 1 \in 0 .. N /\ i + 1 # 0 /\ (i + 1) - 1 = i
    OBVIOUS
  <2> QED
    BY <1>4, <2>1
<1> QED
  BY <1>5, <1>6, <1>7 DEF Sums

\* Two sums of the same lengths.
LEMMA SameSums ==
  ASSUME NEW k \in Nat, NEW s, NEW r, s[0] = r[0],
         \A i \in 0 .. k - 1 : s[i] = r[i] => s[i + 1] = r[i + 1]
  PROVE  s[k] = r[k]
<1> DEFINE S == {i \in 0 .. k : s[i] = r[i]}
<1>1. 0 \in S
  OBVIOUS
<1>2. ASSUME NEW i \in 0 .. k - 1, i \in S PROVE i + 1 \in S
  BY <1>2
<1>3. k \in 0 .. k
  OBVIOUS
<1> HIDE DEF S
<1>4. k \in S
  BY <1>1, <1>2, <1>3, Counting
<1> QED
  BY <1>4 DEF S

LEMMA SumsAreNat ==
  ASSUME NEW V, NEW m, NEW kids, Kin(V, m, kids), NEW s, Sums(m, kids, s)
  PROVE  \A i \in 0 .. Len(kids) : s[i] \in Nat
<1> DEFINE S == {i \in 0 .. Len(kids) : s[i] \in Nat}
<1>0. Len(kids) \in Nat
  BY DEF Kin
<1>1. 0 \in S
  BY <1>0 DEF Sums
<1>2. ASSUME NEW i \in 0 .. Len(kids) - 1, i \in S PROVE i + 1 \in S
  <2>1. i + 1 \in 1 .. Len(kids) /\ i + 1 \in 0 .. Len(kids)
    BY <1>0
  <2>2. m.node[kids[i + 1]].num \in Nat
    BY <2>1 DEF Kin, NodeOf
  <2>3. s[i + 1] = s[i] + m.node[kids[i + 1]].num
    BY DEF Sums
  <2> QED
    BY <1>2, <2>1, <2>2, <2>3
<1> HIDE DEF S
<1>3. \A i \in 0 .. Len(kids) : i \in S
  BY <1>0, <1>1, <1>2, Counting
<1> QED
  BY <1>3 DEF S

\* The lengths of the first children, one after the other.
LEMMA LengthsAre ==
  ASSUME NEW V, NEW m, NEW kids, Kin(V, m, kids), NEW s, Sums(m, kids, s)
  PROVE  /\ \A i \in 0 .. Len(kids) :
              s[i] \in Nat /\ Length(m, Take(kids, i)) = s[i]
         /\ Length(m, kids) = s[Len(kids)]
<1>1. Len(kids) \in Nat /\ kids \in Seq(Nodes)
  BY DEF Kin
<1>2. ASSUME NEW i \in 0 .. Len(kids) PROVE Length(m, Take(kids, i)) = s[i]
  <2>1. /\ Take(kids, i) \in Seq(Nodes) /\ Len(Take(kids, i)) = i
        /\ \A j \in 1 .. i : Take(kids, i)[j] = kids[j]
    BY <1>1, TakeIs
  <2>2. PICK r : /\ Sums(m, Take(kids, i), r)
                 /\ Length(m, Take(kids, i)) = r[Len(Take(kids, i))]
    BY <1>1, <2>1, LengthUnrolled
  <2>3. /\ i \in Nat /\ i <= Len(kids) /\ i <= Len(Take(kids, i))
        /\ Len(Take(kids, i)) \in Nat
        /\ \A j \in 0 .. i - 1 : j + 1 \in 1 .. i /\ j \in 0 .. Len(kids) - 1
    BY <1>1, <2>1
  <2>4. r[0] = s[0] /\ \A j \in 0 .. i - 1 : r[j] = s[j] => r[j + 1] = s[j + 1]
    BY <2>1, <2>2, <2>3 DEF Sums
  <2>5. r[i] = s[i]
    BY <2>3, <2>4, SameSums
  <2> QED
    BY <2>1, <2>2, <2>5
<1>3. PICK r : Sums(m, kids, r) /\ Length(m, kids) = r[Len(kids)]
  BY <1>1, LengthUnrolled
<1>4. r[Len(kids)] = s[Len(kids)]
  <2> DEFINE k == Len(kids)
  <2>1. k \in Nat /\ \A j \in 0 .. k - 1 : j + 1 \in 1 .. Len(kids)
    BY <1>1
  <2>2. r[0] = s[0] /\ \A j \in 0 .. k - 1 : r[j] = s[j] => r[j + 1] = s[j + 1]
    BY <1>3, <2>1 DEF Sums
  <2> HIDE DEF k
  <2>3. r[k] = s[k]
    BY <2>1, <2>2, SameSums
  <2> QED
    BY <2>3 DEF k
<1> QED
  BY <1>2, <1>3, <1>4, SumsAreNat

\* Heaps in which the children have the same lengths.
LEMMA SameLength ==
  ASSUME NEW m, NEW t, NEW kids \in Seq(Nodes),
         \A i \in 1 .. Len(kids) : t.node[kids[i]].num = m.node[kids[i]].num
  PROVE  Length(t, kids) = Length(m, kids)
<1>1. Len(kids) \in Nat
  OBVIOUS
<1>2. PICK s : Sums(m, kids, s) /\ Length(m, kids) = s[Len(kids)]
  BY <1>1, LengthUnrolled
<1>3. PICK r : Sums(t, kids, r) /\ Length(t, kids) = r[Len(kids)]
  BY <1>1, LengthUnrolled
<1>4. r[Len(kids)] = s[Len(kids)]
  <2> DEFINE k == Len(kids)
  <2>1. k \in Nat /\ \A j \in 0 .. k - 1 : j + 1 \in 1 .. Len(kids)
    BY <1>1
  <2>2. r[0] = s[0] /\ \A j \in 0 .. k - 1 : r[j] = s[j] => r[j + 1] = s[j + 1]
    BY <1>2, <1>3, <2>1 DEF Sums
  <2> HIDE DEF k
  <2>3. r[k] = s[k]
    BY <2>1, <2>2, SameSums
  <2> QED
    BY <2>3 DEF k
<1> QED
  BY <1>2, <1>3, <1>4

\* A list of children that is divided after k.
Divided(V, m, kids, k) ==
  /\ Kin(V, m, Take(kids, k)) /\ Kin(V, m, Drop(kids, k))
  /\ Length(m, Take(kids, k)) \in Nat /\ Length(m, Drop(kids, k)) \in Nat
  /\ Length(m, kids) = Length(m, Take(kids, k)) + Length(m, Drop(kids, k))

LEMMA LengthOfParts ==
  ASSUME NEW V, NEW m, NEW kids, Kin(V, m, kids), NEW k \in 0 .. Len(kids)
  PROVE  Divided(V, m, kids, k)
<1> DEFINE one == Take(kids, k)
           two == Drop(kids, k)
<1>1. Len(kids) \in Nat /\ kids \in Seq(Nodes)
  BY DEF Kin
<1>2. one \in Seq(Nodes) /\ Len(one) = k /\ \A i \in 1 .. k : one[i] = kids[i]
  BY <1>1, TakeIs
<1>3. /\ two \in Seq(Nodes) /\ Len(two) = Len(kids) - k
      /\ \A i \in 1 .. Len(kids) - k : two[i] = kids[k + i]
  BY <1>1, DropIs
<1>4. PICK s : Sums(m, kids, s)
  BY <1>1, LengthUnrolled
<1>5. /\ \A i \in 0 .. Len(kids) :
           s[i] \in Nat /\ Length(m, Take(kids, i)) = s[i]
      /\ Length(m, kids) = s[Len(kids)]
  BY <1>4, LengthsAre
<1>6. s[k] \in Nat /\ Length(m, one) = s[k] /\ s[Len(kids)] \in Nat
  BY <1>1, <1>5
<1> HIDE DEF one, two
<1>7. Kin(V, m, one)
  BY <1>1, <1>2 DEF Kin
<1>8. Kin(V, m, two)
  <2>1. \A i \in 1 .. Len(kids) - k : k + i \in 1 .. Len(kids)
    BY <1>1
  <2> QED
    BY <1>3, <2>1 DEF Kin
<1>9. PICK r : Sums(m, two, r)
  <2>1. Len(two) \in Nat
    BY <1>1, <1>3
  <2> QED
    BY <2>1, LengthUnrolled
<1>10. /\ \A i \in 0 .. Len(two) : r[i] \in Nat
       /\ Length(m, two) = r[Len(two)]
  BY <1>8, <1>9, LengthsAre
<1> DEFINE S == {i \in 0 .. Len(two) : s[k + i] = s[k] + r[i]}
<1>11. 0 \in S
  BY <1>1, <1>3, <1>6, <1>9 DEF Sums
<1>12. ASSUME NEW i \in 0 .. Len(two) - 1, i \in S PROVE i + 1 \in S
  <2>1. /\ k + i \in 0 .. Len(kids) - 1 /\ (k + i) + 1 = k + (i + 1)
        /\ i + 1 \in 1 .. Len(kids) - k /\ i + 1 \in 0 .. Len(two)
        /\ i \in 0 .. Len(two)
    BY <1>1, <1>3
  <2> DEFINE num == m.node[kids[(k + i) + 1]].num
  <2>2. num = m.node[two[i + 1]].num
    BY <1>3, <2>1
  <2>3. s[(k + i) + 1] = s[k + i] + num
    BY <1>4, <2>1 DEF Sums
  <2>4. r[i + 1] = r[i] + num
    BY <1>9, <2>2 DEF Sums
  <2>5. num \in Nat
    <3>1. (k + i) + 1 \in 1 .. Len(kids)
      BY <1>1, <2>1
    <3> QED
      BY <3>1 DEF Kin, NodeOf
  <2>6. r[i] \in Nat
    BY <1>10, <2>1
  <2> HIDE DEF num
  <2>7. s[k + i] = s[k] + r[i]
    BY <1>12
  <2>8. s[(k + i) + 1] = s[k] + r[i + 1]
    BY <1>6, <2>3, <2>4, <2>5, <2>6, <2>7
  <2> QED
    BY <2>1, <2>8
<1>13. Len(two) \in S
  <2>1. Len(two) \in Nat
    BY <1>1, <1>3
  <2> HIDE DEF S
  <2>2. \A i \in 0 .. Len(two) : i \in S
    BY <1>11, <1>12, <2>1, Counting
  <2> QED
    BY <2>1, <2>2
<1>14. s[k + Len(two)] = s[k] + r[Len(two)] /\ k + Len(two) = Len(kids)
  BY <1>1, <1>3, <1>13
<1>15. r[Len(two)] \in Nat
  BY <1>1, <1>3, <1>10
<1> HIDE DEF S
<1> QED
  BY <1>5, <1>6, <1>7, <1>8, <1>10, <1>14, <1>15 DEF one, two, Divided

\* Each child starts where the one before it ends.
InOrder(m, n) ==
  LET kids == m.node[n].kids
  IN  \A i \in 1 .. Len(kids) :
        /\ Start(m, n, i) \in Nat /\ m.node[kids[i]].num \in Nat
        /\ i = 1 => Start(m, n, i) = 0
        /\ i < Len(kids) =>
             Start(m, n, i + 1) = Start(m, n, i) + m.node[kids[i]].num
        /\ i = Len(kids) =>
             Length(m, kids) = Start(m, n, i) + m.node[kids[i]].num

LEMMA Starts ==
  ASSUME NEW V, NEW m, NEW n, Kin(V, m, m.node[n].kids)
  PROVE  InOrder(m, n)
<1> DEFINE kids == m.node[n].kids
<1> HIDE DEF kids
<1>1. Len(kids) \in Nat /\ kids \in Seq(Nodes) /\ Kin(V, m, kids)
  BY DEF Kin, kids
<1>2. PICK s : Sums(m, kids, s)
  BY <1>1, LengthUnrolled
<1>3. /\ \A i \in 0 .. Len(kids) :
           s[i] \in Nat /\ Length(m, Take(kids, i)) = s[i]
      /\ Length(m, kids) = s[Len(kids)]
  BY <1>1, <1>2, LengthsAre
<1>4. ASSUME NEW i \in 1 .. Len(kids)
      PROVE  /\ Start(m, n, i) = s[i - 1] /\ s[i - 1] \in Nat
             /\ m.node[kids[i]].num \in Nat
             /\ s[i] = s[i - 1] + m.node[kids[i]].num
  <2>1. i - 1 \in 0 .. Len(kids) - 1 /\ i - 1 \in 0 .. Len(kids) /\ (i - 1) + 1 = i
    BY <1>1
  <2>2. Start(m, n, i) = s[i - 1]
    BY <1>3, <2>1 DEF Start, kids
  <2>3. m.node[kids[i]].num \in Nat
    BY <1>1 DEF Kin, NodeOf
  <2>4. s[(i - 1) + 1] = s[i - 1] + m.node[kids[(i - 1) + 1]].num
    BY <1>2, <2>1 DEF Sums
  <2> QED
    BY <1>3, <2>1, <2>2, <2>3, <2>4
<1>5. s[0] = 0
  BY <1>2 DEF Sums
<1>6. ASSUME NEW i \in 1 .. Len(kids)
      PROVE  /\ Start(m, n, i) \in Nat /\ m.node[kids[i]].num \in Nat
             /\ i = 1 => Start(m, n, i) = 0
             /\ i < Len(kids) =>
                  Start(m, n, i + 1) = Start(m, n, i) + m.node[kids[i]].num
             /\ i = Len(kids) =>
                  Length(m, kids) = Start(m, n, i) + m.node[kids[i]].num
  <2>1. i = 1 => Start(m, n, i) = 0
    BY <1>4, <1>5
  <2>2. ASSUME i < Len(kids)
        PROVE  Start(m, n, i + 1) = Start(m, n, i) + m.node[kids[i]].num
    <3>1. i + 1 \in 1 .. Len(kids) /\ (i + 1) - 1 = i
      BY <1>1, <2>2
    <3> QED
      BY <1>4, <3>1
  <2>3. i = Len(kids) => Length(m, kids) = Start(m, n, i) + m.node[kids[i]].num
    BY <1>3, <1>4
  <2> QED
    BY <1>4, <2>1, <2>2, <2>3
<1> QED
  BY <1>6 DEF kids, InOrder

\* The i-th child has the value at, or for an insertion is the first to have
\* the place in it or at its end.
HasPlace(m, n, i, at, inserting) ==
  LET num == m.node[m.node[n].kids[i]].num
  IN  /\ i \in 1 .. Len(m.node[n].kids)
      /\ Start(m, n, i) <= at
      /\ IF inserting THEN at <= Start(m, n, i) + num
         ELSE at < Start(m, n, i) + num
      /\ inserting /\ i > 1 => Start(m, n, i) < at

\* __CFStorageFindChild: a value is looked for in the child that has it, and a
\* place for new values in the first child that has it or ends there.
THEOREM ChildIsFound ==
  ASSUME NEW V, NEW m, NEW n, Kin(V, m, m.node[n].kids), m.node[n].kids # <<>>,
         NEW inserting \in BOOLEAN, NEW at \in Nat,
         IF inserting THEN at <= Length(m, m.node[n].kids)
         ELSE at < Length(m, m.node[n].kids)
  PROVE  HasPlace(m, n, FindChild(m, n, at, inserting), at, inserting)
<1> DEFINE kids == m.node[n].kids
           last(i) == Start(m, n, i) + m.node[kids[i]].num
           S == {i \in DOMAIN kids : at < last(i) \/ (inserting /\ at = last(i))}
           i == FindChild(m, n, at, inserting)
<1>1. /\ kids \in Seq(Nodes) /\ Len(kids) \in Nat /\ Len(kids) > 0
      /\ DOMAIN kids = 1 .. Len(kids)
  <2>1. kids \in Seq(Nodes)
    BY DEF Kin
  <2> HIDE DEF kids
  <2> QED
    BY <2>1 DEF kids
<1>2. \A j \in 1 .. Len(kids) :
        /\ Start(m, n, j) \in Nat /\ m.node[kids[j]].num \in Nat
        /\ j = 1 => Start(m, n, j) = 0
        /\ j < Len(kids) => Start(m, n, j + 1) = last(j)
        /\ j = Len(kids) => Length(m, kids) = last(j)
  <2>1. InOrder(m, n)
    BY Starts
  <2> QED
    BY <2>1 DEF InOrder
<1>3. i = Min(S)
  BY DEF FindChild
<1> HIDE DEF kids, i
<1>4. S \in SUBSET Nat /\ Len(kids) \in S
  <2> DEFINE k == Len(kids)
  <2>1. k \in DOMAIN kids /\ Length(m, kids) = last(k) /\ last(k) \in Nat
    <3>1. k \in DOMAIN kids /\ k \in 1 .. Len(kids) /\ k = Len(kids)
      BY <1>1
    <3> HIDE DEF k
    <3>2. /\ Start(m, n, k) \in Nat /\ m.node[kids[k]].num \in Nat
          /\ Length(m, kids) = last(k)
      BY <1>2, <3>1
    <3> QED
      BY <3>1, <3>2
  <2>2. at < last(k) \/ (inserting /\ at = last(k))
    BY <2>1 DEF kids
  <2> QED
    BY <1>1, <2>1, <2>2
<1> HIDE DEF S
<1>5. i \in S /\ \A j \in S : i <= j
  BY <1>3, <1>4, LeastIs
<1>6. /\ i \in 1 .. Len(kids) /\ i \in Nat
      /\ at < last(i) \/ (inserting /\ at = last(i))
  BY <1>1, <1>5 DEF S
<1>7. Start(m, n, i) <= at /\ (inserting /\ i > 1 => Start(m, n, i) < at)
  <2>1. CASE i = 1
    BY <1>2, <1>6, <2>1
  <2>2. CASE i # 1
    <3> DEFINE j == i - 1
    <3>1. /\ j \in 1 .. Len(kids) /\ j < Len(kids) /\ j + 1 = i /\ j < i
          /\ j \in Nat
      BY <1>1, <1>6, <2>2
    <3>2. j \notin S
      BY <1>5, <1>6, <3>1
    <3> HIDE DEF j
    <3>3. ~(at < last(j)) /\ ~(inserting /\ at = last(j))
      BY <1>1, <3>1, <3>2 DEF S
    <3>4. Start(m, n, i) = last(j)
      BY <1>2, <3>1
    <3>5. Start(m, n, i) \in Nat
      BY <1>2, <1>6
    <3> HIDE DEF last
    <3> QED
      BY <3>3, <3>4, <3>5
  <2> QED
    BY <2>1, <2>2
<1>8. last(i) \in Nat
  BY <1>2, <1>6
<1> QED
  BY <1>6, <1>7, <1>8 DEF HasPlace, kids, i

LEMMA MaxOfTwo ==
  ASSUME NEW a \in Int, NEW b \in Int
  PROVE  Max({a, b}) = IF a >= b THEN a ELSE b
<1> DEFINE c == IF a >= b THEN a ELSE b
<1>1. c \in {a, b} /\ \A y \in {a, b} : c >= y
  OBVIOUS
<1>2. \A x \in {a, b} : (\A y \in {a, b} : x >= y) => x = c
  OBVIOUS
<1> HIDE DEF c
<1>3. Max({a, b}) = c
  BY <1>1, <1>2 DEF Max
<1> QED
  BY <1>3 DEF c

\* part is what the positions from at on and those of the i-th child of n have
\* in common, counted from where the child starts.
CommonPart(m, n, i, at, size, part) ==
  LET start == Start(m, n, i)
      num   == m.node[m.node[n].kids[i]].num
  IN  /\ part.at \in Nat /\ part.size \in Nat
      /\ part.size > 0 => part.at + part.size <= num
      /\ \A p \in Nat :
           (at <= p /\ p < at + size) /\ (start <= p /\ p < start + num) <=>
             start + part.at <= p /\ p < (start + part.at) + part.size

\* intersectionRange, as __CFStoragePopulateBranchChildrenAfterDeletion uses it:
\* from every child goes what lies in the range, and nothing else.
THEOREM PartsAreInRange ==
  ASSUME NEW V, NEW m, NEW n, Kin(V, m, m.node[n].kids),
         NEW i \in 1 .. Len(m.node[n].kids), NEW at \in Nat, NEW size \in Nat
  PROVE  CommonPart(m, n, i, at, size, Overlap(m, n, i, at, size))
<1> DEFINE start == Start(m, n, i)
           num   == m.node[m.node[n].kids[i]].num
           first == Max({at, start})
           last  == Least(at + size, start + num)
           part  == Overlap(m, n, i, at, size)
<1>1. start \in Nat /\ num \in Nat
  <2>1. InOrder(m, n)
    BY Starts
  <2> QED
    BY <2>1 DEF InOrder
<1>2. part.at = first - start /\ part.size = Max({0, last - first})
  BY DEF Overlap
<1> HIDE DEF start, num, part
<1>3. first = IF at >= start THEN at ELSE start
  BY <1>1, MaxOfTwo
<1>4. last = IF at + size < start + num THEN at + size ELSE start + num
  BY DEF Least
<1> HIDE DEF first, last
<1>5. first \in Nat /\ last \in Nat /\ first >= start /\ first >= at
  BY <1>1, <1>3, <1>4
<1>6. part.size = IF 0 >= last - first THEN 0 ELSE last - first
  <2>1. last - first \in Int /\ 0 \in Int
    BY <1>5
  <2> QED
    BY <1>2, <2>1, MaxOfTwo
<1> DEFINE x == part.at
           y == part.size
<1>7. x = first - start /\ y = IF 0 >= last - first THEN 0 ELSE last - first
  BY <1>2, <1>6
<1> HIDE DEF x, y
<1>8. x \in Nat /\ y \in Nat /\ (y > 0 => x + y <= num)
  BY <1>1, <1>4, <1>5, <1>7
<1>9. ASSUME NEW p \in Nat
      PROVE  (at <= p /\ p < at + size) /\ (start <= p /\ p < start + num) <=>
               start + x <= p /\ p < (start + x) + y
  BY <1>1, <1>3, <1>4, <1>5, <1>7, <1>8
<1> QED
  BY <1>8, <1>9 DEF CommonPart, x, y, start, num, part

\* The children after an insertion below the i-th.
SplicedAt(V, t, kids, new, i, r, o) ==
  /\ o = IF r.sibling = None THEN 0 ELSE 1
  /\ new \in Seq(Nodes) /\ Len(new) = Len(kids) + o
  /\ \A j \in 1 .. i - 1 : new[j] = kids[j]
  /\ new[i] = r.child
  /\ o = 1 => new[i + 1] = r.sibling
  /\ \A j \in 1 .. Len(kids) - i : new[(i + o) + j] = kids[i + j]

LEMMA SplicedIs ==
  ASSUME NEW V, NEW t, NEW n, NEW kids \in Seq(Nodes), t.node[n].kids = kids,
         NEW i \in 1 .. Len(kids), NEW r, r.child \in Nodes,
         r.sibling = None \/ r.sibling \in Nodes
  PROVE  \E o \in {0, 1} :
           SplicedAt(V, t, kids, Spliced(t, n, i, r), i, r, o)
<1> DEFINE one == [kids EXCEPT ![i] = r.child]
           new == Spliced(t, n, i, r)
<1>1. /\ one \in Seq(Nodes) /\ Len(one) = Len(kids) /\ one[i] = r.child
      /\ \A j \in 1 .. Len(kids) : j # i => one[j] = kids[j]
  OBVIOUS
<1>2. Len(kids) \in Nat /\ i \in Nat
  OBVIOUS
<1>3. new = IF r.sibling = None THEN one ELSE InsertAt(one, i + 1, r.sibling)
  BY DEF Spliced
<1> HIDE DEF one, new
<1>4. CASE r.sibling = None
  <2>1. new = one
    BY <1>3, <1>4
  <2>2. SplicedAt(V, t, kids, new, i, r, 0)
    BY <1>1, <1>2, <1>4, <2>1 DEF SplicedAt
  <2> QED
    BY <2>2 DEF new
<1>5. CASE r.sibling # None
  <2> DEFINE left  == SubSeq(one, 1, i)
             right == SubSeq(one, i + 1, Len(one))
             mid   == <<r.sibling>>
  <2>1. new = left \o mid \o right
    <3>1. (i + 1) - 1 = i
      BY <1>2
    <3> QED
      BY <1>3, <1>5, <3>1 DEF InsertAt
  <2>2. /\ left \in Seq(Nodes) /\ Len(left) = i
        /\ \A j \in 1 .. i : left[j] = one[j]
    <3>1. i \in 0 .. Len(one)
      BY <1>1, <1>2
    <3> QED
      BY <1>1, <3>1, TakeIs DEF Take
  <2>3. /\ right \in Seq(Nodes) /\ Len(right) = Len(kids) - i
        /\ \A j \in 1 .. Len(kids) - i : right[j] = one[i + j]
    <3>1. i \in 0 .. Len(one)
      BY <1>1, <1>2
    <3> QED
      BY <1>1, <3>1, DropIs DEF Drop
  <2>4. mid \in Seq(Nodes) /\ Len(mid) = 1 /\ mid[1] = r.sibling
    BY <1>5
  <2> HIDE DEF left, right, mid
  <2>5. /\ left \o mid \in Seq(Nodes) /\ Len(left \o mid) = i + 1
        /\ \A j \in 1 .. i : (left \o mid)[j] = left[j]
        /\ (left \o mid)[i + 1] = r.sibling
    <3>1. /\ left \o mid \in Seq(Nodes) /\ Len(left \o mid) = i + 1
          /\ \A j \in 1 .. i + 1 :
               (left \o mid)[j] = IF j <= i THEN left[j] ELSE mid[j - i]
      <4>1. Joined(Nodes, left \o mid, left, mid, i, 1)
        BY <2>2, <2>4, JoinedIs
      <4> QED
        BY <4>1 DEF Joined
    <3>2. (i + 1) - i = 1 /\ i + 1 \in 1 .. i + 1 /\ ~(i + 1 <= i)
      BY <1>2
    <3> QED
      BY <1>2, <2>4, <3>1, <3>2
  <2> DEFINE both == left \o mid
  <2>6. new = both \o right
    BY <2>1
  <2> HIDE DEF both
  <2>7. /\ both \in Seq(Nodes) /\ Len(both) = i + 1
        /\ \A j \in 1 .. i : both[j] = left[j]
        /\ both[i + 1] = r.sibling
    BY <2>5 DEF both
  <2>8. /\ new \in Seq(Nodes) /\ Len(new) = (i + 1) + (Len(kids) - i)
        /\ \A j \in 1 .. (i + 1) + (Len(kids) - i) :
             new[j] = IF j <= i + 1 THEN both[j] ELSE right[j - (i + 1)]
    <3>1. Joined(Nodes, both \o right, both, right, i + 1, Len(kids) - i)
      BY <2>3, <2>7, JoinedIs
    <3> QED
      BY <2>6, <3>1 DEF Joined
  <2>9. Len(new) = Len(kids) + 1
    BY <1>2, <2>8
  <2>10. \A j \in 1 .. i : new[j] = one[j]
    BY <1>2, <2>2, <2>7, <2>8
  <2>11. new[i + 1] = r.sibling
    BY <1>2, <2>7, <2>8
  <2>12. ASSUME NEW j \in 1 .. Len(kids) - i
         PROVE  new[(i + 1) + j] = kids[i + j]
    <3> DEFINE k == (i + 1) + j
    <3>1. /\ k \in 1 .. (i + 1) + (Len(kids) - i) /\ ~(k <= i + 1)
          /\ k - (i + 1) = j /\ i + j \in 1 .. Len(kids) /\ i + j # i
      BY <1>2
    <3>2. new[k] = right[k - (i + 1)]
      BY <2>8, <3>1
    <3> HIDE DEF k
    <3>3. right[j] = one[i + j] /\ one[i + j] = kids[i + j]
      BY <1>1, <2>3, <3>1
    <3>4. new[k] = kids[i + j]
      BY <3>1, <3>2, <3>3
    <3> QED
      BY <3>4 DEF k
  <2>13. \A j \in 1 .. i - 1 : new[j] = kids[j]
    BY <1>1, <1>2, <2>10
  <2>14. new[i] = r.child
    BY <1>1, <1>2, <2>10
  <2>15. SplicedAt(V, t, kids, new, i, r, 1)
    BY <1>5, <2>8, <2>9, <2>11, <2>12, <2>13, <2>14 DEF SplicedAt
  <2> QED
    BY <2>15 DEF new
<1> QED
  BY <1>4, <1>5

\* What an insertion below the i-th child of a branch gives: t is the heap
\* after it, m the one before.
GrownBelow(V, m, t, kids, i, r, size) ==
  LET child   == t.node[r.child]
      sibling == t.node[r.sibling]
      before  == m.node[kids[i]].num
  IN  /\ r.child \in Nodes /\ child \in NodeOf(V)
      /\ IF r.sibling = None THEN child.num = before + size
         ELSE /\ r.sibling \in Nodes /\ sibling \in NodeOf(V)
              /\ child.num + sibling.num = before + size
      /\ \A j \in 1 .. Len(kids) : j # i => t.node[kids[j]] = m.node[kids[j]]

\* After an insertion below one of its children, a branch has one child more if
\* there is a sibling, and they are longer by what was inserted.
THEOREM SplicedChildrenGrow ==
  ASSUME NEW V, NEW m, NEW t, NEW n, NEW kids, Kin(V, m, kids),
         t.node[n].kids = kids, NEW i \in 1 .. Len(kids), NEW size \in Nat,
         NEW r, GrownBelow(V, m, t, kids, i, r, size)
  PROVE  LET new == Spliced(t, n, i, r) IN
         /\ Kin(V, t, new)
         /\ Len(new) = Len(kids) + IF r.sibling = None THEN 0 ELSE 1
         /\ Length(t, new) = Length(m, kids) + size
<1> DEFINE new    == Spliced(t, n, i, r)
           num(j) == m.node[kids[j]].num
           k      == Len(kids)
           here(j) == t.node[new[j]].num
<1>1. kids \in Seq(Nodes) /\ k \in Nat /\ i \in 1 .. k /\ i \in Nat
  BY DEF Kin
<1>2. PICK o \in {0, 1} : SplicedAt(V, t, kids, new, i, r, o)
  <2>1. r.child \in Nodes /\ (r.sibling = None \/ r.sibling \in Nodes)
    BY DEF GrownBelow
  <2> QED
    BY <1>1, <2>1, SplicedIs
<1> HIDE DEF new, k
<1>3. /\ o = IF r.sibling = None THEN 0 ELSE 1
      /\ new \in Seq(Nodes) /\ Len(new) = k + o
      /\ \A j \in 1 .. i - 1 : new[j] = kids[j]
      /\ new[i] = r.child
      /\ o = 1 => new[i + 1] = r.sibling
      /\ \A j \in 1 .. k - i : new[(i + o) + j] = kids[i + j]
  BY <1>2 DEF SplicedAt, k
<1>4. /\ \A j \in 1 .. i - 1 : t.node[kids[j]] = m.node[kids[j]]
      /\ \A j \in 1 .. k - i : t.node[kids[i + j]] = m.node[kids[i + j]]
  <2>1. \A j \in 1 .. k : j # i => t.node[kids[j]] = m.node[kids[j]]
    BY DEF GrownBelow, k
  <2>2. /\ \A j \in 1 .. i - 1 : j \in 1 .. k /\ j # i
        /\ \A j \in 1 .. k - i : i + j \in 1 .. k /\ i + j # i
    BY <1>1
  <2> QED
    BY <2>1, <2>2
<1>5. \A j \in 1 .. k : m.node[kids[j]] \in NodeOf(V) /\ num(j) \in Nat
  BY DEF Kin, NodeOf, k
<1>6. /\ \A j \in 1 .. i - 1 : here(j) = num(j)
      /\ \A j \in 1 .. k - i : here((i + o) + j) = num(i + j)
      /\ here(i) \in Nat
      /\ o = 0 => here(i) = num(i) + size
      /\ o = 1 => here(i + 1) \in Nat /\ here(i) + here(i + 1) = num(i) + size
  <2>1. /\ here(i) \in Nat
        /\ o = 0 => here(i) = num(i) + size
        /\ o = 1 => here(i + 1) \in Nat /\ here(i) + here(i + 1) = num(i) + size
    <3>1. /\ t.node[r.child] \in NodeOf(V)
          /\ r.sibling = None => t.node[r.child].num = num(i) + size
          /\ r.sibling # None =>
               /\ t.node[r.sibling] \in NodeOf(V)
               /\ t.node[r.child].num + t.node[r.sibling].num = num(i) + size
      BY DEF GrownBelow
    <3>2. \A x \in NodeOf(V) : x.num \in Nat
      BY DEF NodeOf
    <3>3. CASE r.sibling = None
      <4>1. o = 0 /\ here(i) = t.node[r.child].num
        BY <1>3, <3>3
      <4> QED
        BY <3>1, <3>2, <3>3, <4>1
    <3>4. CASE r.sibling # None
      <4>1. /\ o = 1 /\ here(i) = t.node[r.child].num
            /\ here(i + 1) = t.node[r.sibling].num
        BY <1>3, <3>4
      <4> QED
        BY <3>1, <3>2, <3>4, <4>1
    <3> QED
      BY <3>3, <3>4
  <2> QED
    BY <1>3, <1>4, <2>1
<1>7. Kin(V, t, new)
  <2>1. ASSUME NEW j \in 1 .. k + o PROVE t.node[new[j]] \in NodeOf(V)
    <3>1. CASE j \in 1 .. i - 1
      <4>1. j \in 1 .. k
        BY <1>1, <3>1
      <4> QED
        BY <1>3, <1>4, <1>5, <3>1, <4>1
    <3>2. CASE j = i
      BY <1>3, <3>2 DEF GrownBelow
    <3>3. CASE o = 1 /\ j = i + 1
      BY <1>3, <3>3 DEF GrownBelow
    <3>4. CASE j \in i + o + 1 .. k + o
      <4> DEFINE l == j - (i + o)
      <4>1. l \in 1 .. k - i /\ (i + o) + l = j /\ i + l \in 1 .. k
        BY <1>1, <1>2, <3>4
      <4> HIDE DEF l
      <4> QED
        BY <1>3, <1>4, <1>5, <4>1
    <3> QED
      BY <1>1, <1>2, <3>1, <3>2, <3>3, <3>4
  <2> QED
    BY <1>3, <2>1 DEF Kin
<1>8. PICK s : Sums(m, kids, s)
  BY <1>1, LengthUnrolled DEF k
<1>9. PICK q : Sums(t, new, q)
  <2>1. Len(new) \in Nat
    BY <1>1, <1>2, <1>3
  <2> QED
    BY <2>1, LengthUnrolled
<1>10. /\ s[0] = 0 /\ q[0] = 0
       /\ \A j \in 0 .. k - 1 : s[j + 1] = s[j] + num(j + 1)
       /\ \A j \in 0 .. (k + o) - 1 : q[j + 1] = q[j] + here(j + 1)
  BY <1>3, <1>8, <1>9 DEF Sums, k
<1>11. /\ Length(m, kids) = s[k] /\ Length(t, new) = q[k + o]
       /\ \A j \in 0 .. k : s[j] \in Nat
  <2>1. \A j \in 0 .. k : s[j] \in Nat
    BY <1>8, SumsAreNat DEF k
  <2>2. Length(m, kids) = s[k]
    BY <1>8, LengthsAre DEF k
  <2>3. Length(t, new) = q[Len(new)]
    BY <1>7, <1>9, LengthsAre
  <2> QED
    BY <1>3, <2>1, <2>2, <2>3
<1> HIDE DEF num, here
<1>12. q[i - 1] = s[i - 1]
  <2>1. i - 1 \in Nat
    BY <1>1
  <2>2. ASSUME NEW j \in 0 .. (i - 1) - 1, q[j] = s[j] PROVE q[j + 1] = s[j + 1]
    <3>1. j + 1 \in 1 .. i - 1 /\ j \in 0 .. k - 1 /\ j \in 0 .. (k + o) - 1
      BY <1>1, <1>2
    <3> QED
      BY <1>6, <1>10, <2>2, <3>1
  <2>3. q[0] = s[0]
    BY <1>10
  <2> QED
    BY <2>1, <2>2, <2>3, SameSums
<1>13. q[i + o] = s[i] + size
  <2>1. /\ i - 1 \in 0 .. k - 1 /\ i - 1 \in 0 .. (k + o) - 1 /\ (i - 1) + 1 = i
        /\ i \in 1 .. k /\ i - 1 \in 0 .. k
    BY <1>1, <1>2
  <2>2. s[i] = s[i - 1] + num(i) /\ q[i] = s[i - 1] + here(i)
    BY <1>10, <1>12, <2>1
  <2>3. s[i - 1] \in Nat /\ num(i) \in Nat
    BY <1>5, <1>11, <2>1
  <2>4. CASE o = 0
    <3>1. i + o = i
      BY <1>1, <2>4
    <3> QED
      BY <1>6, <2>2, <2>3, <2>4, <3>1
  <2>5. CASE o = 1
    <3>1. i \in 0 .. (k + o) - 1
      BY <1>1, <2>5
    <3>2. q[i + 1] = q[i] + here(i + 1)
      BY <1>10, <3>1
    <3>3. here(i) \in Nat /\ here(i + 1) \in Nat
          /\ here(i) + here(i + 1) = num(i) + size
      BY <1>6, <2>5
    <3>4. q[i + 1] = s[i] + size
      <4>1. \A a, b, c, d, e \in Nat : b + c = d + e => (a + b) + c = (a + d) + e
        OBVIOUS
      <4>2. (s[i - 1] + here(i)) + here(i + 1) = (s[i - 1] + num(i)) + size
        BY <2>3, <3>3, <4>1
      <4> QED
        BY <2>2, <3>2, <4>2
    <3> QED
      BY <2>5, <3>4
  <2> QED
    BY <1>2, <2>4, <2>5
<1>14. q[k + o] = s[k] + size
  <2> DEFINE a == [j \in 0 .. k - i |-> q[(i + o) + j]]
             b == [j \in 0 .. k - i |-> s[i + j] + size]
  <2>1. k - i \in Nat /\ 0 \in 0 .. k - i /\ i + 0 = i /\ (i + o) + 0 = i + o
        /\ i + (k - i) = k /\ (i + o) + (k - i) = k + o
    BY <1>1, <1>2
  <2>2. a[0] = b[0]
    BY <1>13, <2>1
  <2>3. ASSUME NEW j \in 0 .. (k - i) - 1, a[j] = b[j] PROVE a[j + 1] = b[j + 1]
    <3>1. /\ j \in 0 .. k - i /\ j + 1 \in 0 .. k - i /\ j + 1 \in 1 .. k - i
          /\ i + j \in 0 .. k - 1 /\ (i + j) + 1 = i + (j + 1)
          /\ (i + o) + j \in 0 .. (k + o) - 1
          /\ ((i + o) + j) + 1 = (i + o) + (j + 1)
          /\ i + j \in 0 .. k /\ i + (j + 1) \in 1 .. k
      BY <1>1, <1>2
    <3> DEFINE u == num(i + (j + 1))
    <3>2. q[(i + o) + (j + 1)] = q[(i + o) + j] + here((i + o) + (j + 1))
      BY <1>10, <3>1
    <3>3. here((i + o) + (j + 1)) = u
      BY <1>6, <3>1
    <3>4. s[i + (j + 1)] = s[i + j] + u
      BY <1>10, <3>1
    <3>5. q[(i + o) + j] = s[i + j] + size
      BY <2>3, <3>1
    <3>6. u \in Nat /\ s[i + j] \in Nat
      BY <1>5, <1>11, <3>1
    <3> HIDE DEF u
    <3>7. q[(i + o) + (j + 1)] = s[i + (j + 1)] + size
      BY <3>2, <3>3, <3>4, <3>5, <3>6
    <3> QED
      BY <3>1, <3>7
  <2>4. k - i \in 0 .. k - i
    BY <2>1
  <2>5. a[k - i] = b[k - i]
    <3> HIDE DEF a, b
    <3> QED
      BY <2>1, <2>2, <2>3, SameSums
  <2> QED
    BY <2>1, <2>4, <2>5
<1> QED
  BY <1>3, <1>7, <1>11, <1>14 DEF new, k

\* A branch that fits in a tree t.
GoodBranch(V, t, x) ==
  x \in NodeOf(V) /\ ~x.leaf /\ BranchIsSound(t, x) /\ Len(x.kids) <= 3

\* The children kids belong to one branch, or in their order to two, that know
\* how many values they have; the sibling is new, and no other node changes.
HandedOut(V, m, r, kids) ==
  LET child   == r.m.node[r.child]
      sibling == r.m.node[r.sibling]
  IN  /\ r.m \in Heap(V) /\ r.m.crashed = m.crashed /\ r.child \in Places
      /\ GoodBranch(V, r.m, child)
      /\ IF r.sibling = None
         THEN child.kids = kids /\ child.num = Length(m, kids)
         ELSE /\ r.sibling \in Places \ {r.child} /\ m.node[r.sibling] = None
              /\ GoodBranch(V, r.m, sibling)
              /\ child.kids \o sibling.kids = kids
              /\ child.num + sibling.num = Length(m, kids)
      /\ \A p \in Places \ {r.child, r.sibling} : r.m.node[p] = m.node[p]

LEMMA IsGoodBranch ==
  ASSUME NEW V, NEW t, NEW x \in NodeOf(V), ~x.leaf, NEW kids, x.kids = kids,
         x.num = Length(t, kids), Len(kids) = 2 \/ Len(kids) = 3
  PROVE  GoodBranch(V, t, x)
<1> DEFINE len == Len(kids)
<1>0. len = 2 \/ len = 3
  OBVIOUS
<1> HIDE DEF len
<1>1. len >= 2 /\ len <= 3
  BY ONLY <1>0
<1>2. BranchIsSound(t, x)
  BY <1>1 DEF BranchIsSound, len
<1> QED
  BY <1>1, <1>2 DEF GoodBranch, len

LEMMA KidsStay ==
  ASSUME NEW V, NEW m, NEW t, NEW kids, Kin(V, m, kids),
         \A i \in 1 .. Len(kids) : t.node[kids[i]] = m.node[kids[i]]
  PROVE  Kin(V, t, kids) /\ Length(t, kids) = Length(m, kids)
<1>1. kids \in Seq(Nodes)
  BY DEF Kin
<1>2. \A i \in 1 .. Len(kids) : t.node[kids[i]].num = m.node[kids[i]].num
  OBVIOUS
<1>3. Length(t, kids) = Length(m, kids)
  BY <1>1, <1>2, SameLength
<1> QED
  BY <1>3 DEF Kin

LEMMA LengthIsNat ==
  ASSUME NEW V, NEW m, NEW kids, Kin(V, m, kids)
  PROVE  Length(m, kids) \in Nat
<1>1. Len(kids) \in Nat
  BY DEF Kin
<1>2. PICK s : Sums(m, kids, s)
  BY <1>1, LengthUnrolled
<1>3. \A i \in 0 .. Len(kids) : s[i] \in Nat
  BY <1>2, SumsAreNat
<1>4. Length(m, kids) = s[Len(kids)]
  BY <1>2, LengthsAre
<1> QED
  BY <1>1, <1>3, <1>4

\* A new branch.
Branched(V, m, kids) ==
  LET x == Branch(m, kids)
      f == Fresh(m)
  IN  /\ x \in NodeOf(V) /\ ~x.leaf /\ x.kids = kids /\ x.num = Length(m, kids)
      /\ f \in Nodes /\ f \in Places /\ f # None /\ m.node[f] = None
      /\ OnlyOne(V, m, Create(m, x), f, x)

LEMMA NewBranch ==
  ASSUME NEW V, NEW m \in Heap(V), \E f \in Nodes : m.node[f] = None,
         NEW kids, Kin(V, m, kids)
  PROVE  Branched(V, m, kids)
<1> DEFINE x   == Branch(m, kids)
           len == Length(m, kids)
           l   == Leaf(len, <<>>)
<1>1. len \in Nat /\ kids \in Seq(Nodes)
  BY LengthIsNat DEF Kin
<1>2. x = [l EXCEPT !.leaf = FALSE, !.kids = kids]
  BY DEF Branch
<1> HIDE DEF len, x
<1>3. l \in NodeOf(V) /\ l.num = len
  <2>1. <<>> \in Seq(V)
    OBVIOUS
  <2> QED
    BY <1>1, <2>1, LeafIs
<1> HIDE DEF l
<1>4. x \in NodeOf(V) /\ ~x.leaf /\ x.kids = kids /\ x.num = len
  BY <1>1, <1>2, <1>3 DEF NodeOf
<1>5. OnlyOne(V, m, Create(m, x), Fresh(m), x)
  BY <1>4, Created
<1>6. /\ Fresh(m) \in Nodes /\ Fresh(m) \in Places /\ Fresh(m) # None
      /\ m.node[Fresh(m)] = None
  BY FreshIs, StorageNodesAssumption DEF Places
<1> QED
  BY <1>4, <1>5, <1>6 DEF Branched, x, len

\* Children are not where there is no node.
LEMMA KidsAreThere ==
  ASSUME NEW V, None \notin NodeOf(V), NEW m, NEW kids, Kin(V, m, kids),
         NEW f, m.node[f] = None
  PROVE  \A i \in 1 .. Len(kids) : kids[i] # f /\ kids[i] \in Places \ {f}
<1>1. \A i \in 1 .. Len(kids) : kids[i] \in Nodes /\ m.node[kids[i]] \in NodeOf(V)
  BY DEF Kin
<1> QED
  BY <1>1 DEF Places

\* A branch gets children and their length.
Refilled(V, m, n, kids, num) ==
  LET x   == [m.node[n] EXCEPT !.kids = kids, !.num = num]
      new == [m EXCEPT !.node[n].kids = kids, !.node[n].num = num]
  IN  /\ x \in NodeOf(V) /\ x.kids = kids /\ x.num = num
      /\ ~m.node[n].leaf => ~x.leaf
      /\ OnlyOne(V, m, new, n, x)

LEMMA Rebranched ==
  ASSUME NEW V, NEW m \in Heap(V), NEW n \in Places, m.node[n] \in NodeOf(V),
         NEW num \in Nat, NEW kids \in Seq(Nodes)
  PROVE  Refilled(V, m, n, kids, num)
<1> DEFINE x   == [m.node[n] EXCEPT !.kids = kids, !.num = num]
           new == [m EXCEPT !.node[n].kids = kids, !.node[n].num = num]
<1>1. /\ x \in NodeOf(V) /\ x.kids = kids /\ x.num = num
      /\ ~m.node[n].leaf => ~x.leaf
  BY DEF NodeOf
<1>2. new = [m EXCEPT !.node = [@ EXCEPT ![n] = x]]
  BY DEF Heap
<1> HIDE DEF x, new
<1>3. OnlyOne(V, m, new, n, x)
  BY <1>1, <1>2 DEF Heap, OnlyOne
<1> QED
  BY <1>1, <1>3 DEF x, new, Refilled

\* __CFStorageInsertBranchUnfrozen: a branch that is not frozen takes its new
\* children, or two of four, and a new sibling on its right the other two.
THEOREM BranchTakesChildren ==
  ASSUME NEW V, None \notin NodeOf(V), NEW m \in Heap(V), NEW n \in Places,
         m.node[n] \in NodeOf(V), ~m.node[n].leaf,
         NEW kids, Kin(V, m, kids), Len(kids) \in 2 .. 4,
         \A i \in 1 .. Len(kids) : kids[i] # n,
         NEW size \in Nat, Length(m, kids) = m.node[n].num + size,
         \E f \in Nodes : m.node[f] = None
  PROVE  LET r == TakeIn(m, n, kids, size) IN
         HandedOut(V, m, r, kids) /\ r.child = n
<1> DEFINE x   == m.node[n]
           r   == TakeIn(m, n, kids, size)
           len == Length(m, kids)
<1>1. /\ kids \in Seq(Nodes) /\ len \in Nat /\ x.num \in Nat
      /\ n # None /\ x # None
  BY LengthIsNat, StorageNodesAssumption DEF Kin, NodeOf, Places
<1>2. \A i \in 1 .. Len(kids) : kids[i] \in Places \ {n}
  BY <1>1 DEF Places
<1> HIDE DEF len
<1>3. CASE Len(kids) = 2 \/ Len(kids) = 3
  <2> DEFINE y == [x EXCEPT !.kids = kids, !.num = len]
             t == [m EXCEPT !.node[n].kids = kids, !.node[n].num = len]
  <2>0. Refilled(V, m, n, kids, len)
    BY <1>1, Rebranched
  <2>1. y \in NodeOf(V) /\ y.kids = kids /\ y.num = len /\ ~y.leaf
    BY <2>0 DEF Refilled
  <2>2. OnlyOne(V, m, t, n, y)
    BY <2>0 DEF Refilled
  <2>3. t = [m EXCEPT !.node[n].kids = kids, !.node[n].num = @ + size]
    BY DEF Heap, len
  <2>4. r = Result(t, n, None)
    <3>1. Len(kids) < 4
      BY <1>3
    <3> QED
      BY <2>3, <3>1 DEF TakeIn
  <2> HIDE DEF t, y, r
  <2>5. r.m = t /\ r.child = n /\ r.sibling = None /\ t.node[n] = y
    BY <2>2, <2>4 DEF Result, OnlyOne
  <2>6. \A i \in 1 .. Len(kids) : t.node[kids[i]] = m.node[kids[i]]
    BY <1>2, <2>2 DEF OnlyOne
  <2>7. Length(t, kids) = len
    <3>1. /\ Kin(V, m, kids)
          /\ \A i \in 1 .. Len(kids) : t.node[kids[i]] = m.node[kids[i]]
      BY <2>6
    <3>2. Length(t, kids) = Length(m, kids)
      BY ONLY <3>1, KidsStay
    <3> QED
      BY <3>2 DEF len
  <2>8. GoodBranch(V, t, y)
    BY <1>1, <1>3, <2>1, <2>7, IsGoodBranch
  <2>9. HandedOut(V, m, r, kids)
    BY <2>1, <2>2, <2>5, <2>8 DEF HandedOut, OnlyOne, len
  <2> QED
    BY <2>5, <2>9 DEF r
<1>4. CASE Len(kids) = 4
  <2> DEFINE two  == Take(kids, 2)
             rest == Drop(kids, 2)
             b    == Branch(m, rest)
             f    == Fresh(m)
             left == Create(m, b)
             num  == Length(m, two)
             y    == [left.node[n] EXCEPT !.kids = two, !.num = num]
             t    == [left EXCEPT !.node[n].kids = two, !.node[n].num = num]
  <2>1. Len(kids) = 4 /\ 2 \in 0 .. Len(kids)
    BY <1>4
  <2>2. /\ Kin(V, m, two) /\ Kin(V, m, rest) /\ num \in Nat
        /\ Length(m, rest) \in Nat /\ len = num + Length(m, rest)
    <3>1. Divided(V, m, kids, 2)
      BY <2>1, LengthOfParts
    <3> QED
      BY <3>1 DEF Divided, len
  <2>3. /\ two \in Seq(Nodes) /\ Len(two) = 2
        /\ \A i \in 1 .. 2 : two[i] = kids[i]
    BY <1>1, <2>1, TakeIs
  <2>4. /\ rest \in Seq(Nodes) /\ Len(rest) = 2
        /\ \A i \in 1 .. 2 : rest[i] = kids[2 + i]
    <3>1. Len(kids) - 2 = 2
      BY <2>1
    <3> QED
      BY <1>1, <2>1, <3>1, DropIs
  <2>5. two \o rest = kids
    BY <1>1, <2>1, Halves
  <2>6. r = Result(t, n, f)
    BY <1>4 DEF TakeIn
  <2>7. Branched(V, m, rest)
    BY <2>2, NewBranch
  <2> HIDE DEF two, rest
  <2>8. /\ b \in NodeOf(V) /\ ~b.leaf /\ b.kids = rest
        /\ b.num = Length(m, rest)
        /\ f \in Places /\ f # None /\ m.node[f] = None
        /\ OnlyOne(V, m, left, f, b)
    BY <2>7 DEF Branched
  <2> HIDE DEF num, b, f, left, r
  <2>9. n # f /\ left \in Heap(V) /\ left.node[n] = x
    BY <1>1, <2>8 DEF OnlyOne
  <2> HIDE DEF y, t
  <2>10. Refilled(V, left, n, two, num)
    BY <2>2, <2>3, <2>9, Rebranched
  <2>11. /\ y \in NodeOf(V) /\ y.kids = two /\ y.num = num /\ ~y.leaf
         /\ OnlyOne(V, left, t, n, y)
    BY <2>9, <2>10 DEF Refilled, y, t
  <2>12. /\ t \in Heap(V) /\ t.crashed = m.crashed
         /\ t.node[n] = y /\ t.node[f] = b
         /\ \A p \in Places \ {n, f} : t.node[p] = m.node[p]
    BY <2>8, <2>9, <2>11 DEF OnlyOne
  <2>13. \A i \in 1 .. Len(kids) : t.node[kids[i]] = m.node[kids[i]]
    <3>1. \A i \in 1 .. Len(kids) : kids[i] \in Places \ {f}
      BY <2>8, KidsAreThere
    <3> QED
      BY <1>2, <2>12, <3>1
  <2>14. /\ \A i \in 1 .. Len(two) : t.node[two[i]] = m.node[two[i]]
         /\ \A i \in 1 .. Len(rest) : t.node[rest[i]] = m.node[rest[i]]
    BY <2>1, <2>3, <2>4, <2>13
  <2>15. Length(t, two) = num /\ Length(t, rest) = Length(m, rest)
    <3>1. Length(t, two) = Length(m, two)
      <4>1. /\ Kin(V, m, two)
            /\ \A i \in 1 .. Len(two) : t.node[two[i]] = m.node[two[i]]
        BY <2>2, <2>14
      <4> QED
        BY ONLY <4>1, KidsStay
    <3>2. Length(t, rest) = Length(m, rest)
      <4>1. /\ Kin(V, m, rest)
            /\ \A i \in 1 .. Len(rest) : t.node[rest[i]] = m.node[rest[i]]
        BY <2>2, <2>14
      <4> QED
        BY ONLY <4>1, KidsStay
    <3> QED
      BY <3>1, <3>2 DEF num
  <2>16. GoodBranch(V, t, y) /\ GoodBranch(V, t, b)
    BY <2>3, <2>4, <2>8, <2>11, <2>15, IsGoodBranch
  <2>17. r.m = t /\ r.child = n /\ r.sibling = f
    BY <2>6 DEF Result
  <2>18. HandedOut(V, m, r, kids)
    BY <2>2, <2>5, <2>8, <2>9, <2>11, <2>12, <2>16, <2>17
       DEF HandedOut, len
  <2> QED
    BY <2>17, <2>18 DEF r
<1> QED
  <2>1. Len(kids) = 2 \/ Len(kids) = 3 \/ Len(kids) = 4
    OBVIOUS
  <2> QED
    BY <1>3, <1>4, <2>1

\* __CFStorageInsertBranchFrozen: the children that a frozen branch would have
\* are in one copy of it, or two and two in two; the branch itself stays.
THEOREM BranchIsCopied ==
  ASSUME NEW V, None \notin NodeOf(V), NEW m \in Heap(V),
         NEW kids, Kin(V, m, kids), Len(kids) \in 2 .. 4,
         \E f, g \in Nodes : f # g /\ m.node[f] = None /\ m.node[g] = None
  PROVE  LET r == CopyWith(m, kids, Length(m, kids)) IN
         HandedOut(V, m, r, kids) /\ m.node[r.child] = None
<1> DEFINE len == Length(m, kids)
           r   == CopyWith(m, kids, len)
           f   == Fresh(m)
<1>1. kids \in Seq(Nodes) /\ len \in Nat
  BY LengthIsNat DEF Kin
<1>2. CASE Len(kids) = 2 \/ Len(kids) = 3
  <2> DEFINE b == Branch(m, kids)
             t == Create(m, b)
  <2>1. Branched(V, m, kids)
    BY NewBranch
  <2>2. /\ b \in NodeOf(V) /\ ~b.leaf /\ b.kids = kids /\ b.num = len
        /\ f \in Places /\ f # None /\ m.node[f] = None
        /\ OnlyOne(V, m, t, f, b)
    BY <2>1 DEF Branched
  <2> HIDE DEF b, f, len
  <2>3. [b EXCEPT !.num = len] = b
    BY <2>2 DEF NodeOf
  <2>4. r = Result(t, f, None)
    <3>1. r = Result(Create(m, [b EXCEPT !.num = len]), f, None)
      <4> DEFINE l == Len(kids)
      <4>0. l = 2 \/ l = 3
        BY <1>2
      <4> HIDE DEF l
      <4>1. l < 4
        BY ONLY <4>0
      <4> QED
        BY <4>1 DEF l, CopyWith, b, f
    <3> QED
      BY <2>3, <3>1
  <2> HIDE DEF t, r
  <2>5. r.m = t /\ r.child = f /\ r.sibling = None /\ t.node[f] = b
    BY <2>2, <2>4 DEF Result, OnlyOne
  <2>6. \A i \in 1 .. Len(kids) : kids[i] \in Places \ {f}
    BY <2>2, KidsAreThere
  <2>7. \A i \in 1 .. Len(kids) : t.node[kids[i]] = m.node[kids[i]]
    BY <2>2, <2>6 DEF OnlyOne
  <2>8. Length(t, kids) = len
    <3>1. /\ Kin(V, m, kids)
          /\ \A i \in 1 .. Len(kids) : t.node[kids[i]] = m.node[kids[i]]
      BY <2>7
    <3>2. Length(t, kids) = Length(m, kids)
      BY ONLY <3>1, KidsStay
    <3> QED
      BY <3>2 DEF len
  <2>9. GoodBranch(V, t, b)
    BY <1>1, <1>2, <2>2, <2>8, IsGoodBranch
  <2>10. HandedOut(V, m, r, kids)
    BY <2>2, <2>5, <2>9 DEF HandedOut, OnlyOne, len
  <2> QED
    BY <2>2, <2>5, <2>10 DEF r, len
<1>3. CASE Len(kids) = 4
  <2> DEFINE two  == Take(kids, 2)
             rest == Drop(kids, 2)
             b    == Branch(m, two)
             left == Create(m, b)
             c    == Branch(left, rest)
             g    == Fresh(left)
             t    == Create(left, c)
  <2>1. Len(kids) = 4 /\ 2 \in 0 .. Len(kids)
    BY <1>3
  <2>2. /\ Kin(V, m, two) /\ Kin(V, m, rest) /\ Length(m, two) \in Nat
        /\ Length(m, rest) \in Nat
        /\ len = Length(m, two) + Length(m, rest)
    <3>1. Divided(V, m, kids, 2)
      BY <2>1, LengthOfParts
    <3> QED
      BY <3>1 DEF Divided
  <2>3. /\ two \in Seq(Nodes) /\ Len(two) = 2
        /\ \A i \in 1 .. 2 : two[i] = kids[i]
    BY <1>1, <2>1, TakeIs
  <2>4. /\ rest \in Seq(Nodes) /\ Len(rest) = 2
        /\ \A i \in 1 .. 2 : rest[i] = kids[2 + i]
    <3>1. Len(kids) - 2 = 2
      BY <2>1
    <3> QED
      BY <1>1, <2>1, <3>1, DropIs
  <2>5. two \o rest = kids
    BY <1>1, <2>1, Halves
  <2>6. r = Result(t, f, g)
    BY <1>3 DEF CopyWith
  <2>7. Branched(V, m, two)
    BY <2>2, NewBranch
  <2> HIDE DEF two, rest
  <2>8. /\ b \in NodeOf(V) /\ ~b.leaf /\ b.kids = two
        /\ b.num = Length(m, two)
        /\ f \in Places /\ f # None /\ m.node[f] = None
        /\ OnlyOne(V, m, left, f, b)
    BY <2>7 DEF Branched
  <2> HIDE DEF b, f, left, r, len
  <2>9. left \in Heap(V) /\ left.node[f] = b /\ b # None
    BY <2>8 DEF OnlyOne
  <2>10. \E h \in Nodes : left.node[h] = None
    <3>1. PICK h, k \in Nodes : h # k /\ m.node[h] = None /\ m.node[k] = None
      OBVIOUS
    <3>2. h \in Places /\ k \in Places
      BY DEF Places
    <3>3. CASE h # f
      BY <2>8, <3>1, <3>2, <3>3 DEF OnlyOne
    <3>4. CASE k # f
      BY <2>8, <3>1, <3>2, <3>4 DEF OnlyOne
    <3> QED
      BY <3>1, <3>3, <3>4
  <2>11. \A i \in 1 .. Len(kids) : kids[i] \in Places \ {f}
    BY <2>8, KidsAreThere
  <2>12. \A i \in 1 .. Len(rest) : left.node[rest[i]] = m.node[rest[i]]
    BY <2>1, <2>4, <2>8, <2>11 DEF OnlyOne
  <2>13. Kin(V, left, rest) /\ Length(left, rest) = Length(m, rest)
    <3>1. Kin(V, left, rest)
      <4>1. /\ Kin(V, m, rest)
            /\ \A i \in 1 .. Len(rest) : left.node[rest[i]] = m.node[rest[i]]
        BY <2>2, <2>12
      <4> QED
        BY ONLY <4>1, KidsStay
    <3>2. Length(left, rest) = Length(m, rest)
      <4>1. /\ Kin(V, m, rest)
            /\ \A i \in 1 .. Len(rest) : left.node[rest[i]] = m.node[rest[i]]
        BY <2>2, <2>12
      <4> QED
        BY ONLY <4>1, KidsStay
    <3> QED
      BY <3>1, <3>2
  <2>14. Branched(V, left, rest)
    BY <2>9, <2>10, <2>13, NewBranch
  <2>15. /\ c \in NodeOf(V) /\ ~c.leaf /\ c.kids = rest
         /\ c.num = Length(m, rest)
         /\ g \in Places /\ g # None /\ left.node[g] = None
         /\ OnlyOne(V, left, t, g, c)
    BY <2>13, <2>14 DEF Branched
  <2> HIDE DEF c, g, t
  <2>16. g # f /\ m.node[g] = None
    BY <2>8, <2>9, <2>15 DEF OnlyOne
  <2>17. /\ t \in Heap(V) /\ t.crashed = m.crashed
         /\ t.node[f] = b /\ t.node[g] = c
         /\ \A p \in Places \ {f, g} : t.node[p] = m.node[p]
    BY <2>8, <2>9, <2>15, <2>16 DEF OnlyOne
  <2>18. \A i \in 1 .. Len(kids) : t.node[kids[i]] = m.node[kids[i]]
    <3>1. \A i \in 1 .. Len(kids) : kids[i] \in Places \ {g}
      BY <2>16, KidsAreThere
    <3> QED
      BY <2>11, <2>17, <3>1
  <2>19. /\ \A i \in 1 .. Len(two) : t.node[two[i]] = m.node[two[i]]
         /\ \A i \in 1 .. Len(rest) : t.node[rest[i]] = m.node[rest[i]]
    BY <2>1, <2>3, <2>4, <2>18
  <2>20. /\ Length(t, two) = Length(m, two)
         /\ Length(t, rest) = Length(m, rest)
    <3>1. Length(t, two) = Length(m, two)
      <4>1. /\ Kin(V, m, two)
            /\ \A i \in 1 .. Len(two) : t.node[two[i]] = m.node[two[i]]
        BY <2>2, <2>19
      <4> QED
        BY ONLY <4>1, KidsStay
    <3>2. Length(t, rest) = Length(m, rest)
      <4>1. /\ Kin(V, m, rest)
            /\ \A i \in 1 .. Len(rest) : t.node[rest[i]] = m.node[rest[i]]
        BY <2>2, <2>19
      <4> QED
        BY ONLY <4>1, KidsStay
    <3> QED
      BY <3>1, <3>2
  <2>21. GoodBranch(V, t, b) /\ GoodBranch(V, t, c)
    BY <2>3, <2>4, <2>8, <2>15, <2>20, IsGoodBranch
  <2>22. r.m = t /\ r.child = f /\ r.sibling = g
    BY <2>6 DEF Result
  <2>23. HandedOut(V, m, r, kids)
    BY <2>2, <2>5, <2>8, <2>15, <2>16, <2>17, <2>21, <2>22
       DEF HandedOut, len
  <2> QED
    BY <2>8, <2>22, <2>23 DEF r, len
<1> QED
  <2>1. Len(kids) = 2 \/ Len(kids) = 3 \/ Len(kids) = 4
    OBVIOUS
  <2> QED
    BY <1>2, <1>3, <2>1
=============================================================================
