---------------------------- MODULE CheckedProofs ----------------------------
(***************************************************************************)
(* Theorems about the checked memory and the stack on it, for all values   *)
(* of the constants: any requests, alignment, chunk and table sizes.       *)
(***************************************************************************)
EXTENDS CheckedStack, SequenceTheorems, TLAPS

(* The invariant of the memory, of descriptors ds, a free list, a table,   *)
(* the end of the chunks, the blocks given out and the addresses freed.    *)
Descriptors  == [ptr : Nat, size : Nat \ {0}]
Behind(a, b) == a.ptr + a.size <= b.ptr

Typed(ds, list, tab, top) ==
  /\ ds \in Seq(Descriptors)
  /\ list \in Seq(1..Len(ds))
  /\ tab \in [0..(HASHES - 1) -> Seq(1..Len(ds))]
  /\ top \in Nat

Aligned(ds, top) ==
  /\ \A i \in 1..Len(ds) : ds[i].ptr % ALIGN = 0 /\ ds[i].size % ALIGN = 0
  /\ top % ALIGN = 0

(* Descriptors stand for pieces of the chunks that do not overlap.         *)
Tiled(ds, top) ==
  /\ \A i, j \in 1..Len(ds) : i # j => Behind(ds[i], ds[j]) \/ Behind(ds[j], ds[i])
  /\ \A i \in 1..Len(ds) : ds[i].ptr + ds[i].size <= top

InUse(ds, list) == (1..Len(ds)) \ Elements(list)

(* Every descriptor that is not free is in the table, which has no entry   *)
(* in a wrong place.                                                       *)
Tabled(ds, list, tab) ==
  /\ \A h \in 0..(HASHES - 1) : \A i \in Elements(tab[h]) : hash(ds[i].ptr) = h
  /\ \A i \in InUse(ds, list) : i \in Elements(tab[hash(ds[i].ptr)])

(* What is given out and what was freed, in terms of the descriptors.      *)
Accounted(ds, list, given, back) ==
  /\ given = {ds[i] : i \in InUse(ds, list)}
  /\ back \subseteq {ds[i].ptr : i \in Elements(list)}

Good(ds, list, tab, top, given, back) ==
  /\ Typed(ds, list, tab, top)
  /\ Aligned(ds, top)
  /\ Tiled(ds, top)
  /\ Tabled(ds, list, tab)
  /\ Accounted(ds, list, given, back)

MemInv == Good(desc, freelist, htab, brk, live, freed)

-----------------------------------------------------------------------------
(* The stack: a chain of elements, last pushed first, and who owns what.   *)
FirstElement == IF releasing THEN t ELSE head

Chained ==
  /\ pushed \in Seq([at : Nat, x : Values])
  /\ FirstElement = Address(1)
  /\ DOMAIN elem = {pushed[i].at : i \in 1..Len(pushed)}
  /\ \A i \in 1..Len(pushed) :
       elem[pushed[i].at] = [x |-> pushed[i].x, link |-> Address(i + 1)]
  /\ \A i, j \in 1..Len(pushed) : pushed[i].at = pushed[j].at => i = j

Counting ==
  /\ releasing \in BOOLEAN
  /\ ~releasing => count = Len(pushed)
  /\ stk = NULL => pushed = <<>> /\ ~releasing
  /\ stk # NULL => stk \in Nat \ DOMAIN elem

StackInv == Running => Chained /\ Counting /\ NothingLost

IInv == MemInv /\ StackInv

-----------------------------------------------------------------------------
(* Arithmetic of alignment.                                                *)

LEMMA MultipleOf ==
  ASSUME NEW A \in Nat \ {0}, NEW k \in Int
  PROVE  (k * A) % A = 0
OBVIOUS

LEMMA IsMultiple ==
  ASSUME NEW A \in Nat \ {0}, NEW a \in Int, a % A = 0
  PROVE  a = (a \div A) * A /\ (a \div A) \in Int
OBVIOUS

LEMMA AlignedSums ==
  ASSUME NEW A \in Nat \ {0}, NEW a \in Int, NEW b \in Int, a % A = 0, b % A = 0
  PROVE  (a + b) % A = 0 /\ (a - b) % A = 0
<1> DEFINE k == a \div A
           m == b \div A
<1>1. a = k * A /\ b = m * A /\ k \in Int /\ m \in Int
  BY IsMultiple
<1> HIDE DEF k, m
<1>2. a + b = (k + m) * A /\ a - b = (k - m) * A
  BY <1>1
<1> QED BY <1>1, <1>2, MultipleOf

(* What mem_alloc makes of a request.                                      *)
LEMMA RoundedUp ==
  ASSUME NEW n \in Nat \ {0}
  PROVE  rounded(n) \in Nat \ {0} /\ rounded(n) >= n /\ rounded(n) % ALIGN = 0
BY MemAssumption, MultipleOf DEF rounded

LEMMA HashInTable ==
  ASSUME NEW p \in Nat
  PROVE  hash(p) \in 0..(HASHES - 1)
BY MemAssumption DEF hash

-----------------------------------------------------------------------------
(* Sequences.                                                              *)

LEMMA Prepend ==
  ASSUME NEW S, NEW s \in Seq(S), NEW e \in S
  PROVE  /\ <<e>> \o s \in Seq(S)
         /\ Len(<<e>> \o s) = Len(s) + 1
         /\ (<<e>> \o s)[1] = e
         /\ \A i \in 1..Len(s) : (<<e>> \o s)[i + 1] = s[i]
<1>1. <<e>> \in Seq(S) /\ Len(<<e>>) = 1 /\ <<e>>[1] = e
  OBVIOUS
<1> DEFINE one == <<e>>
           u   == one \o s
<1>2. /\ u \in Seq(S) /\ Len(u) = Len(one) + Len(s) /\ Len(s) \in Nat
      /\ \A i \in 1..Len(one) + Len(s) : u[i] = IF i <= Len(one) THEN one[i] ELSE s[i - Len(one)]
  BY <1>1, ConcatProperties, LenProperties
<1>3. Len(one) = 1 /\ one[1] = e
  BY <1>1
<1> HIDE DEF u, one
<1>4. u \in Seq(S) /\ Len(u) = Len(s) + 1 /\ u[1] = e /\ \A i \in 1..Len(s) : u[i + 1] = s[i]
  BY <1>2, <1>3
<1> QED BY <1>4 DEF u, one

LEMMA PrependElements ==
  ASSUME NEW S, NEW s \in Seq(S), NEW e \in S
  PROVE  Elements(<<e>> \o s) = {e} \cup Elements(s)
<1> DEFINE u == <<e>> \o s
<1>1. /\ Len(u) = Len(s) + 1 /\ u[1] = e /\ Len(s) \in Nat
      /\ \A i \in 1..Len(s) : u[i + 1] = s[i]
  BY Prepend, LenProperties
<1> HIDE DEF u
<1>2. ASSUME NEW i \in 1..Len(u), i # 1
      PROVE  u[i] \in Elements(s)
  <2>1. i - 1 \in 1..Len(s) /\ (i - 1) + 1 = i
    BY <1>1, <1>2
  <2>2. u[i] = s[i - 1]
    BY <1>1, <2>1
  <2> QED BY <2>1, <2>2 DEF Elements
<1>3. Elements(u) \subseteq {e} \cup Elements(s)
  BY <1>1, <1>2 DEF Elements
<1>4. {e} \cup Elements(s) \subseteq Elements(u)
  BY <1>1 DEF Elements
<1> QED BY <1>3, <1>4 DEF u

LEMMA ElementsIn ==
  ASSUME NEW S, NEW s \in Seq(S)
  PROVE  Elements(s) \subseteq S
BY ElementOfSeq DEF Elements

-----------------------------------------------------------------------------
LEMMA Fields ==
  ASSUME NEW ds \in Seq(Descriptors), NEW i \in 1..Len(ds)
  PROVE  /\ ds[i] \in Descriptors /\ ds[i] = [ptr |-> ds[i].ptr, size |-> ds[i].size]
         /\ ds[i].ptr \in Nat /\ ds[i].size \in Nat \ {0}
<1>1. ds[i] \in Descriptors
  BY ElementOfSeq
<1> QED BY <1>1 DEF Descriptors

(* One block is cut off a free one.                                        *)

LEMMA CutFacts ==
  ASSUME NEW ds \in Seq(Descriptors), NEW i \in 1..Len(ds),
         NEW n \in Nat \ {0}, ds[i].size > n
  PROVE  LET new == Cut(ds, i, n)
             L   == Len(ds)
         IN  /\ new \in Seq(Descriptors) /\ Len(new) = L + 1
             /\ new[L + 1] = [ptr |-> ds[i].ptr + ds[i].size - n, size |-> n]
             /\ new[i] = [ptr |-> ds[i].ptr, size |-> ds[i].size - n]
             /\ \A j \in 1..L : j # i => new[j] = ds[j]
<1> DEFINE less == [ds[i] EXCEPT !.size = @ - n]
           rest == [ptr |-> ds[i].ptr + ds[i].size - n, size |-> n]
           cut  == [ds EXCEPT ![i] = less]
<1>1. /\ ds[i] = [ptr |-> ds[i].ptr, size |-> ds[i].size]
      /\ ds[i].ptr \in Nat /\ ds[i].size \in Nat
  BY Fields
<1>2. less = [ptr |-> ds[i].ptr, size |-> ds[i].size - n]
  BY <1>1
<1>2a. less \in Descriptors
  BY <1>1, <1>2 DEF Descriptors
<1>3. rest \in Descriptors
  BY <1>1 DEF Descriptors
<1>4. [ds EXCEPT ![i].size = @ - n] = cut
  OBVIOUS
<1> HIDE DEF less, rest
<1>5. /\ cut \in Seq(Descriptors) /\ Len(cut) = Len(ds) /\ cut[i] = less
      /\ \A j \in 1..Len(ds) : j # i => cut[j] = ds[j]
  BY <1>2a, ExceptSeq
<1> HIDE DEF cut
<1>6. Cut(ds, i, n) = Append(cut, rest)
  BY <1>4 DEF Cut, rest
<1>7. /\ Append(cut, rest) \in Seq(Descriptors)
      /\ Len(Append(cut, rest)) = Len(ds) + 1
      /\ \A j \in 1..Len(ds) : Append(cut, rest)[j] = cut[j]
      /\ Append(cut, rest)[Len(ds) + 1] = rest
  BY <1>3, <1>5, AppendProperties
<1> QED BY <1>2, <1>5, <1>6, <1>7 DEF rest

(* The pieces of a tiling are told apart by their addresses.               *)
LEMMA PointersDiffer ==
  ASSUME NEW ds \in Seq(Descriptors), NEW top, Tiled(ds, top),
         NEW i \in 1..Len(ds), NEW j \in 1..Len(ds), ds[i].ptr = ds[j].ptr
  PROVE  i = j
<1>1. ds[i].ptr \in Nat /\ ds[i].size \in Nat \ {0} /\ ds[j].size \in Nat \ {0}
  BY Fields
<1> QED BY <1>1 DEF Tiled, Behind

LEMMA WiderSeq ==
  ASSUME NEW n \in Nat
  PROVE  \A s \in Seq(1..n) : s \in Seq(1..(n + 1))
<1> SUFFICES ASSUME NEW s \in Seq(1..n) PROVE s \in Seq(1..(n + 1))
  OBVIOUS
<1>1. 1..n \subseteq 1..(n + 1)
  OBVIOUS
<1> QED BY <1>1, SeqMonotonic

LEMMA BlockGiven ==
  ASSUME NEW ds, NEW list, NEW tab, NEW top, NEW given, NEW back,
         Good(ds, list, tab, top, given, back),
         NEW n \in Nat \ {0}, n % ALIGN = 0,
         NEW k \in Fitting(n, list, ds)
  PROVE  LET new == Cut(ds, list[k], n)
             p   == new[Len(new)].ptr
         IN  /\ Good(new, list, [tab EXCEPT ![hash(p)] = <<Len(new)>> \o @], top,
                     given \cup {[ptr |-> p, size |-> n]}, back)
             /\ p \in Nat
             /\ p \notin {b.ptr : b \in given}
<1> DEFINE L   == Len(ds)
           i   == list[k]
           new == Cut(ds, i, n)
           p   == ds[i].ptr + ds[i].size - n
           tab2 == [tab EXCEPT ![hash(p)] = <<L + 1>> \o @]
           given2 == given \cup {[ptr |-> p, size |-> n]}
<1>1. /\ ds \in Seq(Descriptors) /\ list \in Seq(1..L) /\ top \in Nat /\ L \in Nat
      /\ tab \in [0..(HASHES - 1) -> Seq(1..L)]
  BY LenProperties DEF Good, Typed
<1>2. k \in 1..Len(list) /\ i \in 1..L /\ i \in Elements(list) /\ ds[i].size > n
  BY <1>1, ElementOfSeq DEF Fitting, Elements
<1>3. \A j \in 1..L : ds[j] \in Descriptors /\ ds[j].ptr \in Nat /\ ds[j].size \in Nat \ {0}
  BY <1>1, Fields DEF L
<1> HIDE DEF L, i
<1>4. /\ new \in Seq(Descriptors) /\ Len(new) = L + 1
      /\ new[L + 1] = [ptr |-> p, size |-> n]
      /\ new[i] = [ptr |-> ds[i].ptr, size |-> ds[i].size - n]
      /\ \A j \in 1..L : j # i => new[j] = ds[j]
  BY <1>1, <1>2, CutFacts DEF L
<1>5. p \in Nat /\ hash(p) \in 0..(HASHES - 1)
  <2>1. ds[i].ptr \in Nat /\ ds[i].size \in Nat /\ ds[i].size > n /\ n \in Nat
    BY <1>2, <1>3
  <2>2. p \in Nat
    BY <2>1
  <2> QED BY <2>2, HashInTable
<1>6. \A j \in 1..L : new[j].ptr = ds[j].ptr
  BY <1>2, <1>4
<1>7. Elements(list) \subseteq 1..L
  BY <1>1, ElementsIn
<1> HIDE DEF new, p
<1>8. Typed(new, list, tab2, top)
  <2>1. list \in Seq(1..(L + 1)) /\ \A h \in 0..(HASHES - 1) : tab[h] \in Seq(1..(L + 1))
    <3>1. \A s \in Seq(1..L) : s \in Seq(1..(L + 1))
      BY <1>1, WiderSeq
    <3> QED BY <1>1, <3>1
  <2>2. <<L + 1>> \o tab[hash(p)] \in Seq(1..(L + 1))
    BY <1>1, <1>5, <2>1, Prepend
  <2> QED BY <1>1, <1>4, <1>5, <2>1, <2>2 DEF Typed
<1>9. Aligned(new, top)
  <2>1. \A j \in 1..L : ds[j].ptr % ALIGN = 0 /\ ds[j].size % ALIGN = 0
    BY DEF Good, Aligned, L
  <2>2. /\ ALIGN \in Nat \ {0} /\ n \in Int
        /\ ds[i].ptr \in Int /\ ds[i].size \in Int /\ ds[i].ptr + ds[i].size \in Int
    <3>1. ds[i].ptr \in Nat /\ ds[i].size \in Nat
      BY <1>2, <1>3
    <3> QED BY <3>1, MemAssumption
  <2>3. (ds[i].ptr + ds[i].size) % ALIGN = 0 /\ (ds[i].size - n) % ALIGN = 0
    BY <1>2, <2>1, <2>2, AlignedSums
  <2>4. p % ALIGN = 0
    BY <2>2, <2>3, AlignedSums DEF p
  <2>5. ASSUME NEW j \in 1..(L + 1)
        PROVE  new[j].ptr % ALIGN = 0 /\ new[j].size % ALIGN = 0
    <3>1. CASE j = i
      BY <1>2, <1>4, <2>1, <2>3, <3>1
    <3>2. CASE j = L + 1
      BY <1>4, <2>4, <3>2
    <3>3. CASE j \in 1..L /\ j # i
      BY <1>4, <2>1, <3>3
    <3> QED BY <1>1, <3>1, <3>2, <3>3
  <2> QED BY <1>4, <2>5 DEF Good, Aligned
<1>10. Tiled(new, top)
  <2>1. \A j, m \in 1..L : j # m => Behind(ds[j], ds[m]) \/ Behind(ds[m], ds[j])
    BY DEF Good, Tiled, L
  <2>2. \A j \in 1..L : ds[j].ptr + ds[j].size <= top
    BY DEF Good, Tiled, L
  <2>3. /\ p = ds[i].ptr + ds[i].size - n /\ new[L + 1].ptr = p /\ new[L + 1].size = n
        /\ new[i].ptr = ds[i].ptr /\ new[i].size = ds[i].size - n
    BY <1>4 DEF p
  <2>a. ds[i].ptr \in Nat /\ ds[i].size \in Nat /\ n < ds[i].size /\ p \in Nat
    BY <1>2, <1>3, <1>5
  <2>b. \A j \in 1..L : /\ ds[j].ptr \in Nat /\ ds[j].size \in Nat
                        /\ new[j].ptr = ds[j].ptr
                        /\ new[j].size \in Nat /\ new[j].size <= ds[j].size
    <3>1. \A j \in 1..L : j # i => new[j] = ds[j]
      BY <1>4
    <3> QED BY <1>3, <2>3, <2>a, <3>1
  <2>4. \A j, m \in 1..L : j # m => Behind(new[j], new[m]) \/ Behind(new[m], new[j])
    BY <2>1, <2>b DEF Behind
  <2>5. ASSUME NEW j \in 1..L
        PROVE  Behind(new[j], new[L + 1]) \/ Behind(new[L + 1], new[j])
    <3>1. CASE j = i
      BY <2>3, <2>a, <3>1 DEF Behind
    <3>2. CASE j # i
      <4>1. ds[i].ptr + ds[i].size <= ds[j].ptr \/ ds[j].ptr + ds[j].size <= ds[i].ptr
        BY <1>2, <2>1, <3>2 DEF Behind
      <4>2. /\ new[j].ptr = ds[j].ptr /\ ds[j].ptr \in Nat /\ ds[j].size \in Nat
            /\ new[j].size \in Nat /\ new[j].size <= ds[j].size
        BY <2>b
      <4> QED BY <4>1, <4>2, <2>3, <2>a DEF Behind
    <3> QED BY <3>1, <3>2
  <2>6. \A j \in 1..L : new[j].ptr + new[j].size <= top
    <3>1. top \in Nat
      BY <1>1
    <3> QED BY <2>2, <2>b, <3>1
  <2>7. new[L + 1].ptr + new[L + 1].size <= top
    <3>1. ds[i].ptr + ds[i].size <= top /\ top \in Nat
      BY <1>1, <1>2, <2>2
    <3>2. p + n = ds[i].ptr + ds[i].size
      BY <2>3, <2>a
    <3> QED BY <2>3, <3>1, <3>2
  <2>8. \A j \in 1..(L + 1) : j \in 1..L \/ j = L + 1
    BY <1>1
  <2> QED BY <1>4, <2>4, <2>5, <2>6, <2>7, <2>8 DEF Tiled
<1>11. InUse(new, list) = InUse(ds, list) \cup {L + 1}
  BY <1>1, <1>4, <1>7 DEF InUse, L
<1>12. Tabled(new, list, tab2)
  <2>1. \A h \in 0..(HASHES - 1) : \A j \in Elements(tab[h]) : j \in 1..L /\ hash(ds[j].ptr) = h
    BY <1>1, ElementsIn DEF Good, Tabled
  <2>2. \A j \in InUse(ds, list) : j \in 1..L /\ j \in Elements(tab[hash(ds[j].ptr)])
    BY DEF Good, Tabled, InUse, L
  <2>3. Elements(tab2[hash(p)]) = {L + 1} \cup Elements(tab[hash(p)])
    <3>1. tab[hash(p)] \in Seq(1..(L + 1)) /\ L + 1 \in 1..(L + 1)
      BY <1>1, <1>5, WiderSeq
    <3>2. tab2[hash(p)] = <<L + 1>> \o tab[hash(p)]
      BY <1>1, <1>5
    <3> HIDE DEF tab2
    <3> QED BY <3>1, <3>2, PrependElements
  <2>4. \A h \in 0..(HASHES - 1) : h # hash(p) => tab2[h] = tab[h]
    BY <1>1
  <2>5. \A h \in 0..(HASHES - 1) : \A j \in Elements(tab2[h]) : hash(new[j].ptr) = h
    <3> SUFFICES ASSUME NEW h \in 0..(HASHES - 1), NEW j \in Elements(tab2[h])
                 PROVE  hash(new[j].ptr) = h
      OBVIOUS
    <3>1. CASE j = L + 1 /\ h = hash(p)
      BY <1>4, <3>1
    <3>2. CASE j \in Elements(tab[h])
      BY <1>6, <2>1, <3>2
    <3> QED BY <2>3, <2>4, <3>1, <3>2, <1>5
  <2>6. \A j \in InUse(ds, list) : j \in Elements(tab2[hash(new[j].ptr)])
    BY <1>3, <1>6, <2>2, <2>3, <2>4, HashInTable
  <2>7. L + 1 \in Elements(tab2[hash(new[L + 1].ptr)])
    <3>1. new[L + 1].ptr = p
      BY <1>4
    <3> HIDE DEF tab2
    <3> QED BY <2>3, <3>1
  <2> HIDE DEF tab2
  <2> QED BY <1>11, <2>5, <2>6, <2>7 DEF Tabled
<1>13. Accounted(new, list, given2, back)
  <2>1. given = {ds[j] : j \in InUse(ds, list)} /\ back \subseteq {ds[j].ptr : j \in Elements(list)}
    BY DEF Good, Accounted
  <2>2. \A j \in InUse(ds, list) : new[j] = ds[j]
    BY <1>2, <1>4 DEF InUse, L
  <2>3. {new[j] : j \in InUse(new, list)} = given2
    BY <1>4, <1>11, <2>1, <2>2
  <2>4. \A j \in Elements(list) : new[j].ptr = ds[j].ptr
    BY <1>6, <1>7
  <2> QED BY <2>1, <2>3, <2>4 DEF Accounted
<1>14. p \notin {b.ptr : b \in given}
  <2> SUFFICES ASSUME NEW j \in InUse(ds, list), ds[j].ptr = p PROVE FALSE
    BY DEF Good, Accounted
  <2>1. j \in 1..(L + 1) /\ j # L + 1 /\ new[j].ptr = new[L + 1].ptr /\ L + 1 \in 1..(L + 1)
    BY <1>1, <1>4, <1>6 DEF InUse, L
  <2> QED BY <1>4, <1>10, <2>1, PointersDiffer
<1>15. new[Len(new)].ptr = p /\ <<Len(new)>> = <<L + 1>>
  BY <1>4
<1> QED BY <1>5, <1>8, <1>9, <1>10, <1>12, <1>13, <1>14, <1>15 DEF Good, new, i

(* A chunk joins the free list.                                            *)
LEMMA ChunkAdded ==
  ASSUME NEW ds, NEW list, NEW tab, NEW top, NEW given, NEW back,
         Good(ds, list, tab, top, given, back),
         NEW n \in Nat \ {0}, n % ALIGN = 0
  PROVE  Good(Append(ds, [ptr |-> top, size |-> n + NALLOC]), <<Len(ds) + 1>> \o list,
              tab, top + n + NALLOC, given, back)
<1> DEFINE L     == Len(ds)
           chunk == [ptr |-> top, size |-> n + NALLOC]
           new   == Append(ds, chunk)
           list2 == <<L + 1>> \o list
           top2  == top + n + NALLOC
<1>1. /\ ds \in Seq(Descriptors) /\ list \in Seq(1..L) /\ top \in Nat /\ L \in Nat
      /\ tab \in [0..(HASHES - 1) -> Seq(1..L)]
  BY LenProperties DEF Good, Typed
<1>2. NALLOC \in Nat \ {0} /\ NALLOC % ALIGN = 0 /\ ALIGN \in Nat \ {0}
  BY MemAssumption
<1>3. chunk \in Descriptors /\ chunk.ptr = top /\ chunk.size = n + NALLOC /\ top2 \in Nat
  BY <1>1, <1>2 DEF Descriptors
<1>4. \A j \in 1..L : ds[j].ptr \in Nat /\ ds[j].size \in Nat
  BY <1>1, Fields
<1> HIDE DEF chunk, L
<1>5. /\ new \in Seq(Descriptors) /\ Len(new) = L + 1 /\ new[L + 1] = chunk
      /\ \A j \in 1..L : new[j] = ds[j]
  BY <1>1, <1>3, AppendProperties DEF L
<1>6. /\ 1..L \subseteq 1..(L + 1)
      /\ \A j \in 1..(L + 1) : j \in 1..L \/ j = L + 1
      /\ L + 1 \in 1..(L + 1) /\ L + 1 \notin 1..L
  BY <1>1
<1>7. list \in Seq(1..(L + 1)) /\ \A h \in 0..(HASHES - 1) : tab[h] \in Seq(1..(L + 1))
  <2>1. \A s \in Seq(1..L) : s \in Seq(1..(L + 1))
    BY <1>1, WiderSeq
  <2> QED BY <1>1, <2>1
<1>8. list2 \in Seq(1..(L + 1)) /\ Elements(list2) = {L + 1} \cup Elements(list)
  BY <1>6, <1>7, Prepend, PrependElements
<1>9. Elements(list) \subseteq 1..L
  BY <1>1, ElementsIn
<1> HIDE DEF new, list2
<1>10. Typed(new, list2, tab, top2)
  BY <1>1, <1>3, <1>5, <1>7, <1>8 DEF Typed
<1>11. Aligned(new, top2)
  <2>1. top % ALIGN = 0 /\ \A j \in 1..L : ds[j].ptr % ALIGN = 0 /\ ds[j].size % ALIGN = 0
    BY DEF Good, Aligned, L
  <2>2. (n + NALLOC) % ALIGN = 0 /\ n + NALLOC \in Int /\ top \in Int
    <3>1. n \in Int /\ NALLOC \in Int /\ top \in Int
      BY <1>1, <1>2
    <3>2. (n + NALLOC) % ALIGN = 0
      BY <1>2, <3>1, AlignedSums
    <3> QED BY <3>1, <3>2
  <2>3. (top + (n + NALLOC)) % ALIGN = 0
    BY <1>2, <2>1, <2>2, AlignedSums
  <2>4. top2 % ALIGN = 0
    <3>1. top2 = top + (n + NALLOC)
      BY <1>1, <1>2
    <3> QED BY <2>3, <3>1
  <2> HIDE DEF top2
  <2> QED BY <1>3, <1>5, <1>6, <2>1, <2>2, <2>4 DEF Aligned
<1>12. Tiled(new, top2)
  <2>1. /\ \A j, m \in 1..L : j # m => Behind(ds[j], ds[m]) \/ Behind(ds[m], ds[j])
        /\ \A j \in 1..L : ds[j].ptr + ds[j].size <= top
    BY DEF Good, Tiled, L
  <2>2. \A j, m \in 1..L : j # m => Behind(new[j], new[m]) \/ Behind(new[m], new[j])
    BY <1>5, <2>1
  <2>3. \A j \in 1..L : Behind(new[j], new[L + 1])
    BY <1>3, <1>5, <2>1 DEF Behind
  <2>4. top \in Nat /\ top2 = top + n + NALLOC
    BY <1>1
  <2>5. new[L + 1].ptr + new[L + 1].size <= top2
    BY <1>2, <1>3, <1>5, <2>4
  <2>6. \A j \in 1..L : new[j].ptr + new[j].size <= top2
    BY <1>2, <1>4, <1>5, <2>1, <2>4
  <2> QED BY <1>5, <1>6, <2>2, <2>3, <2>5, <2>6 DEF Tiled
<1>13. InUse(new, list2) = InUse(ds, list)
  BY <1>5, <1>6, <1>8, <1>9 DEF InUse, L
<1>14. InUse(ds, list) \subseteq 1..L
  BY DEF InUse, L
<1>15. Tabled(new, list2, tab)
  <2>1. \A h \in 0..(HASHES - 1) : \A j \in Elements(tab[h]) : j \in 1..L /\ hash(ds[j].ptr) = h
    BY <1>1, ElementsIn DEF Good, Tabled
  <2>2. \A j \in InUse(ds, list) : j \in Elements(tab[hash(ds[j].ptr)])
    BY DEF Good, Tabled
  <2> QED BY <1>5, <1>13, <1>14, <2>1, <2>2 DEF Tabled
<1>16. Accounted(new, list2, given, back)
  <2>1. given = {ds[j] : j \in InUse(ds, list)} /\ back \subseteq {ds[j].ptr : j \in Elements(list)}
    BY DEF Good, Accounted
  <2>2. {new[j] : j \in InUse(new, list2)} = given
    BY <1>5, <1>13, <1>14, <2>1
  <2>3. {ds[j].ptr : j \in Elements(list)} \subseteq {new[j].ptr : j \in Elements(list2)}
    BY <1>5, <1>8, <1>9
  <2> QED BY <2>1, <2>2, <2>3 DEF Accounted
<1> QED BY <1>10, <1>11, <1>12, <1>15, <1>16 DEF Good, new, list2, chunk, L

(* A block in use joins the free list.                                     *)
LEMMA BlockFreed ==
  ASSUME NEW ds, NEW list, NEW tab, NEW top, NEW given, NEW back,
         Good(ds, list, tab, top, given, back),
         NEW i \in InUse(ds, list)
  PROVE  Good(ds, <<i>> \o list, tab, top, {b \in given : b.ptr # ds[i].ptr},
              back \cup {ds[i].ptr})
<1> DEFINE list2 == <<i>> \o list
<1>1. /\ ds \in Seq(Descriptors) /\ list \in Seq(1..Len(ds)) /\ i \in 1..Len(ds)
      /\ Typed(ds, list, tab, top) /\ Aligned(ds, top) /\ Tiled(ds, top)
  BY DEF Good, Typed, InUse
<1>2. list2 \in Seq(1..Len(ds)) /\ Elements(list2) = {i} \cup Elements(list)
  BY <1>1, Prepend, PrependElements
<1> HIDE DEF list2
<1>3. Typed(ds, list2, tab, top)
  BY <1>1, <1>2 DEF Typed
<1>4. InUse(ds, list2) = InUse(ds, list) \ {i}
  BY <1>2 DEF InUse
<1>5. Tabled(ds, list2, tab)
  BY <1>4 DEF Good, Tabled
<1>6. Accounted(ds, list2, {b \in given : b.ptr # ds[i].ptr}, back \cup {ds[i].ptr})
  <2>1. given = {ds[j] : j \in InUse(ds, list)} /\ back \subseteq {ds[j].ptr : j \in Elements(list)}
    BY DEF Good, Accounted
  <2>2. \A j \in InUse(ds, list) : ds[j].ptr = ds[i].ptr => j = i
    BY <1>1, PointersDiffer DEF InUse
  <2>3. {ds[j] : j \in InUse(ds, list2)} = {b \in given : b.ptr # ds[i].ptr}
    BY <1>4, <2>1, <2>2
  <2> QED BY <1>2, <2>1, <2>3 DEF Accounted
<1> QED BY <1>1, <1>3, <1>5, <1>6 DEF Good, list2

-----------------------------------------------------------------------------
(* The operations of the memory.                                           *)

(* mem_free takes the addresses of the blocks in use and no other.         *)
LEMMA AcceptedInUse ==
  ASSUME MemInv, NEW p \in Nat
  PROVE  /\ Accepted(p) <=> \E i \in InUse(desc, freelist) : desc[i].ptr = p
         /\ Accepted(p) => \A i \in find(p) : i \in InUse(desc, freelist) /\ desc[i].ptr = p
<1>1. /\ desc \in Seq(Descriptors) /\ htab \in [0..(HASHES - 1) -> Seq(1..Len(desc))]
      /\ Tiled(desc, brk) /\ hash(p) \in 0..(HASHES - 1)
  BY HashInTable DEF MemInv, Good, Typed
<1>2. \A i \in find(p) : i \in 1..Len(desc) /\ desc[i].ptr = p
  BY <1>1, ElementsIn DEF find
<1>3. ASSUME NEW i \in InUse(desc, freelist), desc[i].ptr = p
      PROVE  Accepted(p)
  <2>1. i \in 1..Len(desc) /\ i \notin Elements(freelist) /\ p % ALIGN = 0
    BY <1>3 DEF InUse, MemInv, Good, Aligned
  <2>2. i \in find(p)
    BY <1>3 DEF find, MemInv, Good, Tabled
  <2>3. \A j \in find(p) : j = i
    BY <1>1, <1>2, <1>3, <2>1, PointersDiffer
  <2> QED BY <2>1, <2>2, <2>3 DEF Accepted
<1>4. ASSUME Accepted(p)
      PROVE  \A i \in find(p) : i \in InUse(desc, freelist)
  BY <1>2, <1>4 DEF Accepted, InUse
<1>5. Accepted(p) => find(p) # {}
  BY DEF Accepted
<1> QED BY <1>2, <1>3, <1>4, <1>5

LEMMA MemInitially == MemInit => MemInv
<1> SUFFICES ASSUME MemInit PROVE MemInv
  OBVIOUS
<1>1. /\ Len(desc) = 0 /\ desc \in Seq(Descriptors) /\ freelist \in Seq(1..0)
      /\ \A h \in 0..(HASHES - 1) : htab[h] \in Seq(1..0) /\ Elements(htab[h]) = {}
      /\ Elements(freelist) = {}
  BY DEF MemInit, Elements
<1>2. Typed(desc, freelist, htab, brk)
  BY <1>1 DEF MemInit, Typed
<1>3. Aligned(desc, brk)
  BY <1>1, MemAssumption DEF MemInit, Aligned
<1>4. Tiled(desc, brk) /\ Tabled(desc, freelist, htab)
  BY <1>1 DEF MemInit, Tiled, Tabled, InUse
<1>5. Accounted(desc, freelist, live, freed)
  BY <1>1 DEF MemInit, Accounted, InUse
<1> QED BY <1>2, <1>3, <1>4, <1>5 DEF MemInv, Good

LEMMA MemStutters ==
  ASSUME MemInv, UNCHANGED <<desc, freelist, htab, brk, live, freed>>
  PROVE  MemInv'
BY DEF MemInv

LEMMA GiveStep ==
  ASSUME NEW ds, NEW list, NEW top, NEW n \in Nat \ {0}, n % ALIGN = 0,
         Good(ds, list, htab, top, live, freed),
         Give(ds, list, n), brk' = top, freed' = freed
  PROVE  /\ MemInv'
         /\ NewBlock \in Nat /\ NewBlock \notin {b.ptr : b \in live}
         /\ live' = live \cup {[ptr |-> NewBlock, size |-> n]}
<1>1. PICK k \in Fitting(n, list, ds) :
        LET new == Cut(ds, list[k], n)
            p   == new[Len(new)].ptr
        IN  /\ desc' = new /\ freelist' = list
            /\ htab' = [htab EXCEPT ![hash(p)] = <<Len(new)>> \o @]
            /\ live' = live \cup {[ptr |-> p, size |-> n]}
  BY DEF Give, First
<1> DEFINE new == Cut(ds, list[k], n)
           p   == new[Len(new)].ptr
<1>2. /\ Good(new, list, [htab EXCEPT ![hash(p)] = <<Len(new)>> \o @], top,
              live \cup {[ptr |-> p, size |-> n]}, freed)
      /\ p \in Nat /\ p \notin {b.ptr : b \in live}
  BY BlockGiven
<1>3. NewBlock = p
  BY <1>1 DEF NewBlock
<1> HIDE DEF new, p
<1>4. /\ desc' = new /\ freelist' = list
      /\ htab' = [htab EXCEPT ![hash(p)] = <<Len(new)>> \o @]
      /\ live' = live \cup {[ptr |-> p, size |-> n]}
  BY <1>1 DEF new, p
<1> QED BY <1>2, <1>3, <1>4 DEF MemInv

(* mem_alloc gives out a block that nobody has.                            *)
LEMMA AllocStep ==
  ASSUME MemInv, NEW n \in Nat \ {0}, mem_alloc(n)
  PROVE  /\ MemInv'
         /\ NewBlock \in Nat /\ NewBlock \notin {b.ptr : b \in live}
         /\ live' = live \cup {[ptr |-> NewBlock, size |-> rounded(n)]}
         /\ Running /\ exited' = exited
<1>1. rounded(n) \in Nat \ {0} /\ rounded(n) % ALIGN = 0
  BY RoundedUp
<1>2. CASE AllocFree(rounded(n))
  BY <1>1, <1>2, GiveStep DEF AllocFree, MemInv
<1>3. CASE AllocChunk(rounded(n))
  <2> DEFINE ds   == Append(desc, [ptr |-> brk, size |-> rounded(n) + NALLOC])
             list == <<Len(desc) + 1>> \o freelist
             top  == brk + rounded(n) + NALLOC
  <2>1. Good(ds, list, htab, top, live, freed)
    BY <1>1, ChunkAdded DEF MemInv
  <2>2. Give(ds, list, rounded(n)) /\ brk' = top /\ freed' = freed /\ Running /\ exited' = exited
    BY <1>3 DEF AllocChunk
  <2> HIDE DEF ds, list, top
  <2> QED BY <1>1, <2>1, <2>2, GiveStep
<1> QED BY <1>2, <1>3 DEF mem_alloc

LEMMA AllocFailStep ==
  ASSUME MemInv, NEW n, mem_alloc_fails(n)
  PROVE  MemInv' /\ exited' # "no"
<1>1. UNCHANGED <<desc, freelist, htab, brk, live, freed>> /\ exited' # "no"
  BY DEF mem_alloc_fails, Exit
<1> QED BY <1>1, MemStutters

(* mem_free takes back exactly the block at the address, or refuses.       *)
LEMMA FreeStep ==
  ASSUME MemInv, NEW p \in Nat, mem_free(p)
  PROVE  /\ MemInv'
         /\ Accepted(p) => live' = {b \in live : b.ptr # p} /\ exited' = exited
         /\ ~Accepted(p) => exited' # "no"
         /\ Running
<1>1. CASE FreeBlock(p)
  <2>1. PICK i \in find(p) : freelist' = <<i>> \o freelist
    BY <1>1 DEF FreeBlock
  <2>2. Accepted(p) /\ i \in InUse(desc, freelist) /\ desc[i].ptr = p
    BY <1>1, AcceptedInUse DEF FreeBlock
  <2>3. Good(desc, <<i>> \o freelist, htab, brk, {b \in live : b.ptr # p}, freed \cup {p})
    BY <2>2, BlockFreed DEF MemInv
  <2> QED BY <1>1, <2>1, <2>2, <2>3 DEF FreeBlock, MemInv
<1>2. CASE FreeRefused(p)
  <2>1. UNCHANGED <<desc, freelist, htab, brk, live, freed>> /\ exited' # "no" /\ ~Accepted(p) /\ Running
    BY <1>2 DEF FreeRefused, Exit
  <2> QED BY <2>1, MemStutters
<1> QED BY <1>1, <1>2 DEF mem_free

-----------------------------------------------------------------------------
(* The operations of the stack.                                            *)

LEMMA AddressNull ==
  ASSUME Chained
  PROVE  /\ FirstElement = NULL <=> pushed = <<>>
         /\ pushed # <<>> => /\ Len(pushed) \in Nat \ {0} /\ FirstElement = pushed[1].at
                             /\ FirstElement \in Nat /\ FirstElement \in DOMAIN elem
<1>1. pushed \in Seq([at : Nat, x : Values]) /\ FirstElement = Address(1)
  BY DEF Chained
<1>2. CASE pushed = <<>>
  BY <1>1, <1>2 DEF Address
<1>3. CASE pushed # <<>>
  <2>1. Len(pushed) \in Nat \ {0} /\ 1 \in 1..Len(pushed)
    BY <1>1, <1>3, EmptySeq
  <2>2. pushed[1] \in [at : Nat, x : Values]
    BY <1>1, <2>1, ElementOfSeq
  <2>3. FirstElement = pushed[1].at /\ pushed[1].at \in Nat
    BY <1>1, <2>1, <2>2 DEF Address
  <2> QED BY <1>3, <2>1, <2>3, MemAssumption DEF Chained
<1> QED BY <1>2, <1>3

(* The first element leaves the chain.                                     *)
LEMMA Unchained ==
  ASSUME Chained, pushed # <<>>,
         pushed' = Tail(pushed), elem' = Without(FirstElement),
         FirstElement' = elem[FirstElement].link
  PROVE  Chained' /\ DOMAIN elem' = DOMAIN elem \ {FirstElement} /\ Len(pushed') = Len(pushed) - 1
<1> DEFINE E == [at : Nat, x : Values]
           L == Len(pushed)
<1>1. pushed \in Seq(E) /\ L \in Nat \ {0} /\ FirstElement = pushed[1].at
  BY AddressNull DEF Chained
<1>2. /\ pushed' \in Seq(E) /\ Len(pushed') = L - 1
      /\ \A i \in 1..(L - 1) : pushed'[i] = pushed[i + 1]
  BY <1>1, HeadTailProperties
<1>3. /\ \A i \in 1..L : elem[pushed[i].at] = [x |-> pushed[i].x, link |-> Address(i + 1)]
      /\ \A i, j \in 1..L : pushed[i].at = pushed[j].at => i = j
      /\ DOMAIN elem = {pushed[i].at : i \in 1..L}
  BY DEF Chained
<1> HIDE DEF E, L
<1>4. \A i \in 1..L : Address(i)' = Address(i + 1)
  BY <1>1, <1>2 DEF Address, L
<1>5. DOMAIN elem' = DOMAIN elem \ {FirstElement}
  BY DEF Without
<1>6. \A i \in 2..L : pushed[i].at # FirstElement
  BY <1>1, <1>3
<1>7. DOMAIN elem' = {pushed'[i].at : i \in 1..(L - 1)}
  <2>1. \A i \in 1..(L - 1) : pushed'[i].at \in DOMAIN elem'
    BY <1>1, <1>2, <1>3, <1>5, <1>6
  <2>2. ASSUME NEW q \in DOMAIN elem'
        PROVE  \E i \in 1..(L - 1) : q = pushed'[i].at
    <3>1. PICK j \in 1..L : q = pushed[j].at
      BY <1>3, <1>5
    <3>2. j # 1
      BY <1>1, <1>5, <3>1
    <3>3. j - 1 \in 1..(L - 1) /\ (j - 1) + 1 = j
      BY <1>1, <3>2
    <3> QED BY <1>2, <3>1, <3>3
  <2> QED BY <2>1, <2>2
<1>8. ASSUME NEW i \in 1..(L - 1)
      PROVE  elem'[pushed'[i].at] = [x |-> pushed'[i].x, link |-> Address(i + 1)']
  <2>1. i + 1 \in 1..L /\ pushed'[i] = pushed[i + 1] /\ pushed[i + 1].at # FirstElement
    BY <1>1, <1>2, <1>6
  <2>2. elem'[pushed'[i].at] = elem[pushed[i + 1].at]
    BY <1>7, <2>1 DEF Without
  <2>3. Address(i + 1)' = Address((i + 1) + 1)
    BY <1>4, <2>1
  <2> QED BY <1>3, <2>1, <2>2, <2>3
<1>9. FirstElement' = Address(1)'
  <2>1. 1 \in 1..L
    BY <1>1
  <2>2. elem[FirstElement].link = Address(1 + 1)
    <3>1. elem[pushed[1].at] = [x |-> pushed[1].x, link |-> Address(1 + 1)]
      BY <1>3, <2>1
    <3> QED BY <1>1, <3>1
  <2> QED BY <1>4, <2>1, <2>2
<1>10. \A i, j \in 1..(L - 1) : pushed'[i].at = pushed'[j].at => i = j
  BY <1>1, <1>2, <1>3
<1> QED BY <1>2, <1>5, <1>7, <1>8, <1>9, <1>10 DEF Chained, E, L

(* What the stack and the client hold is what mem_free takes.              *)
LEMMA OwnedAccepted ==
  ASSUME IInv, Running, NEW p \in mine \cup (Own \ {NULL}), p \in Nat
  PROVE  Accepted(p)
<1>1. PICK b \in live : b.ptr = p
  BY DEF IInv, StackInv, NothingLost
<1>2. PICK i \in InUse(desc, freelist) : b = desc[i]
  BY DEF IInv, MemInv, Good, Accounted
<1> QED BY <1>1, <1>2, AcceptedInUse DEF IInv

(* Giving back p or taking a new block, in terms of addresses.             *)
LEMMA LessOne ==
  ASSUME NEW p, live' = {b \in live : b.ptr # p}
  PROVE  {b.ptr : b \in live'} = {b.ptr : b \in live} \ {p}
OBVIOUS

LEMMA OneMore ==
  ASSUME NEW p, NEW n, live' = live \cup {[ptr |-> p, size |-> n]}
  PROVE  {b.ptr : b \in live'} = {b.ptr : b \in live} \cup {p}
<1>1. [ptr |-> p, size |-> n].ptr = p
  OBVIOUS
<1> QED BY <1>1

-----------------------------------------------------------------------------
(* One lemma per action: it keeps the invariant of the stack.              *)

LEMMA NewStack ==
  ASSUME IInv, Stack_new
  PROVE  IInv'
<1>1. /\ MemInv' /\ NewBlock \in Nat /\ NewBlock \notin {b.ptr : b \in live} /\ Running
      /\ live' = live \cup {[ptr |-> NewBlock, size |-> rounded(STACK_SIZE)]}
  BY AllocStep, StackAssumption DEF IInv, Stack_new
<1>2. Chained /\ Counting /\ NothingLost /\ pushed = <<>> /\ ~releasing
  BY <1>1 DEF IInv, StackInv, Counting, Stack_new
<1>3. Chained'
  BY <1>2, AddressNull DEF Chained, FirstElement, Address, Stack_new
<1>4. DOMAIN elem = {}
  BY <1>2 DEF Chained
<1>5. Counting'
  BY <1>1, <1>2, <1>4 DEF Counting, Stack_new
<1>6. {b.ptr : b \in live'} = {b.ptr : b \in live} \cup {NewBlock}
  BY <1>1, OneMore
<1>7. NothingLost'
  BY <1>1, <1>2, <1>4, <1>6, MemAssumption DEF NothingLost, Own, Stack_new
<1> QED BY <1>1, <1>3, <1>5, <1>7 DEF IInv, StackInv

LEMMA Push ==
  ASSUME IInv, NEW x \in Values, Stack_push(x)
  PROVE  IInv'
<1> DEFINE E == [at : Nat, x : Values]
           L == Len(pushed)
           e == [at |-> NewBlock, x |-> x]
<1>1. /\ MemInv' /\ NewBlock \in Nat /\ NewBlock \notin {b.ptr : b \in live} /\ Running
      /\ live' = live \cup {[ptr |-> NewBlock, size |-> rounded(ELEM_SIZE)]}
  BY AllocStep, StackAssumption DEF IInv, Stack_push
<1>2. Chained /\ Counting /\ NothingLost /\ ~releasing /\ stk # NULL /\ stk \in Nat \ DOMAIN elem
  BY <1>1 DEF IInv, StackInv, Counting, Stack_push, Usable
<1>3. NewBlock \notin DOMAIN elem /\ NewBlock # stk /\ NewBlock \notin mine
  BY <1>1, <1>2, MemAssumption DEF NothingLost, Own
<1>4. pushed \in Seq(E) /\ L \in Nat /\ e \in E /\ head = Address(1)
  BY <1>1, <1>2, LenProperties DEF Chained, FirstElement
<1>5. /\ pushed' = <<e>> \o pushed /\ head' = NewBlock
      /\ pushed' \in Seq(E) /\ Len(pushed') = L + 1 /\ pushed'[1] = e
      /\ \A i \in 1..L : pushed'[i + 1] = pushed[i]
  BY <1>4, Prepend DEF Stack_push
<1>6. /\ DOMAIN elem' = DOMAIN elem \cup {NewBlock}
      /\ elem'[NewBlock] = [x |-> x, link |-> head]
      /\ \A q \in DOMAIN elem : elem'[q] = elem[q]
  BY <1>3 DEF Stack_push
<1>7. /\ DOMAIN elem = {pushed[i].at : i \in 1..L}
      /\ \A i \in 1..L : pushed[i].at \in DOMAIN elem
      /\ \A i \in 1..L : elem[pushed[i].at] = [x |-> pushed[i].x, link |-> Address(i + 1)]
      /\ \A i, j \in 1..L : pushed[i].at = pushed[j].at => i = j
  BY <1>2 DEF Chained
<1>8. e.at = NewBlock /\ e.x = x
  OBVIOUS
<1> HIDE DEF E, L, e
<1>9. \A i \in 1..(L + 1) : i = 1 \/ (i - 1 \in 1..L /\ (i - 1) + 1 = i)
  BY <1>4
<1>10. \A i \in 1..(L + 1) : i # 1 => pushed'[i] = pushed[i - 1]
  BY <1>5, <1>9
<1>11. \A i \in 1..(L + 1) : Address(i + 1)' = Address(i)
  <2> SUFFICES ASSUME NEW i \in 1..(L + 1) PROVE Address(i + 1)' = Address(i)
    OBVIOUS
  <2>1. CASE i \in 1..L
    <3>1. pushed'[i + 1] = pushed[i] /\ i + 1 <= L + 1 /\ i <= L
      BY <1>4, <1>5, <2>1
    <3> QED BY <1>5, <3>1 DEF Address, L
  <2>2. CASE i = L + 1
    <3>1. ~(i + 1 <= L + 1) /\ ~(i <= L)
      BY <1>4, <2>2
    <3> QED BY <1>5, <3>1 DEF Address, L
  <2> QED BY <1>4, <2>1, <2>2
<1>12. FirstElement' = Address(1)'
  BY <1>2, <1>4, <1>5, <1>8 DEF FirstElement, Address, Stack_push
<1>13. DOMAIN elem' = {pushed'[i].at : i \in 1..(L + 1)}
  <2>1. \A i \in 1..(L + 1) : pushed'[i].at \in DOMAIN elem'
    BY <1>5, <1>6, <1>7, <1>8, <1>9, <1>10
  <2>2. ASSUME NEW q \in DOMAIN elem'
        PROVE  \E i \in 1..(L + 1) : q = pushed'[i].at
    <3>1. CASE q = NewBlock
      BY <1>4, <1>5, <1>8, <3>1
    <3>2. CASE q \in DOMAIN elem
      <4>1. PICK i \in 1..L : q = pushed[i].at
        BY <1>7, <3>2
      <4>2. i + 1 \in 1..(L + 1) /\ pushed'[i + 1] = pushed[i]
        BY <1>4, <1>5, <4>1
      <4> QED BY <4>1, <4>2
    <3> QED BY <1>6, <3>1, <3>2
  <2> QED BY <2>1, <2>2
<1>14. ASSUME NEW i \in 1..(L + 1)
       PROVE  elem'[pushed'[i].at] = [x |-> pushed'[i].x, link |-> Address(i + 1)']
  <2>1. CASE i = 1
    BY <1>4, <1>5, <1>6, <1>8, <1>11, <2>1
  <2>2. CASE i # 1
    <3>1. i - 1 \in 1..L /\ (i - 1) + 1 = i /\ pushed'[i] = pushed[i - 1]
      BY <1>9, <1>10, <2>2
    <3>2. elem[pushed[i - 1].at] = [x |-> pushed[i - 1].x, link |-> Address((i - 1) + 1)]
      BY <1>7, <3>1
    <3>3. elem'[pushed[i - 1].at] = elem[pushed[i - 1].at]
      BY <1>6, <1>7, <3>1
    <3> QED BY <1>11, <3>1, <3>2, <3>3
  <2> QED BY <2>1, <2>2
<1>15. ASSUME NEW i \in 1..(L + 1), NEW j \in 1..(L + 1), pushed'[i].at = pushed'[j].at
       PROVE  i = j
  <2>1. \A k \in 1..(L + 1) : k # 1 => pushed'[k].at # NewBlock
    BY <1>3, <1>7, <1>9, <1>10
  <2>2. CASE i = 1 \/ j = 1
    BY <1>5, <1>8, <1>15, <2>1, <2>2
  <2>3. CASE i # 1 /\ j # 1
    <3>1. i - 1 = j - 1
      BY <1>7, <1>9, <1>10, <1>15, <2>3
    <3> QED BY <1>4, <3>1
  <2> QED BY <2>2, <2>3
<1>16. Chained'
  BY <1>5, <1>12, <1>13, <1>14, <1>15 DEF Chained, E
<1>17. Counting'
  BY <1>2, <1>3, <1>4, <1>5, <1>6 DEF Counting, Stack_push, L
<1>18. NothingLost'
  <2>1. {b.ptr : b \in live'} = {b.ptr : b \in live} \cup {NewBlock}
    BY <1>1, OneMore
  <2>2. Own' = Own \cup {NewBlock} /\ mine' = mine /\ NewBlock # NULL /\ NewBlock \notin Own
    BY <1>1, <1>3, <1>6, MemAssumption DEF Own, Stack_push
  <2>3. {b.ptr : b \in live} = mine \cup (Own \ {NULL}) /\ mine \cap Own = {}
    BY <1>1, <1>2 DEF NothingLost
  <2> QED BY <1>3, <2>1, <2>2, <2>3 DEF NothingLost
<1> QED BY <1>1, <1>16, <1>17, <1>18 DEF IInv, StackInv

LEMMA Pop ==
  ASSUME IInv, Stack_pop
  PROVE  IInv'
<1>1. Usable /\ count > 0 /\ mem_free(head)
  BY DEF Stack_pop
<1>2. Running
  BY <1>1 DEF mem_free, FreeBlock, FreeRefused
<1>3. Chained /\ Counting /\ NothingLost /\ ~releasing /\ count = Len(pushed) /\ FirstElement = head
  BY <1>1, <1>2 DEF IInv, StackInv, Counting, Usable, FirstElement
<1>4. pushed # <<>>
  BY <1>1, <1>3
<1>5. head \in Nat /\ head \in DOMAIN elem /\ Len(pushed) \in Nat \ {0}
  BY <1>3, <1>4, AddressNull
<1>6. Accepted(head)
  BY <1>2, <1>5, OwnedAccepted, MemAssumption DEF Own
<1>7. MemInv' /\ live' = {b \in live : b.ptr # head} /\ exited' = exited
  BY <1>1, <1>5, <1>6, FreeStep DEF IInv
<1>8. /\ pushed' = Tail(pushed) /\ elem' = Without(head) /\ head' = elem[head].link
      /\ releasing' = releasing /\ stk' = stk /\ mine' = mine /\ count' = count - 1
  BY DEF Stack_pop
<1>9. FirstElement' = elem[FirstElement].link
  BY <1>3, <1>8 DEF FirstElement
<1>10. Chained' /\ DOMAIN elem' = DOMAIN elem \ {head} /\ Len(pushed') = Len(pushed) - 1
  BY <1>3, <1>4, <1>8, <1>9, Unchained
<1>11. Counting'
  BY <1>1, <1>3, <1>5, <1>8, <1>10 DEF Counting, Usable
<1>12. NothingLost'
  <2>1. {b.ptr : b \in live'} = {b.ptr : b \in live} \ {head}
    BY <1>7, LessOne
  <2>2. stk # head
    BY <1>1, <1>3, <1>5 DEF Counting, Usable
  <2>3. head # NULL /\ head \in Own
    BY <1>5, MemAssumption DEF Own
  <2>4. Own' = Own \ {head}
    BY <1>8, <1>10, <2>2 DEF Own
  <2>5. {b.ptr : b \in live} = mine \cup (Own \ {NULL}) /\ mine \cap Own = {}
    BY <1>2, <1>3 DEF NothingLost
  <2>6. {b.ptr : b \in live} \ {head} = mine \cup ((Own \ {head}) \ {NULL}) /\ mine \cap (Own \ {head}) = {}
    BY <2>3, <2>5
  <2> QED BY <1>8, <2>1, <2>4, <2>6 DEF NothingLost
<1> QED BY <1>7, <1>10, <1>11, <1>12 DEF IInv, StackInv

LEMMA ReleaseElement ==
  ASSUME IInv, FreeElem
  PROVE  IInv'
<1>1. releasing /\ t # NULL /\ mem_free(t)
  BY DEF FreeElem
<1>2. Running
  BY <1>1 DEF mem_free, FreeBlock, FreeRefused
<1>3. Chained /\ Counting /\ NothingLost /\ FirstElement = t /\ stk # NULL
  BY <1>1, <1>2 DEF IInv, StackInv, Counting, FirstElement
<1>4. pushed # <<>>
  BY <1>1, <1>3, AddressNull
<1>5. t \in Nat /\ t \in DOMAIN elem /\ Len(pushed) \in Nat \ {0}
  BY <1>3, <1>4, AddressNull
<1>6. Accepted(t)
  BY <1>2, <1>5, OwnedAccepted, MemAssumption DEF Own
<1>7. MemInv' /\ live' = {b \in live : b.ptr # t} /\ exited' = exited
  BY <1>1, <1>5, <1>6, FreeStep DEF IInv
<1>8. /\ pushed' = Tail(pushed) /\ elem' = Without(t) /\ t' = elem[t].link
      /\ releasing' = releasing /\ stk' = stk /\ mine' = mine
  BY DEF FreeElem
<1>9. FirstElement' = elem[FirstElement].link
  BY <1>1, <1>3, <1>8 DEF FirstElement
<1>10. Chained' /\ DOMAIN elem' = DOMAIN elem \ {t}
  BY <1>3, <1>4, <1>8, <1>9, Unchained
<1>11. Counting'
  BY <1>1, <1>3, <1>8, <1>10 DEF Counting
<1>12. NothingLost'
  <2>1. {b.ptr : b \in live'} = {b.ptr : b \in live} \ {t}
    BY <1>7, LessOne
  <2>2. stk # t
    BY <1>3, <1>5 DEF Counting
  <2>3. t # NULL /\ t \in Own
    BY <1>5, MemAssumption DEF Own
  <2>4. Own' = Own \ {t}
    BY <1>8, <1>10, <2>2 DEF Own
  <2>5. {b.ptr : b \in live} = mine \cup (Own \ {NULL}) /\ mine \cap Own = {}
    BY <1>2, <1>3 DEF NothingLost
  <2>6. {b.ptr : b \in live} \ {t} = mine \cup ((Own \ {t}) \ {NULL}) /\ mine \cap (Own \ {t}) = {}
    BY <2>3, <2>5
  <2> QED BY <1>8, <2>1, <2>4, <2>6 DEF NothingLost
<1> QED BY <1>7, <1>10, <1>11, <1>12 DEF IInv, StackInv

LEMMA ReleaseHead ==
  ASSUME IInv, FreeHead
  PROVE  IInv'
<1>1. releasing /\ t = NULL /\ mem_free(stk)
  BY DEF FreeHead
<1>2. Running
  BY <1>1 DEF mem_free, FreeBlock, FreeRefused
<1>3. /\ Chained /\ Counting /\ NothingLost /\ FirstElement = NULL
      /\ stk # NULL /\ stk \in Nat
  BY <1>1, <1>2 DEF IInv, StackInv, Counting, FirstElement
<1>4. pushed = <<>> /\ DOMAIN elem = {}
  <2>1. pushed = <<>> /\ Len(pushed) = 0
    BY <1>3, AddressNull
  <2>2. DOMAIN elem = {pushed[k].at : k \in 1..Len(pushed)}
    BY <1>3 DEF Chained
  <2>3. 1..Len(pushed) = {}
    BY <2>1
  <2> QED BY <2>1, <2>2, <2>3
<1>5. Accepted(stk)
  BY <1>2, <1>3, OwnedAccepted DEF Own
<1>6. MemInv' /\ live' = {b \in live : b.ptr # stk} /\ exited' = exited
  BY <1>1, <1>3, <1>5, FreeStep DEF IInv
<1>7. /\ pushed' = <<>> /\ elem' = <<>> /\ head' = NULL /\ count' = 0
      /\ releasing' = FALSE /\ stk' = NULL /\ mine' = mine
  BY <1>4 DEF FreeHead
<1>8. DOMAIN elem' = {}
  BY <1>7
<1>9. Chained'
  BY <1>7, <1>8 DEF Chained, FirstElement, Address
<1>10. Counting'
  BY <1>7 DEF Counting
<1>11. NothingLost'
  <2>1. {b.ptr : b \in live'} = {b.ptr : b \in live} \ {stk}
    BY <1>6, LessOne
  <2>2. NULL \notin mine
    <3>1. {b.ptr : b \in live} \subseteq Nat
      <4>1. \A i \in InUse(desc, freelist) : desc[i].ptr \in Nat
        BY Fields DEF IInv, MemInv, Good, Typed, InUse
      <4> QED BY <4>1 DEF IInv, MemInv, Good, Accounted
    <3> QED BY <1>2, <1>3, <3>1, MemAssumption DEF NothingLost
  <2> QED BY <1>2, <1>3, <1>4, <1>7, <1>8, <2>1, <2>2 DEF NothingLost, Own
<1> QED BY <1>6, <1>9, <1>10, <1>11 DEF IInv, StackInv

LEMMA ReleaseStarts ==
  ASSUME IInv, FreeStart
  PROVE  IInv'
<1>1. /\ Running /\ ~releasing /\ stk # NULL
      /\ Chained /\ Counting /\ NothingLost
  BY DEF IInv, StackInv, FreeStart, Usable
<1>2. MemInv' /\ Running'
  BY MemStutters DEF IInv, FreeStart, memVars, Running
<1>3. Chained'
  BY <1>1 DEF FreeStart, Chained, FirstElement, Address
<1>4. Counting' /\ NothingLost'
  BY <1>1 DEF FreeStart, Counting, NothingLost, Own, memVars, Running
<1> QED BY <1>2, <1>3, <1>4 DEF IInv, StackInv

LEMMA Client ==
  ASSUME IInv, ClientAlloc \/ ClientFree
  PROVE  IInv'
<1>1. UNCHANGED <<stk, head, count, elem, releasing, t, pushed>> /\ ~releasing
  BY DEF ClientAlloc, ClientFree
<1>2. UNCHANGED <<FirstElement, Own>> /\ \A i \in Nat : Address(i)' = Address(i)
  BY <1>1 DEF FirstElement, Own, Address
<1>3. Chained /\ Counting => Chained' /\ Counting'
  BY <1>1 DEF Chained, Counting, FirstElement, Address
<1>4. CASE ClientAlloc
  <2>1. PICK n \in Requests : mem_alloc(n) /\ mine' = mine \cup {NewBlock}
    BY <1>4 DEF ClientAlloc
  <2>2. /\ MemInv' /\ NewBlock \in Nat /\ NewBlock \notin {b.ptr : b \in live} /\ Running
        /\ live' = live \cup {[ptr |-> NewBlock, size |-> rounded(n)]}
    BY <2>1, AllocStep, MemAssumption DEF IInv
  <2>3. {b.ptr : b \in live'} = {b.ptr : b \in live} \cup {NewBlock}
    BY <2>2, OneMore
  <2>4. NothingLost'
    <3>1. {b.ptr : b \in live} = mine \cup (Own \ {NULL}) /\ mine \cap Own = {}
      BY <2>2 DEF IInv, StackInv, NothingLost
    <3>2. NewBlock # NULL /\ NewBlock \notin Own
      BY <2>2, <3>1, MemAssumption
    <3> HIDE DEF NewBlock
    <3>3. mine' \cap Own' = {} /\ {b.ptr : b \in live'} = mine' \cup (Own' \ {NULL})
      BY <1>2, <2>1, <2>3, <3>1, <3>2
    <3> QED BY <3>3 DEF NothingLost
  <2> QED BY <1>3, <2>2, <2>4 DEF IInv, StackInv
<1>5. CASE ClientFree
  <2>1. PICK p \in 0..brk \ Own : mem_free(p) /\ mine' = mine \ {p}
    BY <1>5 DEF ClientFree
  <2>2. p \in Nat /\ brk \in Nat
    BY <2>1 DEF IInv, MemInv, Good, Typed
  <2>3. /\ MemInv' /\ Running
        /\ Accepted(p) => live' = {b \in live : b.ptr # p} /\ exited' = exited
        /\ ~Accepted(p) => exited' # "no"
    BY <2>1, <2>2, FreeStep DEF IInv
  <2>4. CASE Accepted(p)
    <3>1. {b.ptr : b \in live'} = {b.ptr : b \in live} \ {p}
      BY <2>3, <2>4, LessOne
    <3>2. NothingLost'
      BY <1>2, <2>1, <2>3, <3>1 DEF IInv, StackInv, NothingLost
    <3> QED BY <1>3, <2>3, <3>2 DEF IInv, StackInv
  <2>5. CASE ~Accepted(p)
    BY <2>3, <2>5 DEF IInv, StackInv, Running
  <2> QED BY <2>4, <2>5
<1> QED BY <1>4, <1>5

LEMMA Fails ==
  ASSUME IInv, NewFails \/ ClientAllocFails
  PROVE  IInv'
<1>1. PICK n : mem_alloc_fails(n)
  BY DEF NewFails, ClientAllocFails
<1>2. MemInv' /\ exited' # "no"
  BY <1>1, AllocFailStep DEF IInv
<1> QED BY <1>2 DEF IInv, StackInv, Running

LEMMA InitHolds == Init => IInv
<1> SUFFICES ASSUME Init PROVE IInv
  OBVIOUS
<1>1. MemInv
  BY MemInitially DEF Init
<1>2. pushed = <<>> /\ elem = <<>> /\ live = {} /\ mine = {} /\ DOMAIN elem = {}
  BY DEF Init, MemInit
<1>3. Len(pushed) = 0 /\ pushed \in Seq([at : Nat, x : Values])
  BY <1>2, EmptySeq
<1>3a. Chained
  BY <1>2, <1>3 DEF Init, Chained, FirstElement, Address
<1>3b. Counting
  BY <1>2, <1>3 DEF Init, Counting
<1>4. NothingLost
  BY <1>2 DEF Init, NothingLost, Own
<1> QED BY <1>1, <1>3a, <1>3b, <1>4 DEF IInv, StackInv

LEMMA StepHolds == IInv /\ [Next]_vars => IInv'
<1> SUFFICES ASSUME IInv, [Next]_vars PROVE IInv'
  OBVIOUS
<1>1. CASE Next
  BY <1>1, NewStack, Push, Pop, ReleaseStarts, ReleaseElement, ReleaseHead, Client, Fails DEF Next
<1>2. CASE UNCHANGED vars
  <2>1. UNCHANGED <<memVars, stackVars>>
    BY <1>2 DEF vars
  <2>2. MemInv'
    BY <2>1, MemStutters DEF IInv, memVars
  <2>3. StackInv'
    <3>1. UNCHANGED <<exited, live, stk, head, count, elem, releasing, t, pushed, mine>>
      BY <2>1 DEF memVars, stackVars
    <3>2. Chained => Chained'
      BY <3>1 DEF Chained, FirstElement, Address
    <3>3. (Counting => Counting') /\ (NothingLost => NothingLost')
      BY <3>1 DEF Counting, NothingLost, Own, Running
    <3> QED BY <3>1, <3>2, <3>3 DEF IInv, StackInv, Running
  <2> QED BY <2>2, <2>3 DEF IInv
<1> QED BY <1>1, <1>2

(* The invariant, from which the properties follow.                        *)
THEOREM CheckedInvariant == Spec => []IInv
BY InitHolds, StepHolds, PTL DEF Spec

-----------------------------------------------------------------------------
(* The properties.                                                         *)

LEMMA BehindApart ==
  ASSUME NEW a, NEW b, a.ptr \in Nat, a.size \in Nat, b.ptr \in Nat, b.size \in Nat,
         Behind(a, b)
  PROVE  Bytes(a) \cap Bytes(b) = {}
<1>1. ASSUME NEW x \in Bytes(a), x \in Bytes(b)
      PROVE  FALSE
  <2>1. x \in Int /\ x <= a.ptr + a.size - 1 /\ b.ptr <= x
    BY <1>1 DEF Bytes
  <2>2. a.ptr + a.size <= b.ptr
    BY DEF Behind
  <2> QED BY <2>1, <2>2
<1> QED BY <1>1

LEMMA ApartHolds == MemInv => BlocksApart
<1> SUFFICES ASSUME MemInv PROVE BlocksApart
  OBVIOUS
<1>1. /\ desc \in Seq(Descriptors) /\ freelist \in Seq(1..Len(desc))
      /\ live = {desc[i] : i \in InUse(desc, freelist)}
  BY DEF MemInv, Good, Typed, Accounted
<1>2. ASSUME NEW i \in 1..Len(desc), NEW j \in 1..Len(desc), i # j
      PROVE  Bytes(desc[i]) \cap Bytes(desc[j]) = {}
  <2>1. Behind(desc[i], desc[j]) \/ Behind(desc[j], desc[i])
    BY <1>2 DEF MemInv, Good, Tiled
  <2>2. /\ desc[i].ptr \in Nat /\ desc[i].size \in Nat
        /\ desc[j].ptr \in Nat /\ desc[j].size \in Nat
    BY <1>1, Fields
  <2> QED BY <2>1, <2>2, BehindApart
<1>3. ASSUME NEW a \in live, NEW b \in live, a # b
      PROVE  Bytes(a) \cap Bytes(b) = {}
  BY <1>1, <1>2, <1>3 DEF InUse
<1>4. ASSUME NEW a \in live, NEW k \in 1..Len(freelist)
      PROVE  Bytes(a) \cap Bytes(desc[freelist[k]]) = {}
  <2>1. freelist[k] \in 1..Len(desc) /\ freelist[k] \in Elements(freelist)
    BY <1>1, ElementOfSeq DEF Elements
  <2> QED BY <1>1, <1>2, <2>1 DEF InUse
<1> QED BY <1>3, <1>4 DEF BlocksApart

LEMMA FreeCheckedHolds == MemInv => FreeChecked
<1> SUFFICES ASSUME MemInv PROVE FreeChecked
  OBVIOUS
<1>1. /\ desc \in Seq(Descriptors) /\ freelist \in Seq(1..Len(desc)) /\ brk \in Nat
      /\ Tiled(desc, brk)
      /\ live = {desc[i] : i \in InUse(desc, freelist)}
      /\ freed \subseteq {desc[i].ptr : i \in Elements(freelist)}
  BY DEF MemInv, Good, Typed, Accounted
<1> SUFFICES ASSUME NEW p \in 0..brk
             PROVE  Accepted(p) <=> p \notin freed /\ \E b \in live : b.ptr = p
  BY DEF FreeChecked
<1>2. p \in Nat
  BY <1>1
<1>3. Accepted(p) <=> \E i \in InUse(desc, freelist) : desc[i].ptr = p
  BY <1>2, AcceptedInUse
<1>4. (\E i \in InUse(desc, freelist) : desc[i].ptr = p) => p \notin freed
  <2> SUFFICES ASSUME NEW i \in InUse(desc, freelist), desc[i].ptr = p, p \in freed PROVE FALSE
    OBVIOUS
  <2>1. PICK j \in Elements(freelist) : desc[j].ptr = p
    BY <1>1
  <2>2. i \in 1..Len(desc) /\ i \notin Elements(freelist) /\ j \in 1..Len(desc)
    BY <1>1, <2>1, ElementsIn DEF InUse
  <2> QED BY <1>1, <2>1, <2>2, PointersDiffer
<1> QED BY <1>1, <1>3, <1>4

LEMMA LastInFirstOutHolds == StackInv => LastInFirstOut
<1> SUFFICES ASSUME StackInv, Usable, Running PROVE LastInFirstOut
  BY DEF LastInFirstOut
<1>1. Chained /\ count = Len(pushed) /\ head = FirstElement
  BY DEF StackInv, Counting, Usable, FirstElement
<1> QED BY <1>1 DEF LastInFirstOut, Chained

(* mem.c:94: the blocks given out never overlap one another or what is     *)
(* left of a free block, whatever is asked for and freed in which order.   *)
THEOREM BlocksStayApart == Spec => []BlocksApart
<1>1. IInv => BlocksApart
  BY ApartHolds DEF IInv
<1> QED BY <1>1, CheckedInvariant, PTL

(* mem.c:54: mem_free takes exactly the addresses of the blocks in use,    *)
(* and an address it took never again.                                     *)
THEOREM FreesAreChecked == Spec => []FreeChecked
<1>1. IInv => FreeChecked
  BY FreeCheckedHolds DEF IInv
<1> QED BY <1>1, CheckedInvariant, PTL

(* stack.c:45: what is popped is what was pushed last.                     *)
THEOREM StackOrder == Spec => []LastInFirstOut
<1>1. IInv => LastInFirstOut
  BY LastInFirstOutHolds DEF IInv
<1> QED BY <1>1, CheckedInvariant, PTL

(* stack.c:58: the blocks in use are the client's and the stack's, at      *)
(* every step of Stack_free too.                                           *)
THEOREM NothingIsLost == Spec => []NothingLost
<1>1. IInv => NothingLost
  BY DEF IInv, StackInv, NothingLost
<1> QED BY <1>1, CheckedInvariant, PTL
=============================================================================
