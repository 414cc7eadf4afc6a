------------------------ MODULE BootBackends_proofs ------------------------
(***************************************************************************)
(* That the four loader interfaces implement BootSelection, and that with  *)
(* each of them an activated slot is the next one, for any finite set of   *)
(* slots and any attempt counters.                                         *)
(*                                                                         *)
(* Every loader finds the next slot as the first of a sequence of slots    *)
(* that is in some set, First below.  The writes of a call in progress do  *)
(* one after the other what its operation promises, StepTo and LastTo:     *)
(* nothing else changes the environment while a system is up.  barebox,    *)
(* GRUB and EFI have one write per call, U-Boot one for the order and one  *)
(* for the counter of a slot.                                              *)
(***************************************************************************)
EXTENDS BootBackends, TLAPS, FiniteSetTheorems, SequenceTheorems, WellFoundedInduction

N == Cardinality(Slots)
Orders == {o \in [1 .. N -> Slots] : \A s \in Slots : \E i \in 1 .. N : o[i] = s}
First(o, S) ==
    LET at == {i \in DOMAIN o : o[i] \in S}
    IN  IF at = {} THEN NoSlot ELSE o[CHOOSE i \in at : \A j \in at : i <= j]

LEMMA CountNat == N \in Nat /\ DOMAIN PresetOrder = 1 .. N /\ PresetOrder \in Orders
BY BackendsAssumption, FS_CardinalityType DEF N, Orders

LEMMA Attempting == DefaultAttempts \in Nat \ {0} /\ PrimaryAttempts \in Nat \ {0}
BY BackendsAssumption DEF DefaultAttempts, PrimaryAttempts, Attempts

\* A set of positions has a first one.
LEMMA FirstPosition ==
    ASSUME NEW P, P \subseteq Nat, P # {}
    PROVE  \E i \in P : \A j \in P : i <= j
<1> DEFINE Less == {ss \in Nat \X Nat : ss[1] < ss[2]}
<1>1. IsWellFoundedOn(Less, Nat)
    <2>1. Less = OpToRel(<, Nat)
        BY DEF OpToRel
    <2> QED BY <2>1, NatLessThanWellFounded, Zenon
<1> HIDE DEF Less
<1>2. PICK i \in P : \A j \in P : <<j, i>> \notin Less
    BY <1>1, WFMin
<1>3. \A j \in P : j \in Nat /\ i \in Nat /\ ~(j < i)
    BY <1>2 DEF Less
<1> QED BY <1>3

LEMMA FirstFacts ==
    ASSUME NEW o \in Orders, NEW S, S \subseteq Slots, S # {}
    PROVE  \E i \in 1 .. N : /\ First(o, S) = o[i] /\ o[i] \in S
                             /\ \A j \in 1 .. N : o[j] \in S => i <= j
<1> DEFINE at == {i \in DOMAIN o : o[i] \in S}
<1>1. DOMAIN o = 1 .. N /\ at \subseteq Nat /\ at # {}
    <2>1. DOMAIN o = 1 .. N /\ \A t \in Slots : \E i \in 1 .. N : o[i] = t
        BY DEF Orders
    <2>2. 1 .. N \subseteq Nat
        BY CountNat
    <2>3. PICK t \in S : t \in Slots
        OBVIOUS
    <2> QED BY <2>1, <2>2, <2>3
<1>2. \E i \in at : \A j \in at : i <= j
    BY <1>1, FirstPosition
<1> DEFINE k == CHOOSE i \in at : \A j \in at : i <= j
<1>3. k \in at /\ \A j \in at : k <= j
    BY <1>2
<1>4. First(o, S) = o[k]
    BY <1>1 DEF First
<1> HIDE DEF k
<1> QED BY <1>1, <1>3, <1>4

LEMMA FirstNone == ASSUME NEW o PROVE First(o, {}) = NoSlot
BY DEF First

LEMMA FirstIn ==
    ASSUME NEW o \in Orders, NEW S, S \subseteq Slots
    PROVE  /\ S # {} => First(o, S) \in S
           /\ S = {} => First(o, S) = NoSlot
BY FirstFacts, FirstNone

\* Taking others out of the set does not change its first.
LEMMA FirstStays ==
    ASSUME NEW o \in Orders, NEW S, S \subseteq Slots, NEW T, T \subseteq S, First(o, S) \in T
    PROVE  First(o, T) = First(o, S)
<1>1. PICK i \in 1 .. N : /\ First(o, S) = o[i] /\ o[i] \in S
                          /\ \A j \in 1 .. N : o[j] \in S => i <= j
    BY FirstFacts
<1>2. PICK k \in 1 .. N : /\ First(o, T) = o[k] /\ o[k] \in T
                          /\ \A j \in 1 .. N : o[j] \in T => k <= j
    BY FirstFacts
<1>3. i <= k /\ k <= i
    BY <1>1, <1>2
<1>4. i = k
    BY <1>3, CountNat
<1> QED BY <1>1, <1>2, <1>4

\* A slot that joins the set is the new first, or the first stays.
LEMMA FirstWith ==
    ASSUME NEW o \in Orders, NEW S, S \subseteq Slots, NEW s \in Slots
    PROVE  First(o, S \cup {s}) \in {First(o, S), s}
<1>1. First(o, S \cup {s}) \in S \cup {s}
    BY FirstIn
<1>2. ASSUME First(o, S \cup {s}) \in S
      PROVE First(o, S) = First(o, S \cup {s})
    BY <1>2, FirstStays
<1> QED BY <1>1, <1>2

----------------------------------------------------------------------------
(* Orders of any length, in which a slot may be missing.                    *)

LEMMA FirstOf ==
    ASSUME NEW X, NEW o \in Seq(X), NEW S
    PROVE  \/ \E i \in 1 .. Len(o) : /\ First(o, S) = o[i] /\ o[i] \in S
                                    /\ \A j \in 1 .. Len(o) : o[j] \in S => i <= j
           \/ First(o, S) = NoSlot /\ \A j \in 1 .. Len(o) : o[j] \notin S
<1> DEFINE at == {i \in DOMAIN o : o[i] \in S}
           k == CHOOSE i \in at : \A j \in at : i <= j
<1>1. DOMAIN o = 1 .. Len(o) /\ at \subseteq Nat
    OBVIOUS
<1>2. CASE at = {}
    BY <1>1, <1>2 DEF First
<1>3. CASE at # {}
    <2>1. \E i \in at : \A j \in at : i <= j
        BY <1>1, <1>3, FirstPosition
    <2>2. k \in at /\ \A j \in at : k <= j
        BY <2>1
    <2>3. First(o, S) = o[k]
        BY <1>3 DEF First
    <2> HIDE DEF k
    <2> QED BY <1>1, <2>2, <2>3
<1> QED BY <1>2, <1>3

LEMMA FirstFound ==
    ASSUME NEW X, NEW o \in Seq(X), NEW S, NoSlot \notin S
    PROVE  /\ First(o, S) \in S \cup {NoSlot}
           /\ First(o, S) = NoSlot <=> \A j \in 1 .. Len(o) : o[j] \notin S
BY FirstOf

LEMMA FirstLess ==
    ASSUME NEW X, NEW o \in Seq(X), NEW S, NoSlot \notin S, NEW T, T \subseteq S,
           First(o, S) \in T \cup {NoSlot}
    PROVE  First(o, T) = First(o, S)
<1>1. CASE First(o, S) = NoSlot
    BY <1>1, FirstFound
<1>2. CASE First(o, S) \in T
    <2>1. PICK i \in 1 .. Len(o) : /\ First(o, S) = o[i] /\ o[i] \in T
                                  /\ \A j \in 1 .. Len(o) : o[j] \in S => i <= j
        BY <1>2, FirstOf
    <2>2. PICK k \in 1 .. Len(o) : /\ First(o, T) = o[k] /\ o[k] \in T
                                  /\ \A j \in 1 .. Len(o) : o[j] \in T => k <= j
        BY <2>1, FirstOf
    <2>3. i = k
        BY <2>1, <2>2
    <2> QED BY <2>1, <2>2, <2>3
<1> QED BY <1>1, <1>2

LEMMA FirstMore ==
    ASSUME NEW X, NEW o \in Seq(X), NEW S, NEW s, NoSlot \notin S \cup {s}
    PROVE  First(o, S \cup {s}) \in {First(o, S), s}
<1>1. CASE First(o, S \cup {s}) \in S \cup {NoSlot}
    BY <1>1, FirstLess
<1> QED BY <1>1, FirstFound

LEMMA FirstAppend ==
    ASSUME NEW X, NEW o \in Seq(X), NEW t \in X, NEW S, NoSlot \notin S
    PROVE  First(Append(o, t), S) = IF First(o, S) # NoSlot THEN First(o, S)
                                    ELSE IF t \in S THEN t ELSE NoSlot
<1> DEFINE q == Append(o, t)
<1>1. /\ q \in Seq(X) /\ Len(q) = Len(o) + 1 /\ Len(o) \in Nat /\ q[Len(o) + 1] = t
      /\ \A i \in 1 .. Len(o) : q[i] = o[i]
    BY AppendProperties
<1> HIDE DEF q
<1>2. CASE First(o, S) # NoSlot
    <2>1. PICK i \in 1 .. Len(o) : /\ First(o, S) = o[i] /\ o[i] \in S
                                  /\ \A j \in 1 .. Len(o) : o[j] \in S => i <= j
        BY <1>2, FirstOf
    <2>2. i \in 1 .. Len(q) /\ q[i] \in S
        BY <1>1, <2>1
    <2>3. PICK k \in 1 .. Len(q) : /\ First(q, S) = q[k] /\ q[k] \in S
                                  /\ \A j \in 1 .. Len(q) : q[j] \in S => k <= j
        BY <1>1, <2>2, FirstOf
    <2>4. k <= i /\ k \in 1 .. Len(o)
        BY <1>1, <2>2, <2>3
    <2>5. i <= k
        BY <1>1, <2>1, <2>3, <2>4
    <2> QED BY <1>1, <1>2, <2>1, <2>3, <2>4, <2>5 DEF q
<1>3. CASE First(o, S) = NoSlot
    <2>1. \A j \in 1 .. Len(o) : q[j] \notin S
        BY <1>1, <1>3, FirstFound
    <2>2. CASE t \in S
        <3>1. PICK k \in 1 .. Len(q) : First(q, S) = q[k] /\ q[k] \in S
            BY <1>1, <2>2, FirstOf
        <3>2. k = Len(o) + 1
            BY <1>1, <2>1, <3>1
        <3> QED BY <1>1, <1>3, <2>2, <3>1, <3>2 DEF q
    <2>3. CASE t \notin S
        <3>1. \A j \in 1 .. Len(q) : q[j] \notin S
            BY <1>1, <2>1, <2>3
        <3> QED BY <1>1, <1>3, <2>3, <3>1, FirstFound DEF q
    <2> QED BY <2>2, <2>3
<1> QED BY <1>2, <1>3

\* A slot put in front of an order.
LEMMA FirstAhead ==
    ASSUME NEW X, NEW o \in Seq(X), NEW s \in X
    PROVE  /\ <<s>> \o o \in Seq(X) /\ Len(<<s>> \o o) = Len(o) + 1 /\ (<<s>> \o o)[1] = s
           /\ \A i \in 1 .. Len(o) : (<<s>> \o o)[i + 1] = o[i]
           /\ \A S : s \in S => First(<<s>> \o o, S) = s
<1> DEFINE q == <<s>> \o o
<1>1. <<s>> \in Seq(X) /\ Len(<<s>>) = 1 /\ <<s>>[1] = s /\ Len(o) \in Nat
    OBVIOUS
<1>2. /\ q \in Seq(X) /\ Len(q) = 1 + Len(o)
      /\ \A i \in 1 .. 1 + Len(o) : q[i] = IF i <= 1 THEN <<s>>[i] ELSE o[i - 1]
    BY <1>1, ConcatProperties
<1> HIDE DEF q
<1>3. q[1] = s /\ \A i \in 1 .. Len(o) : q[i + 1] = o[i]
    BY <1>1, <1>2
<1>4. ASSUME NEW S, s \in S PROVE First(q, S) = s
    <2>1. 1 \in 1 .. Len(q) /\ q[1] \in S
        BY <1>1, <1>2, <1>3, <1>4
    <2>2. PICK k \in 1 .. Len(q) : /\ First(q, S) = q[k]
                                  /\ \A j \in 1 .. Len(q) : q[j] \in S => k <= j
        BY <1>2, <2>1, FirstOf
    <2>3. k = 1
        BY <1>1, <1>2, <2>1, <2>2
    <2> QED BY <1>3, <2>2, <2>3
<1> QED BY <1>1, <1>2, <1>3, <1>4 DEF q

\* A property of all numbers up to one that each passes on.
LEMMA UpTo ==
    ASSUME NEW n \in Nat, NEW P \in [0 .. n -> BOOLEAN], P[0],
           \A m \in 0 .. n - 1 : P[m] => P[m + 1]
    PROVE  P[n]
<1> DEFINE wrong == {m \in 0 .. n : ~P[m]}
<1>1. SUFFICES ASSUME wrong # {} PROVE FALSE
    OBVIOUS
<1>2. PICK m \in wrong : \A k \in wrong : m <= k
    <2>1. wrong \subseteq Nat
        OBVIOUS
    <2> QED BY <1>1, <2>1, FirstPosition
<1>3. m \in 1 .. n /\ m - 1 \in 0 .. n - 1 /\ P[m - 1]
    BY <1>2
<1>4. P[(m - 1) + 1]
    BY <1>3
<1> QED BY <1>2, <1>3, <1>4

(* The loop of uboot_set_state and uboot_set_primary, n names into the order. *)

KeepName(q, t, s) == IF t = s THEN q ELSE Append(q, t)
Loop(g, o, s, n) ==
    /\ g = [m \in 0 .. n |-> g[m]]
    /\ \A m \in 0 .. n : g[m] = IF m = 0 THEN <<>> ELSE KeepName(g[m - 1], o[m], s)

LEMMA LoopRuns == ASSUME NEW o, NEW s, NEW n \in Nat PROVE \E g : Loop(g, o, s, n)
<1> DEFINE P == [m \in 0 .. n |-> \E g : Loop(g, o, s, m)]
<1>1. P[0]
    <2> DEFINE g == [m \in 0 .. 0 |-> <<>>]
    <2>1. g = [m \in 0 .. 0 |-> g[m]] /\ \A m \in 0 .. 0 : m = 0 /\ g[m] = <<>>
        OBVIOUS
    <2> HIDE DEF g
    <2>2. Loop(g, o, s, 0)
        BY <2>1 DEF Loop
    <2> QED BY <2>2
<1>2. ASSUME NEW l \in 0 .. n - 1, P[l] PROVE P[l + 1]
    <2>1. PICK g : Loop(g, o, s, l)
        BY <1>2
    <2> DEFINE h == [m \in 0 .. l + 1 |-> IF m = l + 1 THEN KeepName(g[l], o[l + 1], s) ELSE g[m]]
    <2>2. /\ \A m \in 0 .. l : h[m] = g[m] /\ h[l + 1] = KeepName(g[l], o[l + 1], s)
          /\ h = [m \in 0 .. l + 1 |-> h[m]]
        OBVIOUS
    <2> HIDE DEF h
    <2>3. \A m \in 0 .. l + 1 : h[m] = IF m = 0 THEN <<>> ELSE KeepName(h[m - 1], o[m], s)
        <3> TAKE m \in 0 .. l + 1
        <3>1. CASE m = 0
            BY <2>1, <2>2, <3>1 DEF Loop
        <3>2. CASE m \in 1 .. l
            <4>1. m \in 0 .. l /\ m - 1 \in 0 .. l /\ m # 0
                BY <3>2
            <4>2. h[m] = g[m] /\ h[m - 1] = g[m - 1]
                BY <2>2, <4>1
            <4> QED BY <2>1, <4>1, <4>2 DEF Loop
        <3>3. CASE m = l + 1
            <4>1. m - 1 = l /\ l \in 0 .. l /\ m # 0
                BY <3>3
            <4> QED BY <2>2, <3>3, <4>1
        <3> QED BY <3>1, <3>2, <3>3
    <2>4. Loop(h, o, s, l + 1) /\ l + 1 \in 0 .. n
        BY <2>2, <2>3 DEF Loop
    <2> QED BY <2>4
<1>3. P \in [0 .. n -> BOOLEAN]
    OBVIOUS
<1> HIDE DEF P
<1>4. P[n]
    BY <1>1, <1>2, <1>3, UpTo
<1> QED BY <1>4 DEF P

LEMMA WithoutIs ==
    ASSUME NEW o, NEW s, Len(o) \in Nat
    PROVE  \E g : Loop(g, o, s, Len(o)) /\ U!Without(o, s) = g[Len(o)]
<1> DEFINE n == Len(o)
           IsLoop(g) == g = [m \in 0 .. n |-> IF m = 0 THEN <<>>
                                              ELSE IF o[m] = s THEN g[m - 1] ELSE Append(g[m - 1], o[m])]
           kept == CHOOSE g : IsLoop(g)
<1>1. \E g : IsLoop(g)
    <2>1. PICK g : Loop(g, o, s, n)
        BY LoopRuns
    <2>2. IsLoop(g)
        BY <2>1 DEF Loop, KeepName
    <2> QED BY <2>2
<1>2. IsLoop(kept)
    <2> HIDE DEF IsLoop
    <2> QED BY <1>1
<1>3. U!Without(o, s) = kept[n]
    BY DEF U!Without
<1> HIDE DEF kept
<1>4. Loop(kept, o, s, n)
    <2> DEFINE body == [m \in 0 .. n |-> IF m = 0 THEN <<>>
                                      ELSE IF o[m] = s THEN kept[m - 1] ELSE Append(kept[m - 1], o[m])]
    <2>1. /\ body = [m \in 0 .. n |-> body[m]]
          /\ \A m \in 0 .. n : body[m] = IF m = 0 THEN <<>>
                                       ELSE IF o[m] = s THEN kept[m - 1] ELSE Append(kept[m - 1], o[m])
        OBVIOUS
    <2>2. kept = body
        BY <1>2
    <2> HIDE DEF body
    <2> QED BY <2>1, <2>2 DEF Loop, KeepName
<1> QED BY <1>3, <1>4

\* The loop drops the slot and keeps the order of the others.
LEMMA WithoutKeeps ==
    ASSUME NEW X, NEW o \in Seq(X), NEW s, NEW S, NoSlot \notin S, s \notin S
    PROVE  /\ U!Without(o, s) \in Seq(X \ {s})
           /\ First(U!Without(o, s), S) = First(o, S)
<1>1. Len(o) \in Nat /\ \A i \in 1 .. Len(o) : o[i] \in X
    OBVIOUS
<1>2. PICK g : Loop(g, o, s, Len(o)) /\ U!Without(o, s) = g[Len(o)]
    BY <1>1, WithoutIs
<1> DEFINE head(m) == SubSeq(o, 1, m)
           Same(m) == g[m] \in Seq(X \ {s}) /\ First(g[m], S) = First(head(m), S)
           P == [m \in 0 .. Len(o) |-> Same(m)]
<1>3. Same(0)
    <2>1. g[0] = <<>> /\ head(0) = <<>> /\ 0 \in 0 .. Len(o)
        BY <1>1, <1>2, SubSeqEmpty DEF Loop
    <2>2. g[0] \in Seq(X \ {s})
        BY <2>1, EmptySeq
    <2> QED BY <2>1, <2>2
<1>4. ASSUME NEW m \in 0 .. Len(o) - 1, Same(m) PROVE Same(m + 1)
    <2>1. m \in Nat /\ m + 1 \in 1 .. Len(o) /\ m + 1 \in 0 .. Len(o) /\ (m + 1) - 1 = m /\ m + 1 # 0
        BY <1>1
    <2>2. head(m) \in Seq(X) /\ head(m + 1) = Append(head(m), o[m + 1]) /\ o[m + 1] \in X
        <3>1. head(m) \in Seq(X)
            BY <1>1, <2>1, SubSeqProperties
        <3>2. SubSeq(o, 1, m + 1) = Append(SubSeq(o, 1, (m + 1) - 1), o[m + 1])
            BY <1>1, <2>1, SubSeqRecursiveSecond
        <3> QED BY <1>1, <2>1, <3>1, <3>2
    <2> HIDE DEF head
    <2>3. g[m] \in Seq(X \ {s}) /\ First(g[m], S) = First(head(m), S)
        BY <1>4
    <2>4. g[m + 1] = KeepName(g[m], o[m + 1], s)
        BY <1>2, <2>1 DEF Loop
    <2>5. First(head(m + 1), S) = IF First(head(m), S) # NoSlot THEN First(head(m), S)
                                  ELSE IF o[m + 1] \in S THEN o[m + 1] ELSE NoSlot
        <3> DEFINE h == head(m)
                   t == o[m + 1]
        <3>1. h \in Seq(X) /\ t \in X /\ head(m + 1) = Append(h, t)
            BY <2>2
        <3> HIDE DEF h, t
        <3>2. First(Append(h, t), S) = IF First(h, S) # NoSlot THEN First(h, S)
                                       ELSE IF t \in S THEN t ELSE NoSlot
            BY <3>1, FirstAppend
        <3> QED BY <3>1, <3>2 DEF h, t
    <2>6. CASE o[m + 1] = s
        BY <2>1, <2>3, <2>4, <2>5, <2>6 DEF KeepName
    <2>7. CASE o[m + 1] # s
        <3>1. g[m + 1] = Append(g[m], o[m + 1]) /\ o[m + 1] \in X \ {s}
            BY <2>2, <2>4, <2>7 DEF KeepName
        <3>2. g[m + 1] \in Seq(X \ {s})
            BY <2>3, <3>1, AppendProperties
        <3>3. First(g[m + 1], S) = IF First(g[m], S) # NoSlot THEN First(g[m], S)
                                   ELSE IF o[m + 1] \in S THEN o[m + 1] ELSE NoSlot
            BY <2>3, <3>1, FirstAppend
        <3> QED BY <2>1, <2>3, <2>5, <3>2, <3>3
    <2> QED BY <2>6, <2>7
<1>5. P \in [0 .. Len(o) -> BOOLEAN]
    OBVIOUS
<1> HIDE DEF Same
<1>6. \A m \in 0 .. Len(o) : P[m] <=> Same(m)
    OBVIOUS
<1> HIDE DEF P
<1>7. P[Len(o)]
    <2>1. P[0]
        BY <1>1, <1>3, <1>6
    <2>2. \A m \in 0 .. Len(o) - 1 : P[m] => P[m + 1]
        BY <1>1, <1>4, <1>6
    <2> QED BY <1>1, <1>5, <2>1, <2>2, UpTo
<1>8. head(Len(o)) = o /\ Len(o) \in 0 .. Len(o)
    BY <1>1, SubSeqFull
<1> HIDE DEF head
<1> QED BY <1>2, <1>6, <1>7, <1>8 DEF Same

(* The list operation of efi_modify_persistent_bootorder.                   *)

Distinct(o) == \A i, j \in 1 .. Len(o) : o[i] = o[j] => i = j

LEMMA RemoveFirstIs ==
    ASSUME NEW X, NEW o \in Seq(X), NEW s, NEW k \in 1 .. Len(o), o[k] = s,
           \A j \in 1 .. Len(o) : o[j] = s => j = k
    PROVE  LET q == E!RemoveFirst(o, s) IN
           /\ q \in Seq(X) /\ Len(q) = Len(o) - 1
           /\ \A i \in 1 .. Len(o) - 1 : q[i] = IF i < k THEN o[i] ELSE o[i + 1]
<1> DEFINE I == {i \in 1 .. Len(o) : o[i] = s}
           a == SubSeq(o, 1, k - 1)
           b == SubSeq(o, k + 1, Len(o))
<1>1. Len(o) \in Nat /\ k \in Nat /\ 1 <= k /\ k <= Len(o) /\ \A i \in 1 .. Len(o) : o[i] \in X
    OBVIOUS
<1>2. I = {k}
    OBVIOUS
<1>3. E!Min(I) = k
    BY <1>1, <1>2 DEF E!Min
<1>4. E!SelectInSeq(o, LAMBDA v : v = s) = k
    BY <1>2, <1>3 DEF E!SelectInSeq
<1>5. E!RemoveFirst(o, s) = a \o b
    BY <1>4 DEF E!RemoveFirst, E!RemoveAt
<1>6. a \in Seq(X) /\ Len(a) = k - 1 /\ \A i \in 1 .. k - 1 : a[i] = o[i]
    BY <1>1, SubSeqProperties
<1>7. b \in Seq(X) /\ Len(b) = Len(o) - k /\ \A i \in 1 .. Len(o) - k : b[i] = o[k + i]
    BY <1>1, SubSeqProperties
<1> HIDE DEF a, b
<1>8. /\ a \o b \in Seq(X) /\ Len(a \o b) = Len(o) - 1
      /\ \A i \in 1 .. Len(o) - 1 : (a \o b)[i] = IF i <= k - 1 THEN a[i] ELSE b[i - (k - 1)]
    <2>1. /\ a \o b \in Seq(X) /\ Len(a \o b) = Len(a) + Len(b)
          /\ \A i \in 1 .. Len(a) + Len(b) : (a \o b)[i] = IF i <= Len(a) THEN a[i] ELSE b[i - Len(a)]
        BY <1>6, <1>7, ConcatProperties
    <2>2. Len(a) + Len(b) = Len(o) - 1
        BY <1>1, <1>6, <1>7
    <2> QED BY <1>6, <2>1, <2>2
<1>9. ASSUME NEW i \in 1 .. Len(o) - 1 PROVE (a \o b)[i] = IF i < k THEN o[i] ELSE o[i + 1]
    <2>1. CASE i < k
        BY <1>1, <1>6, <1>8, <2>1
    <2>2. CASE ~(i < k)
        <3>1. i - (k - 1) \in 1 .. Len(o) - k /\ k + (i - (k - 1)) = i + 1
            BY <1>1, <2>2
        <3> QED BY <1>1, <1>7, <1>8, <2>2, <3>1
    <2> QED BY <2>1, <2>2
<1> QED BY <1>5, <1>8, <1>9

LEMMA RemoveKeeps ==
    ASSUME NEW X, NEW o \in Seq(X), Distinct(o), NEW s
    PROVE  /\ E!RemoveFirst(o, s) \in Seq(X \ {s}) /\ Distinct(E!RemoveFirst(o, s))
           /\ \A S : NoSlot \notin S /\ s \notin S => First(E!RemoveFirst(o, s), S) = First(o, S)
<1> DEFINE q == E!RemoveFirst(o, s)
<1>1. CASE \A i \in 1 .. Len(o) : o[i] # s
    <2>1. q = o
        BY <1>1 DEF E!RemoveFirst
    <2>2. q \in Seq(X \ {s})
        <3>1. q \in [1 .. Len(o) -> X \ {s}] /\ Len(o) \in Nat
            BY <1>1, <2>1
        <3> QED BY <3>1, IsASeq
    <2> QED BY <2>1, <2>2
<1>2. CASE \E i \in 1 .. Len(o) : o[i] = s
    <2>1. PICK k \in 1 .. Len(o) : o[k] = s
        BY <1>2
    <2>2. Len(o) \in Nat /\ \A j \in 1 .. Len(o) : o[j] = s => j = k
        BY <2>1 DEF Distinct
    <2>3. /\ q \in Seq(X) /\ Len(q) = Len(o) - 1
          /\ \A i \in 1 .. Len(o) - 1 : q[i] = IF i < k THEN o[i] ELSE o[i + 1]
        BY <2>1, <2>2, RemoveFirstIs
    <2> HIDE DEF q
    <2>4. \A i \in 1 .. Len(q) : q[i] \in X \ {s}
        BY <2>2, <2>3
    <2>5. q \in Seq(X \ {s})
        <3>1. q \in [1 .. Len(q) -> X \ {s}] /\ Len(q) \in Nat
            BY <2>3, <2>4
        <3> QED BY <3>1, IsASeq
    <2>6. Distinct(q)
        <3> SUFFICES ASSUME NEW i \in 1 .. Len(q), NEW j \in 1 .. Len(q), q[i] = q[j] PROVE i = j
            BY DEF Distinct
        <3>1. /\ i \in 1 .. Len(o) /\ i + 1 \in 1 .. Len(o) /\ j \in 1 .. Len(o) /\ j + 1 \in 1 .. Len(o)
              /\ q[i] = (IF i < k THEN o[i] ELSE o[i + 1]) /\ q[j] = (IF j < k THEN o[j] ELSE o[j + 1])
            BY <2>2, <2>3
        <3> DEFINE from(n) == IF n < k THEN n ELSE n + 1
        <3>2. /\ from(i) \in 1 .. Len(o) /\ from(j) \in 1 .. Len(o)
              /\ o[from(i)] = o[from(j)]
            BY <3>1
        <3>3. from(i) = from(j)
            BY <3>2 DEF Distinct
        <3> QED BY <2>2, <3>3
    <2>7. ASSUME NEW S, NoSlot \notin S, s \notin S PROVE First(q, S) = First(o, S)
        <3>1. CASE \A i \in 1 .. Len(o) : o[i] \notin S
            <4>1. \A i \in 1 .. Len(q) : q[i] \notin S
                BY <2>2, <2>3, <3>1
            <4> QED BY <2>3, <2>7, <3>1, <4>1, FirstFound
        <3>2. CASE \E i \in 1 .. Len(o) : o[i] \in S
            <4>1. PICK i \in 1 .. Len(o) : /\ First(o, S) = o[i] /\ o[i] \in S
                                          /\ \A j \in 1 .. Len(o) : o[j] \in S => i <= j
                BY <3>2, FirstOf
            <4> DEFINE m == IF i < k THEN i ELSE i - 1
            <4>2. i # k /\ m \in 1 .. Len(q) /\ q[m] = o[i]
                BY <2>1, <2>2, <2>3, <2>7, <4>1
            <4> HIDE DEF m
            <4>3. PICK n \in 1 .. Len(q) : /\ First(q, S) = q[n] /\ q[n] \in S
                                          /\ \A j \in 1 .. Len(q) : q[j] \in S => n <= j
                BY <2>3, <4>1, <4>2, FirstOf
            <4>4. n <= m
                BY <4>1, <4>2, <4>3
            <4>5. CASE n < k
                <5>1. q[n] = o[n] /\ n \in 1 .. Len(o)
                    BY <2>2, <2>3, <4>5
                <5>2. i <= n
                    BY <4>1, <4>3, <5>1
                <5>3. n = i
                    BY <2>2, <4>2, <4>4, <4>5, <5>2 DEF m
                <5> QED BY <4>1, <4>3, <5>1, <5>3
            <4>6. CASE n >= k
                <5>1. q[n] = o[n + 1] /\ n + 1 \in 1 .. Len(o)
                    BY <2>2, <2>3, <4>6
                <5>2. i <= n + 1
                    BY <4>1, <4>3, <5>1
                <5>3. n + 1 = i
                    BY <2>2, <4>2, <4>4, <4>6, <5>2 DEF m
                <5> QED BY <4>1, <4>3, <5>1, <5>3
            <4> QED BY <2>2, <4>5, <4>6
        <3> QED BY <3>1, <3>2
    <2> QED BY <2>5, <2>6, <2>7 DEF q
<1> QED BY <1>1, <1>2

----------------------------------------------------------------------------
(* What one write makes of an environment e, for the slot s: the good       *)
(* slots and the next one before and after.                                 *)

Kept(G0, G1, s) == G0 \subseteq Slots /\ G1 \subseteq Slots /\ G1 \ {s} = G0 \ {s}
Refilled(G0, G1, p0, p1, s) == Kept(G0, G1, s) /\ p1 \in {p0, s}
Dropped(G0, G1, p0, p1, s) ==
    /\ Kept(G0, G1, s) /\ s \notin G1 /\ p1 # s
    /\ IF p0 = s THEN p1 \in G1 \cup {NoSlot} ELSE p1 = p0
Chosen(G0, G1, p0, p1, s) == Kept(G0, G1, s) /\ s \in G1 /\ p1 = s

BareboxEnv == [prio : [Slots -> {0, 10, 20}], attempts : [Slots -> Nat]]
BareboxGood(e) == {t \in Slots : B!Good(e, t)}

LEMMA BareboxPrimary ==
    ASSUME NEW e \in BareboxEnv
    PROVE  /\ B!Primary(e) = First(PresetOrder, B!Leading(e))
           /\ B!Leading(e) \subseteq BareboxGood(e) /\ BareboxGood(e) \subseteq Slots
BY DEF B!Primary, First, B!Leading, BareboxGood

LEMMA BareboxLeader ==
    ASSUME NEW e \in BareboxEnv, BareboxGood(e) # {}
    PROVE  B!Leading(e) # {}
<1>1. \A t \in Slots : e.prio[t] \in {0, 10, 20}
    BY DEF BareboxEnv
<1>2. CASE \E t \in BareboxGood(e) : e.prio[t] = 20
    BY <1>1, <1>2 DEF B!Leading, BareboxGood
<1>3. CASE \A t \in BareboxGood(e) : e.prio[t] = 10
    BY <1>1, <1>3 DEF B!Leading, BareboxGood
<1>4. \A t \in BareboxGood(e) : e.prio[t] # 0
    BY <1>1 DEF BareboxGood, B!Good
<1> QED BY <1>1, <1>2, <1>3, <1>4 DEF BareboxGood, B!Leading

\* Without a good slot there is no next one; a next one is good.
LEMMA BareboxNext ==
    ASSUME NEW e \in BareboxEnv
    PROVE  B!Primary(e) \in BareboxGood(e) \/ (B!Primary(e) = NoSlot /\ BareboxGood(e) = {})
<1>1. B!Leading(e) \subseteq Slots
    BY BareboxPrimary
<1> QED BY <1>1, BareboxPrimary, BareboxLeader, FirstIn, CountNat

LEMMA BareboxRefill ==
    ASSUME NEW e \in BareboxEnv, NEW s \in Slots, NEW f \in BareboxEnv, f.prio = e.prio,
           f.attempts[s] > 0, \A t \in Slots \ {s} : f.attempts[t] = e.attempts[t]
    PROVE  Refilled(BareboxGood(e), BareboxGood(f), B!Primary(e), B!Primary(f), s)
<1> DEFINE G0 == BareboxGood(e)
           G1 == BareboxGood(f)
           L0 == B!Leading(e)
           L1 == B!Leading(f)
<1>1. Kept(G0, G1, s) /\ (s \in G0 => s \in G1)
    BY DEF Kept, BareboxGood, B!Good
<1>2. /\ L0 = {t \in G0 : \A r \in G0 : e.prio[r] <= e.prio[t]}
      /\ L1 = {t \in G1 : \A r \in G1 : e.prio[r] <= e.prio[t]}
      /\ \A t \in Slots : e.prio[t] \in Nat
    BY DEF B!Leading, BareboxGood, BareboxEnv
<1> HIDE DEF G0, G1, L0, L1
<1>3. G0 \subseteq Slots /\ G1 \subseteq Slots /\ \A t \in Slots \ {s} : t \in G1 <=> t \in G0
    BY <1>1 DEF Kept
<1>4. L0 \subseteq Slots /\ L1 \subseteq Slots
    BY <1>2, <1>3
<1>5. CASE s \notin L1
    <2>1. L1 = L0
        BY <1>1, <1>2, <1>3, <1>5
    <2> QED BY <1>1, <2>1, BareboxPrimary DEF Refilled, G0, G1, L0, L1
<1>6. CASE L1 = {s}
    <2>1. First(PresetOrder, L1) = s
        BY <1>4, <1>6, FirstIn, CountNat
    <2> QED BY <1>1, <2>1, BareboxPrimary DEF Refilled, G0, G1, L0, L1
<1>7. CASE s \in L1 /\ L1 # {s}
    <2>1. L1 = L0 \cup {s}
        <3>1. PICK r \in L1 : r # s
            BY <1>7
        <3>2. e.prio[r] = e.prio[s] /\ r \in G0
            BY <1>2, <1>3, <1>7, <3>1
        <3> QED BY <1>1, <1>2, <1>3, <1>7, <3>1, <3>2
    <2>2. First(PresetOrder, L1) \in {First(PresetOrder, L0), s}
        BY <1>4, <2>1, FirstWith, CountNat
    <2> QED BY <1>1, <2>2, BareboxPrimary DEF Refilled, G0, G1, L0, L1
<1> QED BY <1>5, <1>6, <1>7

LEMMA BareboxDrop ==
    ASSUME NEW e \in BareboxEnv, NEW s \in Slots, NEW f \in BareboxEnv, f.attempts[s] = 0,
           \A t \in Slots \ {s} : f.attempts[t] = e.attempts[t] /\ f.prio[t] = e.prio[t]
    PROVE  Dropped(BareboxGood(e), BareboxGood(f), B!Primary(e), B!Primary(f), s)
<1> DEFINE G0 == BareboxGood(e)
           G1 == BareboxGood(f)
           L0 == B!Leading(e)
           L1 == B!Leading(f)
<1>1. Kept(G0, G1, s) /\ s \notin G1
    BY DEF Kept, BareboxGood, B!Good
<1>2. /\ L0 = {t \in G0 : \A r \in G0 : e.prio[r] <= e.prio[t]}
      /\ L1 = {t \in G1 : \A r \in G1 : f.prio[r] <= f.prio[t]}
      /\ \A t \in Slots : e.prio[t] \in Nat
    BY DEF B!Leading, BareboxGood, BareboxEnv
<1>3. /\ B!Primary(e) = First(PresetOrder, L0) /\ B!Primary(f) = First(PresetOrder, L1)
      /\ B!Primary(e) \in G0 \/ (B!Primary(e) = NoSlot /\ G0 = {})
      /\ B!Primary(f) \in G1 \/ (B!Primary(f) = NoSlot /\ G1 = {})
    BY BareboxPrimary, BareboxNext
<1> HIDE DEF G0, G1, L0, L1
<1>4. /\ G0 \subseteq Slots /\ G1 = G0 \ {s} /\ NoSlot \notin Slots
      /\ \A t \in G1 : f.prio[t] = e.prio[t]
    BY <1>1, BackendsAssumption DEF Kept
<1>5. B!Primary(f) # s
    BY <1>1, <1>3, <1>4
<1>6. CASE B!Primary(e) = s
    BY <1>1, <1>3, <1>5, <1>6 DEF Dropped, G0, G1
<1>7. CASE B!Primary(e) = NoSlot /\ G0 = {}
    BY <1>1, <1>3, <1>4, <1>5, <1>7 DEF Dropped, G0, G1
<1>8. CASE B!Primary(e) # s /\ B!Primary(e) \in G0
    <2>1. L0 \subseteq Slots /\ B!Primary(e) \in L0
        <3>1. L0 \subseteq Slots
            BY <1>2, <1>4
        <3>2. L0 # {}
            BY <1>8, BareboxLeader DEF L0, G0
        <3> QED BY <1>3, <3>1, <3>2, FirstIn, CountNat
    <2>2. L1 = L0 \ {s}
        BY <1>2, <1>4, <1>8, <2>1
    <2>3. B!Primary(f) = B!Primary(e)
        BY <1>3, <1>8, <2>1, <2>2, FirstStays, CountNat
    <2> QED BY <1>1, <1>5, <1>8, <2>3 DEF Dropped, G0, G1
<1> QED BY <1>3, <1>6, <1>7, <1>8

LEMMA BareboxChoose ==
    ASSUME NEW e \in BareboxEnv, NEW s \in Slots, NEW f \in B!SetPrimary(e, s)
    PROVE  /\ \E g \in BareboxEnv : f = <<g>>
           /\ f[1].prio[s] = 20 /\ f[1].attempts[s] > 0
           /\ \A t \in Slots \ {s} : f[1].prio[t] <= 10
           /\ Kept(BareboxGood(e), BareboxGood(f[1]), s)
<1> DEFINE g == [prio |-> [t \in Slots |-> IF t = s THEN 20 ELSE IF e.prio[t] = 0 THEN 0 ELSE 10],
                 attempts |-> [e.attempts EXCEPT ![s] = PrimaryAttempts]]
<1>1. f = <<g>> /\ f[1] = g
    BY DEF B!SetPrimary, B!PrimaryPriority, B!DefaultPriority
<1>2. g \in BareboxEnv /\ g.prio[s] = 20 /\ g.attempts[s] > 0
    BY Attempting DEF BareboxEnv
<1>3. \A t \in Slots \ {s} : /\ g.prio[t] = (IF e.prio[t] = 0 THEN 0 ELSE 10)
                             /\ g.attempts[t] = e.attempts[t] /\ e.prio[t] \in {0, 10, 20}
    BY DEF BareboxEnv
<1> HIDE DEF g
<1>4. Kept(BareboxGood(e), BareboxGood(g), s)
    BY <1>3 DEF Kept, BareboxGood, B!Good
<1> QED BY <1>1, <1>2, <1>3, <1>4

\* A slot above all others that has attempts is the next one.
LEMMA BareboxTop ==
    ASSUME NEW e \in BareboxEnv, NEW s \in Slots, e.prio[s] = 20, e.attempts[s] > 0,
           \A t \in Slots \ {s} : e.prio[t] <= 10
    PROVE  B!Primary(e) = s /\ s \in BareboxGood(e)
<1>1. B!Leading(e) = {s}
    BY DEF B!Leading, B!Good, BareboxEnv
<1> QED BY <1>1, BareboxPrimary, FirstIn, CountNat

\* Starting a slot takes one of the attempts it has.
LEMMA BareboxStart == ASSUME NEW e \in BareboxEnv, NEW b \in B!Start(e) PROVE b.env \in BareboxEnv
<1>1. CASE B!Leading(e) = {}
    <2>1. b = [env |-> e, slot |-> NoSlot]
        BY <1>1 DEF B!Start
    <2> QED BY <2>1
<1>2. CASE B!Leading(e) # {}
    <2>1. PICK s \in B!Leading(e) :
              b = [env |-> [e EXCEPT !.attempts[s] = e.attempts[s] - 1], slot |-> s]
        BY <1>2, Zenon DEF B!Start
    <2>2. s \in Slots /\ e.attempts[s] > 0 /\ e.attempts[s] \in Nat
        BY DEF B!Leading, B!Good, BareboxEnv
    <2> DEFINE f == [e EXCEPT !.attempts[s] = e.attempts[s] - 1]
    <2>3. f \in BareboxEnv
        BY <2>2 DEF BareboxEnv
    <2> HIDE DEF f
    <2>4. b = [env |-> f, slot |-> s]
        BY <2>1 DEF f
    <2> QED BY <2>3, <2>4
<1> QED BY <1>1, <1>2

----------------------------------------------------------------------------
GrubGood(e) == {t \in Slots : G!GrubGetState(e, t)}

LEMMA GrubOrders == G!Orders = Orders
BY DEF G!Orders, G!SlotCount, Orders, N, Cardinality, G!Cardinality

LEMMA GrubPrimary ==
    ASSUME NEW e \in G!Env
    PROVE  /\ G!GrubGetPrimary(e) = First(e.order, GrubGood(e))
           /\ GrubGood(e) = {t \in Slots : e.ok[t] = "1" /\ e.try[t] = "0"}
           /\ e.order \in Orders
<1>1. e.order \in Orders
    BY GrubOrders DEF G!Env
<1>2. DOMAIN e.order = 1 .. N /\ \A i \in 1 .. N : e.order[i] \in Slots
    BY <1>1 DEF Orders
<1>3. GrubGood(e) = {t \in Slots : e.ok[t] = "1" /\ e.try[t] = "0"}
    BY <1>1, <1>2 DEF GrubGood, G!GrubGetState, Orders
<1>4. {i \in DOMAIN e.order : e.ok[e.order[i]] = "1" /\ e.try[e.order[i]] = "0"}
         = {i \in DOMAIN e.order : e.order[i] \in GrubGood(e)}
    BY <1>2, <1>3
<1>5. G!GrubGetPrimary(e) = First(e.order, GrubGood(e))
    <2> DEFINE good == {i \in DOMAIN e.order : e.ok[e.order[i]] = "1" /\ e.try[e.order[i]] = "0"}
               at == {i \in DOMAIN e.order : e.order[i] \in GrubGood(e)}
               pick(S) == IF S = {} THEN NoSlot ELSE e.order[CHOOSE i \in S : \A j \in S : i <= j]
    <2>1. G!GrubGetPrimary(e) = pick(good)
        BY DEF G!GrubGetPrimary
    <2>2. First(e.order, GrubGood(e)) = pick(at)
        BY DEF First
    <2>3. good = at
        BY <1>4
    <2> HIDE DEF good, at, pick
    <2> QED BY <2>1, <2>2, <2>3
<1> QED BY <1>1, <1>3, <1>5

LEMMA GrubRefill ==
    ASSUME NEW e \in G!Env, NEW s \in Slots
    PROVE  LET f == G!GrubSetState(e, s, TRUE) IN
           /\ f \in G!Env
           /\ f.order = e.order /\ f.ok = [e.ok EXCEPT ![s] = "1"] /\ f.try = [e.try EXCEPT ![s] = "0"]
           /\ Refilled(GrubGood(e), GrubGood(f), G!GrubGetPrimary(e), G!GrubGetPrimary(f), s)
<1> DEFINE f == G!GrubSetState(e, s, TRUE)
<1>1. /\ f \in G!Env /\ f.order = e.order
      /\ f.ok = [e.ok EXCEPT ![s] = "1"] /\ f.try = [e.try EXCEPT ![s] = "0"]
    BY DEF G!GrubSetState, G!Env, G!Flag
<1> HIDE DEF f
<1>2. GrubGood(f) = GrubGood(e) \cup {s}
    BY <1>1, GrubPrimary DEF G!Env
<1>3. GrubGood(e) \subseteq Slots
    BY GrubPrimary
<1>4. G!GrubGetPrimary(f) \in {G!GrubGetPrimary(e), s}
    BY <1>1, <1>2, <1>3, GrubPrimary, FirstWith
<1>5. Refilled(GrubGood(e), GrubGood(f), G!GrubGetPrimary(e), G!GrubGetPrimary(f), s)
    BY <1>2, <1>3, <1>4 DEF Refilled, Kept
<1> QED BY <1>1, <1>5 DEF f

LEMMA GrubDrop ==
    ASSUME NEW e \in G!Env, NEW s \in Slots
    PROVE  LET f == G!GrubSetState(e, s, FALSE) IN
           /\ f \in G!Env
           /\ f.order = e.order /\ f.ok = [e.ok EXCEPT ![s] = "0"] /\ f.try = [e.try EXCEPT ![s] = "0"]
           /\ Dropped(GrubGood(e), GrubGood(f), G!GrubGetPrimary(e), G!GrubGetPrimary(f), s)
<1> DEFINE f == G!GrubSetState(e, s, FALSE)
           p0 == G!GrubGetPrimary(e)
           p1 == G!GrubGetPrimary(f)
<1>1. /\ f \in G!Env /\ f.order = e.order
      /\ f.ok = [e.ok EXCEPT ![s] = "0"] /\ f.try = [e.try EXCEPT ![s] = "0"]
    BY DEF G!GrubSetState, G!Env, G!Flag
<1> HIDE DEF f
<1>2. GrubGood(f) = GrubGood(e) \ {s}
    BY <1>1, GrubPrimary DEF G!Env
<1>3. /\ GrubGood(e) \subseteq Slots /\ e.order \in Orders /\ NoSlot \notin Slots
      /\ p0 = First(e.order, GrubGood(e)) /\ p1 = First(e.order, GrubGood(f))
    BY <1>1, GrubPrimary, BackendsAssumption
<1> HIDE DEF p0, p1
<1>4. /\ p0 \in GrubGood(e) \/ (p0 = NoSlot /\ GrubGood(e) = {})
      /\ p1 \in GrubGood(f) \/ (p1 = NoSlot /\ GrubGood(f) = {})
    BY <1>2, <1>3, FirstIn
<1>5. p0 # s => p1 = p0
    BY <1>2, <1>3, <1>4, FirstStays
<1>6. Dropped(GrubGood(e), GrubGood(f), p0, p1, s)
    BY <1>2, <1>3, <1>4, <1>5 DEF Dropped, Kept
<1> QED BY <1>1, <1>6 DEF f, p0, p1

\* A slot at the head of ORDER that is good is the next one.
LEMMA GrubTop ==
    ASSUME NEW e \in G!Env, NEW s \in Slots, e.order[1] = s, e.ok[s] = "1", e.try[s] = "0"
    PROVE  G!GrubGetPrimary(e) = s /\ s \in GrubGood(e)
<1>1. s \in GrubGood(e) /\ GrubGood(e) \subseteq Slots /\ e.order \in Orders
    BY GrubPrimary
<1>2. PICK i \in 1 .. N : /\ First(e.order, GrubGood(e)) = e.order[i]
                          /\ \A j \in 1 .. N : e.order[j] \in GrubGood(e) => i <= j
    BY <1>1, FirstFacts
<1>3. i = 1
    BY <1>1, <1>2, CountNat
<1> QED BY <1>1, <1>2, <1>3, GrubPrimary

LEMMA GrubChoose ==
    ASSUME NEW e \in G!Env, NEW s \in Slots, NEW f \in G!GrubSetPrimary(e, s)
    PROVE  /\ f \in G!Env /\ f.order[1] = s /\ f.ok[s] = "1" /\ f.try[s] = "0"
           /\ Kept(GrubGood(e), GrubGood(f), s)
<1>1. /\ f \in G!Env /\ f.order[1] = s
      /\ f.ok = [e.ok EXCEPT ![s] = "1"] /\ f.try = [e.try EXCEPT ![s] = "0"]
    BY DEF G!GrubSetPrimary, G!OrdersWithPrimary, G!Env, G!Flag
<1>2. GrubGood(f) = GrubGood(e) \cup {s}
    BY <1>1, GrubPrimary DEF G!Env
<1>3. GrubGood(e) \subseteq Slots
    BY GrubPrimary
<1> QED BY <1>1, <1>2, <1>3 DEF Kept, G!Env

\* What save_env writes is an environment.
LEMMA GrubSaved == ASSUME NEW e \in G!Env PROVE G!SavedEnv(e) \in G!Env
<1> DEFINE l == G!LoadEnv(e)
           b == G!Fallback(l)
           m == G!MarkTried(b)
<1>1. /\ e.order \in G!Orders /\ e.ok \in [Slots -> G!Flag] /\ e.try \in [Slots -> G!Flag]
    BY DEF G!Env
<1>2. /\ l.order = e.order /\ l.ok \in [Slots -> G!Flag] /\ l.try \in [Slots -> G!Flag]
    BY <1>1 DEF G!LoadEnv
<1>3. PresetOrder \in G!Orders
    BY CountNat, GrubOrders
<1> HIDE DEF l
<1>4. b \in G!Env
    BY <1>1, <1>2, <1>3 DEF G!Fallback, G!Env, G!Flag
<1> HIDE DEF b
<1>5. m \in G!Env
    BY <1>4 DEF G!MarkTried, G!Env, G!Flag
<1> HIDE DEF m
<1>6. G!ResetBooted(m, G!Choice(b)) \in G!Env
    BY <1>5 DEF G!ResetBooted, G!Env, G!Flag
<1> QED BY <1>6 DEF G!SavedEnv, l, b, m

----------------------------------------------------------------------------
(* The loaders that keep an order from which slots are taken.               *)

Listed(o) == {t \in Slots : \E i \in 1 .. Len(o) : o[i] = t}
\* q is what remains of o without s.
Cut(o, q, s) ==
    /\ \E X : o \in Seq(X) /\ q \in Seq(X \ {s})
    /\ \A S : NoSlot \notin S /\ s \notin S => First(q, S) = First(o, S)

LEMMA ListedIs ==
    ASSUME NEW X, NEW o \in Seq(X), NEW t \in Slots
    PROVE  t \in Listed(o) <=> First(o, {t}) = t
BY FirstFound, BackendsAssumption DEF Listed

LEMMA FirstListed ==
    ASSUME NEW X, NEW o \in Seq(X), NEW S, S \subseteq Slots
    PROVE  First(o, S) \in (S \cap Listed(o)) \cup {NoSlot}
BY FirstOf DEF Listed

LEMMA CutDrops ==
    ASSUME NEW o, NEW q, NEW s \in Slots, Cut(o, q, s), NEW S, S \subseteq Slots
    PROVE  /\ Listed(q) = Listed(o) \ {s}
           /\ First(q, S) \in ((S \cap Listed(o)) \ {s}) \cup {NoSlot}
           /\ First(o, S) # s => First(q, S) = First(o, S)
<1>1. PICK X : o \in Seq(X) /\ q \in Seq(X \ {s})
    BY DEF Cut
<1>2. NoSlot \notin Slots
    BY BackendsAssumption
<1>3. s \notin Listed(q)
    BY <1>1 DEF Listed
<1>4. \A t \in Slots \ {s} : t \in Listed(q) <=> t \in Listed(o)
    BY <1>1, <1>2, ListedIs DEF Cut
<1>5. Listed(q) = Listed(o) \ {s}
    BY <1>3, <1>4 DEF Listed
<1>6. First(q, S) \in (S \cap Listed(q)) \cup {NoSlot}
    BY <1>1, FirstListed
<1>7. First(q, S \ {s}) = First(q, S)
    <2>1. First(q, S) \in (S \ {s}) \cup {NoSlot} /\ NoSlot \notin S
        BY <1>2, <1>5, <1>6
    <2> QED BY <1>1, <2>1, FirstLess
<1>8. First(q, S \ {s}) = First(o, S \ {s})
    BY <1>2 DEF Cut
<1>9. ASSUME First(o, S) # s PROVE First(o, S \ {s}) = First(o, S)
    <2>1. First(o, S) \in (S \ {s}) \cup {NoSlot} /\ NoSlot \notin S
        BY <1>1, <1>2, <1>9, FirstListed
    <2> QED BY <1>1, <2>1, FirstLess
<1> QED BY <1>5, <1>6, <1>7, <1>8, <1>9

\* The head of an order is still its head when another slot is taken out.
LEMMA CutHead ==
    ASSUME NEW o \in Seq(Slots), NEW q \in Seq(Slots), NEW s \in Slots, Cut(o, q, s),
           o # <<>>, o[1] # s
    PROVE  q # <<>> /\ q[1] = o[1]
<1> DEFINE R == Slots \ {s}
<1>1. NoSlot \notin Slots /\ 1 \in 1 .. Len(o) /\ o[1] \in R
    BY BackendsAssumption
<1>2. First(o, R) = o[1]
    <2>1. PICK i \in 1 .. Len(o) : /\ First(o, R) = o[i]
                                  /\ \A j \in 1 .. Len(o) : o[j] \in R => i <= j
        BY <1>1, FirstOf
    <2> QED BY <1>1, <2>1
<1>3. First(q, R) = o[1]
    BY <1>1, <1>2 DEF Cut
<1>4. PICK X : q \in Seq(X \ {s})
    BY DEF Cut
<1>5. PICK i \in 1 .. Len(q) : /\ First(q, R) = q[i]
                              /\ \A j \in 1 .. Len(q) : q[j] \in R => i <= j
    BY <1>1, <1>3, FirstOf
<1>6. 1 \in 1 .. Len(q) /\ q[1] \in R
    BY <1>4, <1>5
<1>7. i = 1
    BY <1>5, <1>6
<1> QED BY <1>3, <1>5, <1>6, <1>7

UBootEnv == [order : Seq(Slots), left : [Slots -> Nat]]
UBootGood(e) == {t \in Slots : U!Good(e, t)}
Charged(e) == {t \in Slots : e.left[t] > 0}

LEMMA UBootCut ==
    ASSUME NEW o \in Seq(Slots), NEW s \in Slots
    PROVE  U!Without(o, s) \in Seq(Slots) /\ Cut(o, U!Without(o, s), s)
<1>1. U!Without(o, s) \in Seq(Slots \ {s})
    BY WithoutKeeps
<1>2. Cut(o, U!Without(o, s), s)
    BY <1>1, WithoutKeeps DEF Cut
<1>3. U!Without(o, s) \in Seq(Slots)
    BY <1>1, SeqMonotonic
<1> QED BY <1>2, <1>3

LEMMA UBootPrimary ==
    ASSUME NEW e \in UBootEnv
    PROVE  /\ U!Primary(e) = First(e.order, Charged(e))
           /\ UBootGood(e) = Charged(e) \cap Listed(e.order)
           /\ U!Primary(e) \in UBootGood(e) \cup {NoSlot}
           /\ Charged(e) \subseteq Slots /\ e.order \in Seq(Slots)
<1>1. e.order \in Seq(Slots) /\ Charged(e) \subseteq Slots
    BY DEF UBootEnv, Charged
<1>2. UBootGood(e) = Charged(e) \cap Listed(e.order)
    BY DEF UBootGood, U!Good, U!Contains, Charged, Listed
<1>3. U!Primary(e) = First(e.order, Charged(e))
    <2> DEFINE usable == {i \in DOMAIN e.order : e.left[e.order[i]] > 0}
               at == {i \in DOMAIN e.order : e.order[i] \in Charged(e)}
               pick(S) == IF S = {} THEN NoSlot ELSE e.order[CHOOSE i \in S : \A j \in S : i <= j]
    <2>1. U!Primary(e) = pick(usable)
        BY DEF U!Primary
    <2>2. First(e.order, Charged(e)) = pick(at)
        BY DEF First
    <2>3. usable = at
        BY <1>1 DEF Charged
    <2> HIDE DEF usable, at, pick
    <2> QED BY <2>1, <2>2, <2>3
<1> QED BY <1>1, <1>2, <1>3, FirstListed

\* uboot_env_set of a slot's counter.
LEMMA UBootFills ==
    ASSUME NEW e \in UBootEnv, NEW s \in Slots, NEW n \in Nat
    PROVE  LET f == U!SetLeft(e, s, n) IN
           /\ f \in UBootEnv /\ f.order = e.order /\ f.left[s] = n
           /\ \A t \in Slots \ {s} : f.left[t] = e.left[t]
           /\ n > 0 => Refilled(UBootGood(e), UBootGood(f), U!Primary(e), U!Primary(f), s)
           /\ n = 0 => Dropped(UBootGood(e), UBootGood(f), U!Primary(e), U!Primary(f), s)
<1> DEFINE f == U!SetLeft(e, s, n)
<1>1. /\ f \in UBootEnv /\ f.order = e.order /\ f.left[s] = n
      /\ \A t \in Slots \ {s} : f.left[t] = e.left[t]
    BY DEF U!SetLeft, UBootEnv
<1> HIDE DEF f
<1>2. NoSlot \notin Slots
    BY BackendsAssumption
<1>3. CASE n > 0
    <2>1. Charged(f) = Charged(e) \cup {s}
        BY <1>1, <1>3 DEF Charged
    <2>2. NoSlot \notin Charged(e) \cup {s}
        BY <1>2, UBootPrimary
    <2>3. First(e.order, Charged(e) \cup {s}) \in {First(e.order, Charged(e)), s}
        BY <2>2, UBootPrimary, FirstMore
    <2>4. U!Primary(f) \in {U!Primary(e), s}
        BY <1>1, <2>1, <2>3, UBootPrimary
    <2>5. Refilled(UBootGood(e), UBootGood(f), U!Primary(e), U!Primary(f), s)
        BY <1>1, <2>1, <2>4, UBootPrimary DEF Refilled, Kept
    <2> QED BY <1>1, <1>3, <2>5 DEF f
<1>4. CASE n = 0
    <2>1. Charged(f) = Charged(e) \ {s}
        BY <1>1, <1>4 DEF Charged
    <2>2. UBootGood(f) = UBootGood(e) \ {s} /\ UBootGood(e) \subseteq Slots
        BY <1>1, <2>1, UBootPrimary
    <2>3. ASSUME U!Primary(e) # s PROVE U!Primary(f) = U!Primary(e)
        <3>1. First(e.order, Charged(e)) \in Charged(f) \cup {NoSlot}
            BY <2>1, <2>3, UBootPrimary
        <3>2. NoSlot \notin Charged(e) /\ Charged(f) \subseteq Charged(e)
            BY <1>2, <2>1, UBootPrimary
        <3>3. First(e.order, Charged(f)) = First(e.order, Charged(e))
            BY <3>1, <3>2, UBootPrimary, FirstLess
        <3> QED BY <1>1, <3>3, UBootPrimary
    <2>4. U!Primary(f) \in UBootGood(f) \cup {NoSlot}
        BY <1>1, UBootPrimary
    <2>5. Dropped(UBootGood(e), UBootGood(f), U!Primary(e), U!Primary(f), s)
        BY <1>2, <2>2, <2>3, <2>4 DEF Dropped, Kept
    <2> QED BY <1>1, <1>4, <2>5 DEF f
<1> QED BY <1>3, <1>4

\* uboot_env_set of the order, without the slot or with it in front.
LEMMA UBootDrops ==
    ASSUME NEW e \in UBootEnv, NEW s \in Slots
    PROVE  LET f == U!SetOrder(e, U!Without(e.order, s)) IN
           /\ f \in UBootEnv /\ f.order = U!Without(e.order, s) /\ f.left = e.left
           /\ Dropped(UBootGood(e), UBootGood(f), U!Primary(e), U!Primary(f), s)
<1> DEFINE q == U!Without(e.order, s)
           f == U!SetOrder(e, q)
<1>1. q \in Seq(Slots) /\ Cut(e.order, q, s)
    BY UBootPrimary, UBootCut
<1> HIDE DEF q
<1>2. f \in UBootEnv /\ f.order = q /\ f.left = e.left
    BY <1>1 DEF U!SetOrder, UBootEnv
<1> HIDE DEF f
<1>3. Charged(f) = Charged(e)
    BY <1>2 DEF Charged
<1>4. /\ Listed(q) = Listed(e.order) \ {s}
      /\ First(e.order, Charged(e)) # s => First(q, Charged(e)) = First(e.order, Charged(e))
    BY <1>1, CutDrops, UBootPrimary
<1>5. UBootGood(f) = UBootGood(e) \ {s} /\ UBootGood(e) \subseteq Slots
    BY <1>2, <1>3, <1>4, UBootPrimary
<1>6. U!Primary(e) # s => U!Primary(f) = U!Primary(e)
    BY <1>2, <1>3, <1>4, UBootPrimary
<1>7. U!Primary(f) \in UBootGood(f) \cup {NoSlot}
    BY <1>2, UBootPrimary
<1>8. Dropped(UBootGood(e), UBootGood(f), U!Primary(e), U!Primary(f), s)
    BY <1>5, <1>6, <1>7, BackendsAssumption DEF Dropped, Kept
<1> QED BY <1>2, <1>8 DEF f, q

LEMMA UBootRaises ==
    ASSUME NEW e \in UBootEnv, NEW s \in Slots, e.left[s] > 0, NEW o \in {PresetOrder, e.order}
    PROVE  LET f == U!SetOrder(e, <<s>> \o U!Without(o, s)) IN
           /\ f \in UBootEnv /\ f.left = e.left /\ f.order # <<>> /\ f.order[1] = s
           /\ UBootGood(e) \ {s} \subseteq UBootGood(f)
           /\ U!Primary(f) = s /\ s \in UBootGood(f)
<1> DEFINE q == U!Without(o, s)
           p == <<s>> \o q
           f == U!SetOrder(e, p)
<1>1. PresetOrder \in Seq(Slots) /\ Listed(PresetOrder) = Slots
    <2>1. N \in Nat /\ PresetOrder \in [1 .. N -> Slots]
        BY CountNat, BackendsAssumption DEF N
    <2>2. PresetOrder \in Seq(Slots) /\ Len(PresetOrder) = N
        BY <2>1, IsASeq
    <2> QED BY <2>1, <2>2, BackendsAssumption DEF Listed
<1>2. o \in Seq(Slots) /\ Listed(e.order) \subseteq Listed(o)
    BY <1>1, UBootPrimary DEF Listed
<1>3. q \in Seq(Slots) /\ Listed(q) = Listed(o) \ {s}
    BY <1>2, UBootCut, CutDrops
<1> HIDE DEF q
<1>4. /\ p \in Seq(Slots) /\ Len(p) = Len(q) + 1 /\ p[1] = s /\ Len(q) \in Nat
      /\ \A i \in 1 .. Len(q) : p[i + 1] = q[i]
      /\ \A S : s \in S => First(p, S) = s
    BY <1>3, FirstAhead
<1> HIDE DEF p
<1>5. p # <<>> /\ Listed(q) \subseteq Listed(p) /\ s \in Listed(p)
    BY <1>4 DEF Listed
<1>6. f \in UBootEnv /\ f.order = p /\ f.left = e.left
    BY <1>4 DEF U!SetOrder, UBootEnv
<1> HIDE DEF f
<1>7. s \in Charged(e) /\ Charged(f) = Charged(e)
    BY <1>6 DEF Charged
<1>8. UBootGood(e) \ {s} \subseteq UBootGood(f) /\ s \in UBootGood(f) /\ U!Primary(f) = s
    BY <1>2, <1>3, <1>4, <1>5, <1>6, <1>7, UBootPrimary
<1> QED BY <1>4, <1>5, <1>6, <1>8 DEF f, p, q

----------------------------------------------------------------------------
(* EFI: b is whether BootNext is used for an activation.                    *)

EfiEnv(b) ==
    {e \in [entries : SUBSET E!Names, order : Seq(E!Names), next : Slots \cup {NoSlot}] :
        Distinct(e.order) /\ (e.next # NoSlot => b)}
EfiGood(e) == {t \in Slots : E!Good(e, t)}

LEMMA EfiPrimary ==
    ASSUME NEW b \in BOOLEAN, NEW e \in EfiEnv(b)
    PROVE  /\ E!Primary(e) = IF e.order = <<>> THEN NoSlot
                             ELSE IF e.next # NoSlot THEN e.next ELSE First(e.order, Slots)
           /\ EfiGood(e) = Listed(e.order)
           /\ First(e.order, Slots) \in EfiGood(e) \cup {NoSlot}
           /\ e.order \in Seq(E!Names) /\ Slots \subseteq E!Names
<1>1. e.order \in Seq(E!Names) /\ Slots \subseteq E!Names /\ e.next \in Slots \cup {NoSlot}
    BY DEF EfiEnv, E!Names
<1>2. EfiGood(e) = Listed(e.order)
    BY DEF EfiGood, E!Good, E!Contains, Listed
<1>3. First(e.order, Slots) \in EfiGood(e) \cup {NoSlot}
    BY <1>1, <1>2, FirstListed
<1> DEFINE list == (IF e.next = NoSlot THEN <<>> ELSE <<e.next>>) \o e.order
<1>4. E!Primary(e) = IF e.order = <<>> THEN NoSlot ELSE First(list, Slots)
    <2>1. E!Primary(e) = LET at == {i \in DOMAIN list : list[i] \in Slots}
                         IN  IF ~(e.order # <<>>) \/ at = {} THEN NoSlot
                             ELSE list[CHOOSE i \in at : \A j \in at : i <= j]
        BY DEF E!Primary, E!Readable
    <2> HIDE DEF list
    <2> QED BY <2>1 DEF First
<1>5. CASE e.next = NoSlot
    <2>1. list = e.order
        BY <1>1, <1>5, ConcatEmptySeq
    <2> QED BY <1>1, <1>2, <1>3, <1>4, <1>5, <2>1
<1>6. CASE e.next # NoSlot
    <2>1. list = <<e.next>> \o e.order /\ e.next \in Slots
        BY <1>1, <1>6
    <2> HIDE DEF list
    <2>2. First(list, Slots) = e.next
        BY <1>1, <2>1, FirstAhead
    <2> QED BY <1>1, <1>2, <1>3, <1>4, <1>6, <2>2
<1> QED BY <1>5, <1>6

LEMMA EfiCut ==
    ASSUME NEW b \in BOOLEAN, NEW e \in EfiEnv(b), NEW s
    PROVE  LET q == E!RemoveFirst(e.order, s) IN
           /\ q \in Seq(E!Names) /\ q \in Seq(E!Names \ {s}) /\ Distinct(q) /\ Cut(e.order, q, s)
<1>1. e.order \in Seq(E!Names) /\ Distinct(e.order)
    BY DEF EfiEnv
<1>2. E!RemoveFirst(e.order, s) \in Seq(E!Names \ {s}) /\ Distinct(E!RemoveFirst(e.order, s))
    BY <1>1, RemoveKeeps
<1>3. Cut(e.order, E!RemoveFirst(e.order, s), s)
    BY <1>1, <1>2, RemoveKeeps DEF Cut
<1>4. E!RemoveFirst(e.order, s) \in Seq(E!Names)
    BY <1>2, SeqMonotonic
<1> QED BY <1>2, <1>3, <1>4

\* A slot marked bad is taken out of BootOrder.
LEMMA EfiDrops ==
    ASSUME NEW b \in BOOLEAN, NEW e \in EfiEnv(b), NEW s \in Slots
    PROVE  LET f == [e EXCEPT !.order = E!RemoveFirst(e.order, s)] IN
           /\ f \in EfiEnv(b) /\ f.next = e.next /\ f.order = E!RemoveFirst(e.order, s)
           /\ EfiGood(f) = EfiGood(e) \ {s}
           /\ First(f.order, Slots) \in EfiGood(f) \cup {NoSlot}
           /\ First(e.order, Slots) # s => First(f.order, Slots) = First(e.order, Slots)
<1> DEFINE q == E!RemoveFirst(e.order, s)
           f == [e EXCEPT !.order = q]
<1>1. q \in Seq(E!Names) /\ Distinct(q) /\ Cut(e.order, q, s)
    BY EfiCut
<1> HIDE DEF q
<1>2. f \in EfiEnv(b) /\ f.next = e.next /\ f.order = q
    BY <1>1 DEF EfiEnv
<1> HIDE DEF f
<1>3. /\ Listed(q) = Listed(e.order) \ {s}
      /\ First(e.order, Slots) # s => First(q, Slots) = First(e.order, Slots)
    <2> DEFINE o == e.order
    <2>1. PICK S : S = Slots
        OBVIOUS
    <2>2. Cut(o, q, s) /\ S \subseteq Slots
        BY <1>1, <2>1
    <2> HIDE DEF o
    <2>3. Listed(q) = Listed(o) \ {s} /\ (First(o, S) # s => First(q, S) = First(o, S))
        BY <2>2, CutDrops
    <2> QED BY <2>1, <2>3 DEF o
<1> QED BY <1>2, <1>3, EfiPrimary DEF f, q

\* A slot that is prepended to BootOrder is the first of it.
LEMMA EfiRaises ==
    ASSUME NEW b \in BOOLEAN, NEW e \in EfiEnv(b), NEW s \in Slots
    PROVE  LET f == [e EXCEPT !.order = <<s>> \o E!RemoveFirst(e.order, s)] IN
           /\ f \in EfiEnv(b) /\ f.next = e.next /\ f.order # <<>>
           /\ EfiGood(f) = EfiGood(e) \cup {s}
           /\ First(f.order, Slots) = s
<1> DEFINE q == E!RemoveFirst(e.order, s)
           p == <<s>> \o q
           f == [e EXCEPT !.order = p]
<1>1. q \in Seq(E!Names) /\ q \in Seq(E!Names \ {s}) /\ Distinct(q) /\ Cut(e.order, q, s) /\ s \in E!Names
    BY EfiCut, EfiPrimary
<1> HIDE DEF q
<1>2. /\ p \in Seq(E!Names) /\ Len(p) = Len(q) + 1 /\ p[1] = s /\ Len(q) \in Nat
      /\ \A i \in 1 .. Len(q) : p[i + 1] = q[i]
      /\ First(p, Slots) = s
    BY <1>1, FirstAhead
<1> HIDE DEF p
<1>3. \A i \in 2 .. Len(p) : p[i] = q[i - 1] /\ i - 1 \in 1 .. Len(q) /\ p[i] # s
    <2> TAKE i \in 2 .. Len(p)
    <2>1. i - 1 \in 1 .. Len(q) /\ (i - 1) + 1 = i
        BY <1>2
    <2>2. p[(i - 1) + 1] = q[i - 1]
        BY <1>2, <2>1
    <2>3. q[i - 1] # s
        BY <1>1, <2>1
    <2> QED BY <2>1, <2>2, <2>3
<1>4. Distinct(p)
    <2> SUFFICES ASSUME NEW i \in 1 .. Len(p), NEW j \in 1 .. Len(p), p[i] = p[j] PROVE i = j
        BY DEF Distinct
    <2>1. CASE i = 1
        BY <1>2, <1>3, <2>1
    <2>2. CASE j = 1
        BY <1>2, <1>3, <2>2
    <2>3. CASE i # 1 /\ j # 1
        <3>1. i \in 2 .. Len(p) /\ j \in 2 .. Len(p)
            BY <1>2, <2>3
        <3>2. q[i - 1] = q[j - 1] /\ i - 1 \in 1 .. Len(q) /\ j - 1 \in 1 .. Len(q)
            BY <1>3, <3>1
        <3>3. i - 1 = j - 1
            BY <1>1, <3>2 DEF Distinct
        <3> QED BY <3>3
    <2> QED BY <2>1, <2>2, <2>3
<1>5. Listed(p) = Listed(q) \cup {s}
    <2>1. 1 \in 1 .. Len(p) /\ \A i \in 1 .. Len(q) : i + 1 \in 1 .. Len(p)
        BY <1>2
    <2>2. \A i \in 1 .. Len(p) : i = 1 \/ i \in 2 .. Len(p)
        BY <1>2
    <2>3. \A t \in Listed(p) : t = s \/ t \in Listed(q)
        BY <1>2, <1>3, <2>2 DEF Listed
    <2>4. \A t \in Listed(q) : t \in Listed(p)
        BY <1>2, <2>1 DEF Listed
    <2>5. s \in Listed(p) /\ Listed(p) \subseteq Slots /\ Listed(q) \subseteq Slots
        BY <1>2, <2>1 DEF Listed
    <2> QED BY <2>3, <2>4, <2>5
<1>6. f \in EfiEnv(b) /\ f.next = e.next /\ f.order = p /\ p # <<>>
    BY <1>2, <1>4 DEF EfiEnv
<1> HIDE DEF f
<1>7. Listed(q) = Listed(e.order) \ {s}
    BY <1>1, CutDrops
<1>8. EfiGood(f) = EfiGood(e) \cup {s}
    BY <1>5, <1>6, <1>7, EfiPrimary
<1> QED BY <1>2, <1>6, <1>8 DEF f, p, q

\* The boot entries a machine leaves the factory with.
LEMMA EfiBlank == ASSUME NEW b \in BOOLEAN PROVE E!Blank \subseteq EfiEnv(b)
<1> DEFINE all == <<Foreign>> \o PresetOrder
<1>1. /\ N \in Nat /\ PresetOrder \in [1 .. N -> Slots] /\ PresetOrder \in Seq(Slots)
      /\ Len(PresetOrder) = N /\ Foreign \notin Slots /\ Foreign \in E!Names /\ Slots \subseteq E!Names
    BY CountNat, BackendsAssumption, IsASeq DEF N, E!Names
<1>2. \A i, j \in 1 .. N : PresetOrder[i] = PresetOrder[j] => i = j
    <2>1. PresetOrder \in Surjection(1 .. N, Slots)
        BY <1>1, BackendsAssumption DEF Surjection
    <2>2. IsFiniteSet(1 .. N) /\ Cardinality(1 .. N) = N
        BY <1>1, FS_Interval
    <2>3. PresetOrder \in Injection(1 .. N, Slots)
        BY <2>1, <2>2, FS_Surjection DEF N
    <2> QED BY <2>3 DEF Injection, IsInjective
<1>3. /\ all \in Seq(E!Names) /\ Len(all) = N + 1 /\ all[1] = Foreign
      /\ \A i \in 1 .. N : all[i + 1] = PresetOrder[i]
    <2>1. PresetOrder \in Seq(E!Names)
        BY <1>1, SeqMonotonic
    <2> QED BY <1>1, <2>1, FirstAhead
<1> HIDE DEF all
<1>4. \A i \in 2 .. Len(all) : all[i] = PresetOrder[i - 1] /\ i - 1 \in 1 .. N /\ all[i] # Foreign
    <2> TAKE i \in 2 .. Len(all)
    <2>1. i - 1 \in 1 .. N /\ (i - 1) + 1 = i
        BY <1>1, <1>3
    <2>2. all[(i - 1) + 1] = PresetOrder[i - 1] /\ PresetOrder[i - 1] \in Slots
        BY <1>1, <1>3, <2>1
    <2> QED BY <1>1, <2>1, <2>2
<1>5. Distinct(all)
    <2> SUFFICES ASSUME NEW i \in 1 .. Len(all), NEW j \in 1 .. Len(all), all[i] = all[j] PROVE i = j
        BY DEF Distinct
    <2>1. CASE i = 1
        BY <1>1, <1>3, <1>4, <2>1
    <2>2. CASE j = 1
        BY <1>1, <1>3, <1>4, <2>2
    <2>3. CASE i # 1 /\ j # 1
        <3>1. i \in 2 .. Len(all) /\ j \in 2 .. Len(all)
            BY <1>1, <1>3, <2>3
        <3>2. i - 1 = j - 1
            BY <1>2, <1>4, <3>1
        <3> QED BY <3>2
    <2> QED BY <2>1, <2>2, <2>3
<1>6. ASSUME NEW n PROVE [entries |-> E!Names \ {n}, order |-> E!RemoveFirst(all, n), next |-> NoSlot] \in EfiEnv(b)
    <2>1. E!RemoveFirst(all, n) \in Seq(E!Names \ {n}) /\ Distinct(E!RemoveFirst(all, n))
        BY <1>3, <1>5, RemoveKeeps
    <2>2. E!RemoveFirst(all, n) \in Seq(E!Names)
        BY <2>1, SeqMonotonic
    <2> QED BY <2>1, <2>2 DEF EfiEnv
<1> QED BY <1>6 DEF E!Blank, all

----------------------------------------------------------------------------
(* All loaders at once: l is the loader, b whether it is EFI with BootNext, *)
(* and e its environment.                                                   *)

Known == {"uboot", "barebox", "efi", "grub"}
OneWrite == {"barebox", "grub"}
Config(l, b) == l \in Known /\ b \in BOOLEAN /\ (b => l = "efi")

EnvsOf(l, b) ==
    CASE l = "uboot"   -> UBootEnv
      [] l = "barebox" -> BareboxEnv
      [] l = "efi"     -> EfiEnv(b)
      [] l = "grub"    -> G!Env
PrimaryOf(l, e) ==
    CASE l = "uboot"   -> U!Primary(e)
      [] l = "barebox" -> B!Primary(e)
      [] l = "efi"     -> E!Primary(e)
      [] l = "grub"    -> G!GrubGetPrimary(e)
GoodOf(l, e) ==
    CASE l = "uboot"   -> UBootGood(e)
      [] l = "barebox" -> BareboxGood(e)
      [] l = "efi"     -> EfiGood(e)
      [] l = "grub"    -> GrubGood(e)
WritesOf(l, b, e, op, s) ==
    IF op = "active"
    THEN CASE l = "uboot"   -> U!SetPrimary(e, s)
           [] l = "barebox" -> B!SetPrimary(e, s)
           [] l = "efi"     -> E!SetPrimary(e, s, b)
           [] l = "grub"    -> {<<f>> : f \in G!GrubSetPrimary(e, s)}
    ELSE CASE l = "uboot"   -> U!SetState(e, s, op = "good")
           [] l = "barebox" -> B!SetState(e, s, op = "good")
           [] l = "efi"     -> E!SetState(e, s, op = "good")
           [] l = "grub"    -> {<<G!GrubSetState(e, s, op = "good")>>}
\* Why a slot stays the next one until another is chosen or it is dropped.
Top(l, b, e, s) ==
    CASE l = "uboot"   -> e.order # <<>> /\ e.order[1] = s /\ e.left[s] > 0
      [] l = "barebox" -> e.prio[s] = 20 /\ e.attempts[s] > 0 /\ \A t \in Slots \ {s} : e.prio[t] <= 10
      [] l = "efi"     -> e.order = <<>> \/ (IF b THEN e.next = s ELSE First(e.order, Slots) = s)
      [] l = "grub"    -> e.order[1] = s /\ e.ok[s] = "1" /\ e.try[s] = "0"
Effect(op, G0, G1, p0, p1, s) ==
    /\ op = "active" => Chosen(G0, G1, p0, p1, s)
    /\ op = "good" => Refilled(G0, G1, p0, p1, s)
    /\ op = "bad" => Dropped(G0, G1, p0, p1, s)

\* One write of a call, and its last one, as BootSelection has them.
Worked(l, b, op, G0, G1, p0, p1, s) ==
    /\ G1 \subseteq Slots
    /\ IF l = "uboot" THEN G0 \ {s} \subseteq G1 ELSE G1 \ {s} = G0 \ {s}
    /\ \/ op # "bad" /\ p1 \in {p0, s}
       \/ op = "bad" /\ p1 = p0
       \/ op = "bad" /\ p0 = s /\ p1 \in (G0 \ {s}) \cup {NoSlot}
       \/ op = "bad" /\ b /\ G1 = {} /\ p1 = NoSlot
Finished(b, op, G1, p1, s) ==
    /\ op = "active" => p1 = s /\ (b \/ s \in G1)
    /\ op = "bad" => s \notin G1 /\ (b \/ p1 # s)
Displaced(l, b, op, s, p) ==
    \/ op = "active" /\ s # p
    \/ op = "bad" /\ s = p
    \/ op = "good" /\ s # p /\ l = "efi" /\ ~b

StepTo(l, b, e, f, op, s) ==
    /\ f \in EnvsOf(l, b)
    /\ Worked(l, b, op, GoodOf(l, e), GoodOf(l, f), PrimaryOf(l, e), PrimaryOf(l, f), s)
    /\ \A p \in Slots : Top(l, b, e, p) /\ ~Displaced(l, b, op, s, p) => Top(l, b, f, p)
LastTo(l, b, e, f, op, s) ==
    /\ StepTo(l, b, e, f, op, s)
    /\ Finished(b, op, GoodOf(l, f), PrimaryOf(l, f), s)
    /\ op = "active" => Top(l, b, f, s)
\* The writes w do, one after the other, what the operation promises.
Promised(l, b, e, op, s, w) ==
    \/ \E f : w = <<f>> /\ LastTo(l, b, e, f, op, s)
    \/ \E f, g : w = <<f, g>> /\ StepTo(l, b, e, f, op, s) /\ LastTo(l, b, f, g, op, s)

LEMMA TopIsNext ==
    ASSUME NEW l \in OneWrite, NEW e \in EnvsOf(l, FALSE), NEW s \in Slots, Top(l, FALSE, e, s)
    PROVE  PrimaryOf(l, e) = s /\ s \in GoodOf(l, e)
BY BareboxTop, GrubTop DEF OneWrite, EnvsOf, PrimaryOf, GoodOf, Top

LEMMA NextIsSlot ==
    ASSUME NEW l, NEW b, Config(l, b), NEW e \in EnvsOf(l, b)
    PROVE  PrimaryOf(l, e) \in Slots \cup {NoSlot} /\ GoodOf(l, e) \subseteq Slots
<1>1. CASE l = "barebox"
    BY <1>1, BareboxNext, BareboxPrimary DEF EnvsOf, PrimaryOf, GoodOf
<1>2. CASE l = "grub"
    <2>1. e \in G!Env
        BY <1>2 DEF EnvsOf
    <2>2. GrubGood(e) \subseteq Slots /\ e.order \in Orders
        BY <2>1, GrubPrimary
    <2>3. First(e.order, GrubGood(e)) \in Slots \cup {NoSlot}
        BY <2>2, FirstIn
    <2> QED BY <1>2, <2>1, <2>2, <2>3, GrubPrimary DEF PrimaryOf, GoodOf
<1>3. CASE l = "uboot"
    <2>1. e \in UBootEnv
        BY <1>3 DEF EnvsOf
    <2>2. UBootGood(e) \subseteq Slots /\ U!Primary(e) \in UBootGood(e) \cup {NoSlot}
        BY <2>1, UBootPrimary
    <2> QED BY <1>3, <2>2 DEF PrimaryOf, GoodOf
<1>4. CASE l = "efi"
    <2>1. e \in EfiEnv(b) /\ b \in BOOLEAN
        BY <1>4 DEF EnvsOf, Config
    <2>2. /\ EfiGood(e) \subseteq Slots /\ First(e.order, Slots) \in EfiGood(e) \cup {NoSlot}
          /\ e.next \in Slots \cup {NoSlot}
        BY <2>1, EfiPrimary DEF Listed, EfiEnv
    <2>3. E!Primary(e) \in Slots \cup {NoSlot}
        BY <2>1, <2>2, EfiPrimary
    <2> QED BY <1>4, <2>2, <2>3 DEF PrimaryOf, GoodOf
<1> QED BY <1>1, <1>2, <1>3, <1>4 DEF Config, Known

Commanded(l, e, f, op, s) ==
    /\ f \in EnvsOf(l, FALSE)
    /\ Effect(op, GoodOf(l, e), GoodOf(l, f), PrimaryOf(l, e), PrimaryOf(l, f), s)
    /\ op = "active" => Top(l, FALSE, f, s)
    /\ \A p \in Slots : Top(l, FALSE, e, p) /\ ~(op = "active" /\ s # p) /\ ~(op = "bad" /\ s = p)
                       => Top(l, FALSE, f, p)

\* barebox and GRUB: a call is one command, which does what the operation promises and leaves
\* a slot on top that it does not displace.
LEMMA OneCommand ==
    ASSUME NEW l \in OneWrite, NEW e \in EnvsOf(l, FALSE), NEW op \in Operations, NEW s \in Slots,
           NEW w \in WritesOf(l, FALSE, e, op, s)
    PROVE  \E f : w = <<f>> /\ Commanded(l, e, f, op, s)
<1> USE DEF Commanded
<1>1. CASE l = "barebox" /\ op = "active"
    <2>1. e \in BareboxEnv /\ w \in B!SetPrimary(e, s)
        BY <1>1 DEF EnvsOf, WritesOf
    <2>2. PICK f \in BareboxEnv : w = <<f>>
        BY <2>1, BareboxChoose
    <2>3. w[1] = f
        BY <2>2
    <2>4. Top(l, FALSE, f, s) /\ Kept(BareboxGood(e), BareboxGood(f), s)
        BY <1>1, <2>1, <2>3, BareboxChoose DEF Top
    <2>5. PrimaryOf(l, f) = s /\ s \in GoodOf(l, f)
        BY <1>1, <2>4, TopIsNext DEF EnvsOf
    <2> QED BY <1>1, <2>2, <2>4, <2>5 DEF Effect, Chosen, GoodOf, PrimaryOf, EnvsOf
<1>2. CASE l = "barebox" /\ op = "good"
    <2> DEFINE f == [e EXCEPT !.attempts[s] = DefaultAttempts]
    <2>1. e \in BareboxEnv /\ w = <<f>>
        BY <1>2 DEF EnvsOf, WritesOf, B!SetState
    <2>2. /\ f \in BareboxEnv /\ f.prio = e.prio /\ f.attempts[s] > 0
          /\ \A t \in Slots \ {s} : f.attempts[t] = e.attempts[t]
        BY <2>1, Attempting DEF BareboxEnv
    <2> HIDE DEF f
    <2>3. Refilled(BareboxGood(e), BareboxGood(f), B!Primary(e), B!Primary(f), s)
        BY <2>1, <2>2, BareboxRefill
    <2>4. \A p \in Slots : Top(l, FALSE, e, p) => Top(l, FALSE, f, p)
        BY <1>2, <2>2 DEF Top
    <2> QED BY <1>2, <2>1, <2>2, <2>3, <2>4 DEF Effect, GoodOf, PrimaryOf, EnvsOf
<1>3. CASE l = "barebox" /\ op = "bad"
    <2> DEFINE f == [e EXCEPT !.prio[s] = 0, !.attempts[s] = 0]
    <2>1. e \in BareboxEnv /\ w = <<f>>
        BY <1>3 DEF EnvsOf, WritesOf, B!SetState
    <2>2. /\ f \in BareboxEnv /\ f.attempts[s] = 0 /\ f.prio[s] = 0
          /\ \A t \in Slots \ {s} : f.attempts[t] = e.attempts[t] /\ f.prio[t] = e.prio[t]
        BY <2>1 DEF BareboxEnv
    <2> HIDE DEF f
    <2>3. Dropped(BareboxGood(e), BareboxGood(f), B!Primary(e), B!Primary(f), s)
        BY <2>1, <2>2, BareboxDrop
    <2>4. ASSUME NEW p \in Slots, Top(l, FALSE, e, p), s # p PROVE Top(l, FALSE, f, p)
        BY <1>3, <2>2, <2>4 DEF Top
    <2> QED BY <1>3, <2>1, <2>2, <2>3, <2>4 DEF Effect, GoodOf, PrimaryOf, EnvsOf
<1>4. CASE l = "grub" /\ op = "active"
    <2>1. e \in G!Env
        BY <1>4 DEF EnvsOf
    <2>2. PICK f \in G!GrubSetPrimary(e, s) : w = <<f>>
        BY <1>4 DEF WritesOf
    <2>3. /\ f \in G!Env /\ Kept(GrubGood(e), GrubGood(f), s)
          /\ f.order[1] = s /\ f.ok[s] = "1" /\ f.try[s] = "0"
        BY <2>1, GrubChoose
    <2>4. Top(l, FALSE, f, s)
        BY <1>4, <2>3 DEF Top
    <2>5. PrimaryOf(l, f) = s /\ s \in GoodOf(l, f)
        BY <1>4, <2>3, <2>4, TopIsNext DEF EnvsOf
    <2> QED BY <1>4, <2>2, <2>3, <2>4, <2>5 DEF Effect, Chosen, GoodOf, PrimaryOf, EnvsOf
<1>5. CASE l = "grub" /\ op = "good"
    <2> DEFINE f == G!GrubSetState(e, s, TRUE)
    <2>1. e \in G!Env /\ w = <<f>>
        BY <1>5 DEF EnvsOf, WritesOf
    <2>2. /\ f \in G!Env /\ f.order = e.order
          /\ f.ok = [e.ok EXCEPT ![s] = "1"] /\ f.try = [e.try EXCEPT ![s] = "0"]
          /\ Refilled(GrubGood(e), GrubGood(f), G!GrubGetPrimary(e), G!GrubGetPrimary(f), s)
        BY <2>1, GrubRefill
    <2> HIDE DEF f
    <2>3. \A p \in Slots : Top(l, FALSE, e, p) => Top(l, FALSE, f, p)
        BY <1>5, <2>1, <2>2 DEF Top, G!Env
    <2> QED BY <1>5, <2>1, <2>2, <2>3 DEF Effect, GoodOf, PrimaryOf, EnvsOf
<1>6. CASE l = "grub" /\ op = "bad"
    <2> DEFINE f == G!GrubSetState(e, s, FALSE)
    <2>1. e \in G!Env /\ w = <<f>>
        BY <1>6 DEF EnvsOf, WritesOf
    <2>2. /\ f \in G!Env /\ f.order = e.order
          /\ f.ok = [e.ok EXCEPT ![s] = "0"] /\ f.try = [e.try EXCEPT ![s] = "0"]
          /\ Dropped(GrubGood(e), GrubGood(f), G!GrubGetPrimary(e), G!GrubGetPrimary(f), s)
        BY <2>1, GrubDrop
    <2> HIDE DEF f
    <2>3. ASSUME NEW p \in Slots, Top(l, FALSE, e, p), s # p PROVE Top(l, FALSE, f, p)
        BY <1>6, <2>1, <2>2, <2>3 DEF Top, G!Env
    <2> QED BY <1>6, <2>1, <2>2, <2>3 DEF Effect, GoodOf, PrimaryOf, EnvsOf
<1> QED BY <1>1, <1>2, <1>3, <1>4, <1>5, <1>6 DEF OneWrite, Operations

LEMMA OneCommandCalls ==
    ASSUME NEW l \in OneWrite, NEW e \in EnvsOf(l, FALSE), NEW op \in Operations, NEW s \in Slots,
           NEW w \in WritesOf(l, FALSE, e, op, s)
    PROVE  Promised(l, FALSE, e, op, s, w)
<1>1. PICK f : w = <<f>> /\ Commanded(l, e, f, op, s)
    BY OneCommand
<1> DEFINE G0 == GoodOf(l, e)
           G1 == GoodOf(l, f)
           p0 == PrimaryOf(l, e)
           p1 == PrimaryOf(l, f)
<1> HIDE DEF G0, G1, p0, p1
<1>2. Effect(op, G0, G1, p0, p1, s) /\ op \in {"active", "good", "bad"} /\ l # "uboot"
    BY <1>1 DEF Operations, OneWrite, Commanded, G0, G1, p0, p1
<1>3. Worked(l, FALSE, op, G0, G1, p0, p1, s) /\ Finished(FALSE, op, G1, p1, s)
    BY <1>2 DEF Effect, Chosen, Refilled, Dropped, Kept, Worked, Finished
<1>4. \A p \in Slots : Top(l, FALSE, e, p) /\ ~Displaced(l, FALSE, op, s, p) => Top(l, FALSE, f, p)
    BY <1>1 DEF Displaced, Commanded
<1>5. LastTo(l, FALSE, e, f, op, s)
    BY <1>1, <1>3, <1>4 DEF LastTo, StepTo, Commanded, G0, G1, p0, p1
<1> QED BY <1>1, <1>5 DEF Promised

\* U-Boot, one slot's counter.
LEMMA UBootFillStep ==
    ASSUME NEW e \in UBootEnv, NEW op \in Operations, NEW s \in Slots, NEW n \in Nat,
           n = 0 <=> op = "bad"
    PROVE  LET f == U!SetLeft(e, s, n) IN
           /\ StepTo("uboot", FALSE, e, f, op, s)
           /\ op # "active" => LastTo("uboot", FALSE, e, f, op, s)
<1> DEFINE f == U!SetLeft(e, s, n)
<1>1. /\ f \in UBootEnv /\ f.order = e.order /\ f.left[s] = n
      /\ \A t \in Slots \ {s} : f.left[t] = e.left[t]
      /\ n > 0 => Refilled(UBootGood(e), UBootGood(f), U!Primary(e), U!Primary(f), s)
      /\ n = 0 => Dropped(UBootGood(e), UBootGood(f), U!Primary(e), U!Primary(f), s)
    BY UBootFills
<1> HIDE DEF f
<1>2. n > 0 <=> op # "bad"
    OBVIOUS
<1>3. /\ Worked("uboot", FALSE, op, UBootGood(e), UBootGood(f), U!Primary(e), U!Primary(f), s)
      /\ op # "active" => Finished(FALSE, op, UBootGood(f), U!Primary(f), s)
    BY <1>1, <1>2 DEF Refilled, Dropped, Kept, Worked, Finished
<1>4. ASSUME NEW p \in Slots, Top("uboot", FALSE, e, p), ~Displaced("uboot", FALSE, op, s, p)
      PROVE  Top("uboot", FALSE, f, p)
    <2>1. e.order # <<>> /\ e.order[1] = p /\ e.left[p] > 0
        BY <1>4 DEF Top
    <2>2. f.left[p] > 0
        BY <1>1, <1>2, <1>4, <2>1 DEF Displaced
    <2> QED BY <1>1, <2>1, <2>2 DEF Top
<1>5. StepTo("uboot", FALSE, e, f, op, s)
    BY <1>1, <1>3, <1>4 DEF StepTo, EnvsOf, GoodOf, PrimaryOf
<1>6. op # "active" => LastTo("uboot", FALSE, e, f, op, s)
    BY <1>3, <1>5 DEF LastTo, GoodOf, PrimaryOf
<1> QED BY <1>5, <1>6 DEF f

LEMMA UBootCalls ==
    ASSUME NEW e \in UBootEnv, NEW op \in Operations, NEW s \in Slots,
           NEW w \in WritesOf("uboot", FALSE, e, op, s)
    PROVE  Promised("uboot", FALSE, e, op, s, w)
<1>1. CASE op = "active"
    <2> DEFINE f == U!SetLeft(e, s, PrimaryAttempts)
    <2>1. PICK o \in {PresetOrder, e.order} :
              w = <<f, U!SetOrder(f, <<s>> \o U!Without(o, s))>>
        BY <1>1 DEF WritesOf, U!SetPrimary, U!OrdersRead
    <2>2. /\ f \in UBootEnv /\ f.order = e.order /\ f.left[s] > 0
          /\ StepTo("uboot", FALSE, e, f, op, s)
        <3>1. PrimaryAttempts \in Nat /\ PrimaryAttempts > 0 /\ (PrimaryAttempts = 0 <=> op = "bad")
            BY <1>1, Attempting
        <3>2. f \in UBootEnv /\ f.order = e.order /\ f.left[s] = PrimaryAttempts
            BY <3>1, UBootFills
        <3>3. StepTo("uboot", FALSE, e, f, op, s)
            BY <3>1, UBootFillStep
        <3> QED BY <3>1, <3>2, <3>3
    <2> HIDE DEF f
    <2> DEFINE g == U!SetOrder(f, <<s>> \o U!Without(o, s))
    <2>3. /\ g \in UBootEnv /\ g.left = f.left /\ g.order # <<>> /\ g.order[1] = s
          /\ UBootGood(f) \ {s} \subseteq UBootGood(g)
          /\ U!Primary(g) = s /\ s \in UBootGood(g)
        BY <2>2, UBootRaises
    <2>4. w = <<f, g>>
        BY <2>1
    <2> HIDE DEF g
    <2>5. /\ Worked("uboot", FALSE, op, UBootGood(f), UBootGood(g), U!Primary(f), U!Primary(g), s)
          /\ Finished(FALSE, op, UBootGood(g), U!Primary(g), s)
        BY <1>1, <2>3 DEF Worked, Finished, UBootGood
    <2>6. Top("uboot", FALSE, g, s)
        BY <2>2, <2>3 DEF Top
    <2>7. \A p \in Slots : ~Displaced("uboot", FALSE, op, s, p) => p = s
        BY <1>1 DEF Displaced
    <2>8. StepTo("uboot", FALSE, f, g, op, s)
        BY <2>3, <2>5, <2>6, <2>7 DEF StepTo, EnvsOf, GoodOf, PrimaryOf
    <2>9. LastTo("uboot", FALSE, f, g, op, s)
        BY <2>5, <2>6, <2>8 DEF LastTo, GoodOf, PrimaryOf
    <2> QED BY <2>2, <2>4, <2>9 DEF Promised
<1>2. CASE op = "good"
    <2> DEFINE f == U!SetLeft(e, s, DefaultAttempts)
    <2>1. w = <<f>>
        BY <1>2 DEF WritesOf, U!SetState
    <2>2. LastTo("uboot", FALSE, e, f, op, s)
        BY <1>2, Attempting, UBootFillStep
    <2> QED BY <2>1, <2>2 DEF Promised
<1>3. CASE op = "bad"
    <2> DEFINE q == U!Without(e.order, s)
               cut == U!SetOrder(e, q)
    <2>1. w \in {<<cut, U!SetLeft(cut, s, 0)>>, <<U!SetLeft(e, s, 0)>>}
        BY <1>3 DEF WritesOf, U!SetState
    <2>2. CASE w = <<U!SetLeft(e, s, 0)>>
        <3>1. LastTo("uboot", FALSE, e, U!SetLeft(e, s, 0), op, s)
            BY <1>3, UBootFillStep
        <3> QED BY <2>2, <3>1 DEF Promised
    <2>3. CASE w = <<cut, U!SetLeft(cut, s, 0)>>
        <3>1. /\ cut \in UBootEnv /\ cut.order = q /\ cut.left = e.left
              /\ Dropped(UBootGood(e), UBootGood(cut), U!Primary(e), U!Primary(cut), s)
            BY UBootDrops
        <3>2. q \in Seq(Slots) /\ Cut(e.order, q, s) /\ e.order \in Seq(Slots)
            BY UBootPrimary, UBootCut
        <3> HIDE DEF q, cut
        <3>3. Worked("uboot", FALSE, op, UBootGood(e), UBootGood(cut), U!Primary(e), U!Primary(cut), s)
            BY <1>3, <3>1 DEF Dropped, Kept, Worked
        <3>4. ASSUME NEW p \in Slots, Top("uboot", FALSE, e, p), ~Displaced("uboot", FALSE, op, s, p)
              PROVE  Top("uboot", FALSE, cut, p)
            <4>1. e.order # <<>> /\ e.order[1] = p /\ e.left[p] > 0 /\ p # s
                BY <1>3, <3>4 DEF Top, Displaced
            <4>2. q # <<>> /\ q[1] = p
                BY <3>2, <4>1, CutHead
            <4> QED BY <3>1, <4>1, <4>2 DEF Top
        <3>5. StepTo("uboot", FALSE, e, cut, op, s)
            BY <3>1, <3>3, <3>4 DEF StepTo, EnvsOf, GoodOf, PrimaryOf
        <3>6. LastTo("uboot", FALSE, cut, U!SetLeft(cut, s, 0), op, s)
            BY <1>3, <3>1, UBootFillStep
        <3> QED BY <2>3, <3>5, <3>6 DEF Promised
    <2> QED BY <2>1, <2>2, <2>3
<1> QED BY <1>1, <1>2, <1>3 DEF Operations

\* A slot put in front of BootOrder; with BootNext only when it is marked good.
LEMMA EfiRaiseStep ==
    ASSUME NEW b \in BOOLEAN, NEW e \in EfiEnv(b), NEW op \in {"active", "good"}, NEW s \in Slots,
           e.order # <<>>, b => op = "good"
    PROVE  LastTo("efi", b, e, [e EXCEPT !.order = <<s>> \o E!RemoveFirst(e.order, s)], op, s)
<1> DEFINE f == [e EXCEPT !.order = <<s>> \o E!RemoveFirst(e.order, s)]
           G0 == EfiGood(e)
           G1 == EfiGood(f)
           p0 == E!Primary(e)
           p1 == E!Primary(f)
<1>1. /\ f \in EfiEnv(b) /\ f.next = e.next /\ f.order # <<>>
      /\ G1 = G0 \cup {s} /\ First(f.order, Slots) = s
    BY EfiRaises
<1> HIDE DEF f
<1>2. /\ p0 = IF e.next # NoSlot THEN e.next ELSE First(e.order, Slots)
      /\ p1 = IF e.next # NoSlot THEN e.next ELSE s
      /\ G0 \subseteq Slots /\ (e.next # NoSlot => b)
    BY <1>1, EfiPrimary DEF Listed, EfiEnv
<1> HIDE DEF G0, G1, p0, p1
<1>3. Worked("efi", b, op, G0, G1, p0, p1, s) /\ Finished(b, op, G1, p1, s)
    BY <1>1, <1>2 DEF Worked, Finished
<1>4. ASSUME NEW p \in Slots, Top("efi", b, e, p), ~Displaced("efi", b, op, s, p)
      PROVE  Top("efi", b, f, p)
    BY <1>1, <1>4 DEF Top, Displaced
<1>5. StepTo("efi", b, e, f, op, s)
    BY <1>1, <1>3, <1>4 DEF StepTo, EnvsOf, GoodOf, PrimaryOf, G0, G1, p0, p1
<1>6. op = "active" => Top("efi", b, f, s)
    BY <1>1 DEF Top
<1>7. LastTo("efi", b, e, f, op, s)
    BY <1>3, <1>5, <1>6 DEF LastTo, GoodOf, PrimaryOf, G1, p1
<1> QED BY <1>7 DEF f

\* BootNext set to a slot.
LEMMA EfiNextStep ==
    ASSUME NEW e \in EfiEnv(TRUE), NEW s \in Slots, e.order # <<>>
    PROVE  LastTo("efi", TRUE, e, [e EXCEPT !.next = s], "active", s)
<1> DEFINE f == [e EXCEPT !.next = s]
           G0 == EfiGood(e)
           G1 == EfiGood(f)
           p0 == E!Primary(e)
           p1 == E!Primary(f)
<1>1. f \in EfiEnv(TRUE) /\ f.next = s /\ f.order = e.order /\ s # NoSlot
    BY BackendsAssumption DEF EfiEnv
<1> HIDE DEF f
<1>2. G1 = G0 /\ G0 \subseteq Slots /\ p1 = s
    <2>1. PICK b \in BOOLEAN : b = TRUE
        OBVIOUS
    <2>2. e \in EfiEnv(b) /\ f \in EfiEnv(b)
        BY <1>1, <2>1
    <2>3. G0 = Listed(e.order) /\ G1 = Listed(f.order)
        BY <2>2, EfiPrimary
    <2>4. p1 = s
        BY <1>1, <2>2, EfiPrimary
    <2> QED BY <1>1, <2>3, <2>4 DEF Listed
<1> HIDE DEF G0, G1, p0, p1
<1>3. Worked("efi", TRUE, "active", G0, G1, p0, p1, s) /\ Finished(TRUE, "active", G1, p1, s)
    BY <1>2 DEF Worked, Finished
<1>4. Top("efi", TRUE, f, s) /\ \A p \in Slots : ~Displaced("efi", TRUE, "active", s, p) => p = s
    BY <1>1 DEF Top, Displaced
<1>5. StepTo("efi", TRUE, e, f, "active", s)
    BY <1>1, <1>3, <1>4 DEF StepTo, EnvsOf, GoodOf, PrimaryOf, G0, G1, p0, p1
<1>6. LastTo("efi", TRUE, e, f, "active", s)
    BY <1>3, <1>4, <1>5 DEF LastTo, GoodOf, PrimaryOf, G1, p1
<1> QED BY <1>6 DEF f

LEMMA EfiDropStep ==
    ASSUME NEW b \in BOOLEAN, NEW e \in EfiEnv(b), NEW s \in Slots, e.order # <<>>
    PROVE  LastTo("efi", b, e, [e EXCEPT !.order = E!RemoveFirst(e.order, s)], "bad", s)
<1> DEFINE f == [e EXCEPT !.order = E!RemoveFirst(e.order, s)]
           G0 == EfiGood(e)
           G1 == EfiGood(f)
           p0 == E!Primary(e)
           p1 == E!Primary(f)
           c0 == First(e.order, Slots)
           c1 == First(f.order, Slots)
<1>1. /\ f \in EfiEnv(b) /\ f.next = e.next
      /\ G1 = G0 \ {s} /\ c1 \in G1 \cup {NoSlot} /\ (c0 # s => c1 = c0)
    BY EfiDrops
<1> HIDE DEF f
<1>2. /\ p0 = IF e.next # NoSlot THEN e.next ELSE c0
      /\ p1 = IF f.order = <<>> THEN NoSlot ELSE IF e.next # NoSlot THEN e.next ELSE c1
      /\ G0 \subseteq Slots /\ (e.next # NoSlot => b) /\ G1 = Listed(f.order)
    BY <1>1, EfiPrimary DEF Listed, EfiEnv
<1>3. f.order = <<>> => G1 = {} /\ c1 = NoSlot
    <2> SUFFICES ASSUME f.order = <<>> PROVE G1 = {} /\ c1 = NoSlot
        OBVIOUS
    <2>1. Listed(f.order) = {}
        BY DEF Listed
    <2> QED BY <1>1, <1>2, <2>1
<1> HIDE DEF G0, G1, p0, p1, c0, c1
<1>4. s # NoSlot
    BY BackendsAssumption
<1>5. Worked("efi", b, "bad", G0, G1, p0, p1, s)
    <2>1. /\ G1 \subseteq Slots /\ G1 \ {s} = G0 \ {s}
        BY <1>1, <1>2
    <2>2. \/ p1 = p0
          \/ p0 = s /\ p1 \in (G0 \ {s}) \cup {NoSlot}
          \/ b /\ G1 = {} /\ p1 = NoSlot
        BY <1>1, <1>2, <1>3
    <2> QED BY <2>1, <2>2 DEF Worked
<1>6. Finished(b, "bad", G1, p1, s)
    <2>1. s \notin G1 /\ (b \/ p1 # s)
        BY <1>1, <1>2, <1>4
    <2> QED BY <2>1 DEF Finished
<1>7. ASSUME NEW p \in Slots, Top("efi", b, e, p), ~Displaced("efi", b, "bad", s, p)
      PROVE  Top("efi", b, f, p)
    <2>1. p # s /\ (IF b THEN e.next = p ELSE c0 = p)
        BY <1>7 DEF Top, Displaced, c0
    <2> QED BY <1>1, <2>1 DEF Top, c1
<1>8. StepTo("efi", b, e, f, "bad", s)
    BY <1>1, <1>5, <1>7 DEF StepTo, EnvsOf, GoodOf, PrimaryOf, G0, G1, p0, p1
<1>9. LastTo("efi", b, e, f, "bad", s)
    BY <1>6, <1>8 DEF LastTo, GoodOf, PrimaryOf, G1, p1
<1> QED BY <1>9 DEF f

LEMMA EfiCalls ==
    ASSUME NEW b \in BOOLEAN, NEW e \in EfiEnv(b), NEW op \in Operations, NEW s \in Slots,
           NEW w \in WritesOf("efi", b, e, op, s)
    PROVE  Promised("efi", b, e, op, s, w)
<1> DEFINE raised == [e EXCEPT !.order = <<s>> \o E!RemoveFirst(e.order, s)]
           dropped == [e EXCEPT !.order = E!RemoveFirst(e.order, s)]
<1>1. \A x \in E!ModifyOrder(e, s, TRUE) : e.order # <<>> /\ x = <<raised>>
    BY DEF E!ModifyOrder, E!Readable
<1>2. \A x \in E!ModifyOrder(e, s, FALSE) : e.order # <<>> /\ x = <<dropped>>
    <2> SUFFICES ASSUME NEW x \in E!ModifyOrder(e, s, FALSE) PROVE e.order # <<>> /\ x = <<dropped>>
        OBVIOUS
    <2>1. /\ e.order # <<>>
          /\ x = <<[e EXCEPT !.order = <<>> \o E!RemoveFirst(e.order, s)]>>
        BY DEF E!ModifyOrder, E!Readable
    <2>2. <<>> \o E!RemoveFirst(e.order, s) = E!RemoveFirst(e.order, s)
        BY EfiCut, ConcatEmptySeq
    <2> QED BY <2>1, <2>2
<1>3. \A x \in E!SetNext(e, s) : e.order # <<>> /\ x = <<[e EXCEPT !.next = s]>>
    BY DEF E!SetNext, E!Readable
<1> HIDE DEF raised, dropped
<1>4. CASE op = "active" /\ b
    <2>1. b = TRUE /\ w \in E!SetNext(e, s)
        BY <1>4 DEF WritesOf, E!SetPrimary
    <2>2. LastTo("efi", b, e, [e EXCEPT !.next = s], op, s)
        <3>1. e \in EfiEnv(TRUE) /\ e.order # <<>>
            BY <1>3, <2>1
        <3>2. LastTo("efi", TRUE, e, [e EXCEPT !.next = s], "active", s)
            BY <3>1, EfiNextStep
        <3> QED BY <1>4, <2>1, <3>2
    <2> QED BY <1>3, <2>1, <2>2 DEF Promised
<1>5. CASE op = "good" \/ (op = "active" /\ ~b)
    <2>1. w \in E!ModifyOrder(e, s, TRUE)
        BY <1>5 DEF WritesOf, E!SetPrimary, E!SetState
    <2>2. LastTo("efi", b, e, raised, op, s)
        BY <1>1, <1>5, <2>1, EfiRaiseStep DEF raised
    <2> QED BY <1>1, <2>1, <2>2 DEF Promised
<1>6. CASE op = "bad"
    <2>1. w \in E!ModifyOrder(e, s, FALSE)
        BY <1>6 DEF WritesOf, E!SetState
    <2>2. LastTo("efi", b, e, dropped, op, s)
        BY <1>2, <1>6, <2>1, EfiDropStep DEF dropped
    <2> QED BY <1>2, <2>1, <2>2 DEF Promised
<1> QED BY <1>4, <1>5, <1>6 DEF Operations

LEMMA CallsPromise ==
    ASSUME NEW l, NEW b, Config(l, b), NEW e \in EnvsOf(l, b), NEW op \in Operations,
           NEW s \in Slots, NEW w \in WritesOf(l, b, e, op, s)
    PROVE  Promised(l, b, e, op, s, w)
<1>1. CASE l \in OneWrite
    <2>1. b = FALSE
        BY <1>1 DEF Config, OneWrite
    <2> QED BY <1>1, <2>1, OneCommandCalls
<1>2. CASE l = "uboot"
    <2>1. b = FALSE /\ e \in UBootEnv
        BY <1>2 DEF Config, EnvsOf
    <2> QED BY <1>2, <2>1, UBootCalls
<1>3. CASE l = "efi"
    <2>1. b \in BOOLEAN /\ e \in EfiEnv(b)
        BY <1>3 DEF Config, EnvsOf
    <2> QED BY <1>3, <2>1, EfiCalls
<1> QED BY <1>1, <1>2, <1>3 DEF Config, Known, OneWrite

----------------------------------------------------------------------------
CallOK ==
    call # NoCall =>
        /\ call \in [op : Operations, slot : Slots] /\ up
        /\ Promised(loader, bootNext, env, call.op, call.slot, writes)
PendingOK ==
    pending # NoSlot =>
        /\ pending \in Slots /\ Top(loader, bootNext, env, pending)
        /\ call # NoCall => ~Displaced(loader, bootNext, call.op, call.slot, pending)
BackendInv ==
    /\ Config(loader, bootNext) /\ up \in BOOLEAN
    /\ env \in EnvsOf(loader, bootNext) /\ CallOK /\ PendingOK

\* What the loader answers, in a state and in the next one.
LEMMA Answers ==
    ASSUME Config(loader, bootNext)
    PROVE  /\ Primary = PrimaryOf(loader, env)
           /\ {s \in Slots : Good(s)} = GoodOf(loader, env)
BY DEF Config, Known, Primary, Good, PrimaryOf, GoodOf, BareboxGood, GrubGood, UBootGood, EfiGood

LEMMA AnswersAfter ==
    ASSUME Config(loader, bootNext)'
    PROVE  /\ Primary' = PrimaryOf(loader', env')
           /\ {s \in Slots : Good(s)}' = GoodOf(loader', env')
BY DEF Config, Known, Primary, Good, PrimaryOf, GoodOf, BareboxGood, GrubGood, UBootGood, EfiGood

LEMMA BackendInit == Init => BackendInv
<1> SUFFICES ASSUME Init PROVE BackendInv
    OBVIOUS
<1>1. Config(loader, bootNext) /\ up = FALSE
    <2>1. loader \in Known /\ bootNext \in (IF loader = "efi" THEN BOOLEAN ELSE {FALSE})
        BY BackendsAssumption DEF Init, Known
    <2> QED BY <2>1 DEF Init, Config
<1>2. CallOK /\ PendingOK
    BY DEF Init, CallOK, PendingOK
<1>3. CASE loader = "barebox"
    <2>1. env \in B!Blank
        BY <1>3 DEF Init, Factory
    <2>2. B!Blank \subseteq BareboxEnv
        BY Attempting DEF B!Blank, BareboxEnv, B!DefaultPriority, B!PrimaryPriority
    <2> QED BY <1>1, <1>2, <1>3, <2>1, <2>2 DEF BackendInv, EnvsOf
<1>4. CASE loader = "grub"
    <2>1. env = [order |-> PresetOrder,
                 ok    |-> [s \in Slots |-> IF s = PresetOrder[1] THEN "1" ELSE "0"],
                 try   |-> [s \in Slots |-> "0"]]
        BY <1>4 DEF Init, Factory
    <2>2. env \in G!Env
        BY <2>1, CountNat, GrubOrders DEF G!Env, G!Flag
    <2> QED BY <1>1, <1>2, <1>4, <2>2 DEF BackendInv, EnvsOf
<1>5. CASE loader = "uboot"
    <2>1. env \in U!Blank
        BY <1>5 DEF Init, Factory
    <2>2. PresetOrder \in Seq(Slots)
        BY BackendsAssumption, CountNat, IsASeq DEF N
    <2>3. env \in UBootEnv
        BY <2>1, <2>2 DEF U!Blank, U!Fresh, UBootEnv
    <2> QED BY <1>1, <1>2, <1>5, <2>3 DEF BackendInv, EnvsOf
<1>6. CASE loader = "efi"
    <2>1. env \in E!Blank
        BY <1>6 DEF Init, Factory
    <2>2. env \in EfiEnv(bootNext)
        BY <1>1, <2>1, EfiBlank DEF Config
    <2> QED BY <1>1, <1>2, <1>6, <2>2 DEF BackendInv, EnvsOf
<1> QED BY <1>1, <1>3, <1>4, <1>5, <1>6 DEF Config, Known

LEMMA MarkInv ==
    ASSUME BackendInv, NEW op \in Operations, NEW s \in Slots, Mark(op, s)
    PROVE  BackendInv'
<1>1. /\ Config(loader, bootNext) /\ env \in EnvsOf(loader, bootNext) /\ up
      /\ UNCHANGED <<loader, bootNext, env, up>>
    BY DEF BackendInv, Mark, config
<1>2. call' = [op |-> op, slot |-> s] /\ call'.op = op /\ call'.slot = s
    BY DEF Mark
<1>3. writes' \in WritesOf(loader, bootNext, env, op, s)
    BY <1>1 DEF Mark, WritesOf, SetPrimary, SetState, Config, Known
<1>4. Promised(loader, bootNext, env, op, s, writes')
    BY <1>1, <1>3, CallsPromise
<1>5. CallOK'
    BY <1>1, <1>2, <1>4 DEF CallOK
<1>6. PendingOK'
    BY <1>1, <1>2 DEF BackendInv, PendingOK, Mark, Displaces, Displaced
<1> QED BY <1>1, <1>5, <1>6 DEF BackendInv

\* A write is one that its call has promised; the last one ends it.
LEMMA WriteDoes ==
    ASSUME BackendInv, Write
    PROVE  /\ call \in [op : Operations, slot : Slots] /\ call # NoCall /\ up
           /\ UNCHANGED <<loader, bootNext, up>>
           /\ StepTo(loader, bootNext, env, env', call.op, call.slot)
           /\ \/ /\ call' = call /\ pending' = pending
                 /\ Promised(loader, bootNext, env', call.op, call.slot, writes')
              \/ /\ call' = NoCall /\ LastTo(loader, bootNext, env, env', call.op, call.slot)
                 /\ pending' = IF call.op = "active" THEN call.slot ELSE pending
<1>1. /\ call \in [op : Operations, slot : Slots] /\ call # NoCall /\ up
      /\ UNCHANGED <<loader, bootNext, up>>
      /\ Promised(loader, bootNext, env, call.op, call.slot, writes)
    BY DEF BackendInv, CallOK, Write, config
<1>2. CASE \E f : writes = <<f>> /\ LastTo(loader, bootNext, env, f, call.op, call.slot)
    <2>1. PICK f : writes = <<f>> /\ LastTo(loader, bootNext, env, f, call.op, call.slot)
        BY <1>2
    <2>2. Head(writes) = f /\ Len(writes) = 1
        BY <2>1
    <2>3. /\ env' = f /\ call' = NoCall
          /\ pending' = IF call.op = "active" THEN call.slot ELSE pending
        BY <2>2 DEF Write
    <2> QED BY <1>1, <2>1, <2>3 DEF LastTo
<1>3. CASE \E f, g : /\ writes = <<f, g>> /\ StepTo(loader, bootNext, env, f, call.op, call.slot)
                     /\ LastTo(loader, bootNext, f, g, call.op, call.slot)
    <2>1. PICK f, g : /\ writes = <<f, g>> /\ StepTo(loader, bootNext, env, f, call.op, call.slot)
                      /\ LastTo(loader, bootNext, f, g, call.op, call.slot)
        BY <1>3
    <2>2. Head(writes) = f /\ Len(writes) = 2 /\ Tail(writes) = <<g>>
        BY <2>1
    <2>3. env' = f /\ call' = call /\ pending' = pending /\ writes' = <<g>>
        BY <2>2 DEF Write
    <2>4. Promised(loader, bootNext, env', call.op, call.slot, writes')
        BY <2>1, <2>3 DEF Promised
    <2> QED BY <1>1, <2>1, <2>3, <2>4
<1> QED BY <1>1, <1>2, <1>3 DEF Promised

LEMMA WriteInv == ASSUME BackendInv, Write PROVE BackendInv'
<1>1. /\ call.op \in Operations /\ call.slot \in Slots /\ call # NoCall /\ up
      /\ UNCHANGED <<loader, bootNext, up>> /\ env' \in EnvsOf(loader, bootNext)
      /\ \A p \in Slots : Top(loader, bootNext, env, p) /\ ~Displaced(loader, bootNext, call.op, call.slot, p)
                          => Top(loader, bootNext, env', p)
    BY WriteDoes DEF StepTo
<1>2. CASE /\ call' = call /\ pending' = pending
           /\ Promised(loader, bootNext, env', call.op, call.slot, writes')
    <2>1. CallOK'
        BY <1>1, <1>2, WriteDoes DEF CallOK
    <2>2. PendingOK'
        BY <1>1, <1>2 DEF BackendInv, PendingOK
    <2> QED BY <1>1, <2>1, <2>2 DEF BackendInv
<1>3. CASE /\ call' = NoCall /\ LastTo(loader, bootNext, env, env', call.op, call.slot)
           /\ pending' = IF call.op = "active" THEN call.slot ELSE pending
    <2>1. CallOK'
        BY <1>3 DEF CallOK
    <2>2. PendingOK'
        BY <1>1, <1>3 DEF BackendInv, PendingOK, LastTo
    <2> QED BY <1>1, <2>1, <2>2 DEF BackendInv
<1> QED BY <1>2, <1>3, WriteDoes

\* U-Boot's script leaves an environment it can read.
LEMMA UBootStart == ASSUME NEW e \in UBootEnv, NEW r \in U!Start(e) PROVE r.env \in UBootEnv
<1> DEFINE set == IF e.order = <<>> THEN U!SetOrder(e, PresetOrder) ELSE e
           s == U!Primary(set)
<1>1. PresetOrder \in Seq(Slots)
    BY BackendsAssumption, CountNat, IsASeq DEF N
<1>2. set \in UBootEnv
    BY <1>1 DEF U!SetOrder, UBootEnv
<1>3. r = IF s = NoSlot THEN [env |-> [set EXCEPT !.left = [t \in Slots |-> 3]], slot |-> NoSlot]
          ELSE [env |-> U!SetLeft(set, s, set.left[s] - 1), slot |-> s]
    BY DEF U!Start, U!Fresh
<1> HIDE DEF set
<1>4. CASE s = NoSlot
    <2>1. r.env = [set EXCEPT !.left = [t \in Slots |-> 3]]
        BY <1>3, <1>4
    <2>2. [t \in Slots |-> 3] \in [Slots -> Nat]
        OBVIOUS
    <2>3. /\ r.env.order = set.order /\ r.env.left = [t \in Slots |-> 3]
          /\ r.env = [order |-> r.env.order, left |-> r.env.left]
        BY <1>2, <2>1 DEF UBootEnv
    <2> QED BY <1>2, <2>2, <2>3 DEF UBootEnv
<1>5. CASE s # NoSlot
    <2>1. s \in Charged(set)
        BY <1>2, <1>5, UBootPrimary
    <2>2. s \in Slots /\ set.left[s] - 1 \in Nat
        BY <1>2, <2>1 DEF Charged, UBootEnv
    <2>3. r.env = U!SetLeft(set, s, set.left[s] - 1)
        BY <1>3, <1>5
    <2> HIDE DEF s
    <2> QED BY <1>2, <2>2, <2>3, UBootFills
<1> QED BY <1>4, <1>5

LEMMA BootInv == ASSUME BackendInv, Boot PROVE BackendInv'
<1>1. /\ call' = NoCall /\ pending' = NoSlot /\ UNCHANGED <<loader, bootNext>>
      /\ up' \in BOOLEAN /\ Config(loader, bootNext)
    BY DEF BackendInv, CallOK, Boot, config
<1>2. PICK r \in Start : env' = r.env
    BY DEF Boot
<1>3. env' \in EnvsOf(loader, bootNext)
    <2>1. CASE loader = "barebox"
        <3>1. env \in BareboxEnv /\ r \in B!Start(env)
            BY <1>2, <2>1 DEF BackendInv, EnvsOf, Start
        <3> QED BY <1>2, <2>1, <3>1, BareboxStart DEF EnvsOf
    <2>2. CASE loader = "grub"
        <3>1. env \in G!Env /\ env' = G!SavedEnv(env)
            BY <1>2, <2>2 DEF BackendInv, EnvsOf, Start
        <3> QED BY <2>2, <3>1, GrubSaved DEF EnvsOf
    <2>3. CASE loader = "uboot"
        <3>1. env \in UBootEnv /\ r \in U!Start(env)
            BY <1>2, <2>3 DEF BackendInv, EnvsOf, Start
        <3> QED BY <1>2, <2>3, <3>1, UBootStart DEF EnvsOf
    <2>4. CASE loader = "efi"
        <3>1. env \in EfiEnv(bootNext) /\ r \in E!Start(env)
            BY <1>2, <2>4 DEF BackendInv, EnvsOf, Start
        <3>2. env' = [env EXCEPT !.next = NoSlot]
            BY <1>2, <3>1 DEF E!Start
        <3> QED BY <2>4, <3>1, <3>2 DEF EnvsOf, EfiEnv
    <2> QED BY <1>1, <2>1, <2>2, <2>3, <2>4 DEF Config, Known
<1> QED BY <1>1, <1>3 DEF BackendInv, CallOK, PendingOK

LEMMA BackendNext == BackendInv /\ [Next]_vars => BackendInv'
<1> SUFFICES ASSUME BackendInv, [Next]_vars PROVE BackendInv'
    OBVIOUS
<1>1. CASE CommandFails
    BY <1>1 DEF CommandFails, BackendInv, CallOK, PendingOK, config
<1>2. CASE Abort
    BY <1>2 DEF Abort, BackendInv, CallOK, PendingOK, config
<1>3. CASE PowerCut
    BY <1>3 DEF PowerCut, BackendInv, CallOK, PendingOK, config
<1>4. CASE UNCHANGED vars
    <2>1. UNCHANGED <<loader, bootNext, env, up, call, writes, pending>>
        BY <1>4 DEF vars
    <2>2. CallOK' /\ PendingOK'
        BY <2>1 DEF BackendInv, CallOK, PendingOK
    <2> QED BY <2>1, <2>2 DEF BackendInv
<1> QED BY <1>1, <1>2, <1>3, <1>4, MarkInv, WriteInv, BootInv DEF Next

LEMMA BackendInvariant == Spec => []BackendInv
BY BackendInit, BackendNext, PTL DEF Spec

\* With every loader, a slot that was activated is what RAUC and the boot loader take for the
\* next one until the machine starts (r_boot_set_primary, mark_run).
THEOREM ActivatedIsNext == Spec => []ActivationLasts
<1>1. BackendInv => ActivationLasts
    <2> SUFFICES ASSUME BackendInv, pending # NoSlot
                 PROVE  Primary = pending \/ (loader = "efi" /\ ~E!Readable(env))
        BY DEF ActivationLasts
    <2>1. /\ Config(loader, bootNext) /\ env \in EnvsOf(loader, bootNext)
          /\ pending \in Slots /\ Top(loader, bootNext, env, pending)
          /\ Primary = PrimaryOf(loader, env)
        BY Answers DEF BackendInv, PendingOK
    <2>2. CASE loader \in OneWrite
        <3>1. bootNext = FALSE
            BY <2>1, <2>2 DEF Config, OneWrite
        <3>2. env \in EnvsOf(loader, FALSE) /\ Top(loader, FALSE, env, pending)
            BY <2>1, <3>1
        <3> QED BY <2>1, <2>2, <3>2, TopIsNext
    <2>3. CASE loader = "uboot"
        <3>1. env \in UBootEnv /\ env.order # <<>> /\ env.order[1] = pending /\ env.left[pending] > 0
            BY <2>1, <2>3 DEF EnvsOf, Top
        <3>2. First(env.order, Charged(env)) = pending
            <4>1. env.order \in Seq(Slots)
                BY <3>1, UBootPrimary
            <4>2. pending \in Charged(env)
                BY <2>1, <3>1 DEF Charged
            <4>3. 1 \in 1 .. Len(env.order)
                BY <3>1, <4>1
            <4>4. PICK i \in 1 .. Len(env.order) :
                      /\ First(env.order, Charged(env)) = env.order[i]
                      /\ \A j \in 1 .. Len(env.order) : env.order[j] \in Charged(env) => i <= j
                BY <3>1, <4>1, <4>2, <4>3, FirstOf
            <4>5. i = 1
                BY <3>1, <4>1, <4>2, <4>3, <4>4
            <4> QED BY <3>1, <4>4, <4>5
        <3> QED BY <2>1, <2>3, <3>1, <3>2, UBootPrimary DEF PrimaryOf
    <2>4. CASE loader = "efi"
        <3>1. /\ bootNext \in BOOLEAN /\ env \in EfiEnv(bootNext) /\ pending # NoSlot
              /\ env.order = <<>> \/ (IF bootNext THEN env.next = pending ELSE First(env.order, Slots) = pending)
              /\ env.next # NoSlot => bootNext
            BY <2>1, <2>4 DEF EnvsOf, Top, Config, EfiEnv
        <3>2. Primary = E!Primary(env)
            BY <2>1, <2>4 DEF PrimaryOf
        <3> QED BY <2>4, <3>1, <3>2, EfiPrimary DEF E!Readable
    <2> QED BY <2>1, <2>2, <2>3, <2>4 DEF Config, Known, OneWrite
<1> QED BY <1>1, BackendInvariant, PTL

----------------------------------------------------------------------------
(* The refinement.                                                          *)

LEMMA ContractInit == ASSUME Init PROVE Contract!Init
<1>1. BackendInv /\ call = NoCall
    BY BackendInit DEF Init
<1>2. Primary \in Slots \cup {NoSlot} /\ {s \in Slots : Good(s)} \subseteq Slots
    BY <1>1, NextIsSlot, Answers DEF BackendInv
<1>3. bootNext \in BOOLEAN /\ (loader = "uboot") \in BOOLEAN
    BY <1>1 DEF BackendInv, Config
<1> QED BY <1>1, <1>2, <1>3 DEF Contract!Init, Contract!TypeOK

\* What the contract sees stays when loader and environment do.
LEMMA SameAnswers ==
    ASSUME BackendInv, UNCHANGED <<loader, bootNext, env>>
    PROVE  /\ Primary' = Primary /\ {s \in Slots : Good(s)}' = {s \in Slots : Good(s)}
           /\ bootNext' = bootNext /\ (loader = "uboot")' = (loader = "uboot")
<1>1. Config(loader, bootNext) /\ Config(loader, bootNext)'
    BY DEF BackendInv
<1> QED BY <1>1, Answers, AnswersAfter

LEMMA WriteWorks == ASSUME BackendInv, Write PROVE Contract!Step \/ Contract!Succeed
<1> DEFINE G0 == {s \in Slots : Good(s)}
           p0 == Primary
<1>1. /\ Config(loader, bootNext) /\ Config(loader, bootNext)' /\ loader' = loader
      /\ bootNext' = bootNext /\ (loader = "uboot")' = (loader = "uboot") /\ call # NoCall
    BY WriteDoes DEF BackendInv
<1>2. /\ p0 = PrimaryOf(loader, env) /\ p0' = PrimaryOf(loader, env')
      /\ G0 = GoodOf(loader, env) /\ G0' = GoodOf(loader, env')
    BY <1>1, Answers, AnswersAfter
<1> HIDE DEF G0, p0
<1>3. Worked(loader, bootNext, call.op, G0, G0', p0, p0', call.slot)
    BY <1>2, WriteDoes DEF StepTo
<1>4. Contract!OthersKept(call.slot)
    BY <1>3 DEF Worked, Contract!OthersKept, G0
<1>5. Contract!Work(call.op, call.slot)
    BY <1>1, <1>3, <1>4 DEF Worked, Contract!Work, G0, p0
<1>6. CASE call' = call
    BY <1>1, <1>5, <1>6 DEF Contract!Step
<1>7. CASE call' = NoCall /\ LastTo(loader, bootNext, env, env', call.op, call.slot)
    <2>1. Finished(bootNext, call.op, G0', p0', call.slot) /\ call.op \in Operations
        BY <1>2, <1>7, WriteDoes DEF LastTo
    <2>2. Contract!Done(call.op, call.slot)
        BY <2>1 DEF Finished, Contract!Done, Operations, G0, p0
    <2> QED BY <1>1, <1>5, <1>7, <2>2 DEF Contract!Succeed
<1> QED BY <1>6, <1>7, WriteDoes

LEMMA BootBoots == ASSUME BackendInv, BackendInv', Boot PROVE Contract!Boot
<1>1. call = NoCall /\ UNCHANGED <<call, loader, bootNext>>
    BY DEF BackendInv, CallOK, Boot, config
<1>2. Primary' \in Slots \cup {NoSlot} /\ {s \in Slots : Good(s)}' \subseteq Slots
    BY NextIsSlot, AnswersAfter DEF BackendInv
<1> QED BY <1>1, <1>2 DEF Contract!Boot

LEMMA ContractNext ==
    BackendInv /\ BackendInv' /\ [Next]_vars => [Contract!Next]_(Contract!vars)
<1> SUFFICES ASSUME BackendInv, BackendInv', [Next]_vars
             PROVE  Contract!Next \/ UNCHANGED Contract!vars
    BY DEF Contract!vars
<1>1. ASSUME NEW op \in Operations, NEW s \in Slots, Mark(op, s)
      PROVE  Contract!Begin(op, s)
    BY <1>1, SameAnswers DEF Mark, config, Contract!Begin
<1>2. CASE CommandFails
    BY <1>2, SameAnswers DEF CommandFails, config, Contract!Abandon, Contract!Next
<1>3. CASE Abort
    BY <1>3, SameAnswers DEF Abort, config, Contract!Abandon, Contract!Next
<1>4. CASE PowerCut
    BY <1>4, SameAnswers DEF PowerCut, config, Contract!Abandon, Contract!Next, Contract!vars
<1>5. CASE UNCHANGED vars
    BY <1>5, SameAnswers DEF vars, Contract!vars
<1>6. CASE \E op \in Operations, s \in Slots : Mark(op, s)
    BY <1>1, <1>6 DEF Contract!Next, Contract!Operations, Operations
<1> QED BY <1>2, <1>3, <1>4, <1>5, <1>6, WriteWorks, BootBoots DEF Next, Contract!Next

\* Every loader interface keeps what include/bootchooser.h promises: every command of a mark
\* call, every failure, assertion, power cut and start is a step of BootSelection, for any number
\* of slots and any counters (r_boot_set_state, r_boot_set_primary).
THEOREM LoadersKeepContract == Spec => KeepsContract
<1>1. Init => Contract!Init
    BY ContractInit
<1> QED BY <1>1, BackendInvariant, ContractNext, PTL DEF Spec, KeepsContract, Contract!Spec
=============================================================================
