-------------------------- MODULE SearchServiceProofs --------------------------
(***************************************************************************)
(* Theorems about SearchService and SearchIndexStore, for any number of    *)
(* classes, builds, reads and searches, and any budget: the index reports  *)
(* what it holds, counters are exact sums within their budgets, and pages  *)
(* are served from the index their hits were found in.                     *)
(***************************************************************************)
EXTENDS SearchService, FiniteSetTheorems, TLAPS

-----------------------------------------------------------------------------
(* Sums of sizes, and the order of use.                                    *)

Sized(size, S) == IsFiniteSet(S) /\ \A x \in S : size[x] \in Nat

\* The numbers up to n are finitely many, namely n.
LEMMA CountTo ==
    ASSUME NEW n \in Nat
    PROVE  IsFiniteSet(1..n) /\ Cardinality(1..n) = n
BY FS_Interval

\* The bytes of finitely many entries are a number.
LEMMA BytesFinite ==
    ASSUME NEW size, NEW S, Sized(size, S)
    PROVE  /\ IsFiniteSet(UNION {{x} \X (1..size[x]) : x \in S})
           /\ Bytes(size, S) \in Nat
<1> DEFINE cells(x) == {x} \X (1..size[x])
           g == [x \in S |-> cells(x)]
           C == {cells(x) : x \in S}
<1>0. IsFiniteSet(S) /\ \A x \in S : size[x] \in Nat
  BY DEF Sized
<1>1. ASSUME NEW x \in S PROVE IsFiniteSet(cells(x))
  <2>1. IsFiniteSet({x})
    BY FS_Singleton
  <2>2. IsFiniteSet(1..size[x])
    BY <1>0, CountTo
  <2> QED BY <2>1, <2>2, FS_Product
<1>2. g \in Surjection(S, C)
  BY DEF Surjection
<1>3. IsFiniteSet(C)
  <2> HIDE DEF C, g
  <2> QED BY <1>0, <1>2, FS_Surjection
<1>4. IsFiniteSet(UNION C)
  BY <1>1, <1>3, FS_UNION
<1> QED BY <1>4, FS_CardinalityType DEF Bytes

\* They add up over disjoint sets.
LEMMA BytesSplit ==
    ASSUME NEW size, NEW S, Sized(size, S), NEW T \in SUBSET S
    PROVE  /\ Bytes(size, S) = Bytes(size, S \ T) + Bytes(size, T)
           /\ Bytes(size, S \ T) \in Nat /\ Bytes(size, T) \in Nat
<1> DEFINE C(U) == UNION {{x} \X (1..size[x]) : x \in U}
<1>1. Sized(size, S \ T) /\ Sized(size, T)
  BY FS_Difference, FS_Subset DEF Sized
<1>2. /\ IsFiniteSet(C(S \ T)) /\ IsFiniteSet(C(T))
      /\ Bytes(size, S \ T) \in Nat /\ Bytes(size, T) \in Nat
  BY <1>1, BytesFinite
<1>3. C(S) = C(S \ T) \cup C(T) /\ C(S \ T) \cap C(T) = {}
  OBVIOUS
<1>4. Cardinality(C(S)) = Cardinality(C(S \ T)) + Cardinality(C(T)) - Cardinality({})
  <2> HIDE DEF C
  <2> QED BY <1>2, <1>3, FS_Union
<1> QED BY <1>2, <1>4, FS_EmptySet DEF Bytes

\* Only the sizes of the entries counted matter.
LEMMA BytesSame ==
    ASSUME NEW size, NEW other, NEW S, \A x \in S : size[x] = other[x]
    PROVE  Bytes(size, S) = Bytes(other, S)
BY DEF Bytes

\* What one entry takes, and none.
LEMMA BytesOfOne ==
    ASSUME NEW size, NEW x, size[x] \in Nat
    PROVE  Bytes(size, {x}) = size[x]
<1>1. UNION {{y} \X (1..size[y]) : y \in {x}} = {x} \X (1..size[x])
  OBVIOUS
<1>2. Cardinality({x} \X (1..size[x])) = 1 * size[x]
  <2> DEFINE n == size[x]
  <2>1. n \in Nat
    OBVIOUS
  <2> HIDE DEF n
  <2>2. IsFiniteSet(1..n) /\ Cardinality(1..n) = n
    BY <2>1, CountTo
  <2>3. IsFiniteSet({x}) /\ Cardinality({x}) = 1
    BY FS_Singleton
  <2>4. Cardinality({x} \X (1..n)) = 1 * n
    BY <2>2, <2>3, FS_Product, ZenonT(30)
  <2> QED BY <2>4 DEF n
<1> QED BY <1>1, <1>2 DEF Bytes

LEMMA BytesOfNone ==
    ASSUME NEW size
    PROVE  Bytes(size, {}) = 0
<1>1. UNION {{x} \X (1..size[x]) : x \in {}} = {}
  OBVIOUS
<1> QED BY <1>1, FS_EmptySet DEF Bytes

\* One entry more.
LEMMA BytesWith ==
    ASSUME NEW size, NEW S, Sized(size, S), NEW x, x \notin S, size[x] \in Nat
    PROVE  /\ Bytes(size, S \cup {x}) = Bytes(size, S) + size[x]
           /\ Bytes(size, S) \in Nat
<1>1. Sized(size, S \cup {x})
  BY FS_AddElement DEF Sized
<1>2. (S \cup {x}) \ S = {x} /\ S \in SUBSET (S \cup {x})
  OBVIOUS
<1>3. /\ Bytes(size, S \cup {x}) = Bytes(size, {x}) + Bytes(size, S)
      /\ Bytes(size, S) \in Nat
  BY <1>1, <1>2, BytesSplit
<1>4. Bytes(size, {x}) = size[x]
  BY BytesOfOne
<1> QED BY <1>3, <1>4

\* An entry that is used again, or for the first time, is the newest.
LEMMA UsedLast ==
    ASSUME NEW S, NEW order, IsLru(order, S), NEW x
    PROVE  IsLru(lastUsed(order, S, x), S \cup {x})
BY DEF IsLru, lastUsed

\* What remains of an order is one.
LEMMA AmongThem ==
    ASSUME NEW S, NEW order, IsLru(order, S), NEW T \in SUBSET S
    PROVE  IsLru(among(order, T), T)
BY DEF IsLru, among

-----------------------------------------------------------------------------
(* The index, as each section of its lock leaves it.                       *)

StoreTypes ==
    /\ key \in Nat \cup {None} /\ generation \in Nat
    /\ unfinishedBuilds \in SUBSET Domain
    /\ status \in [Fragment -> FragmentState]
    /\ held \in [Fragment -> Content \cup {None}]
    /\ retainedBytes \in Nat /\ catalogBytes \in Nat

\* The counter is the sum of what is held, and eviction can find all of it.
Counted ==
    /\ retainedBytes = catalogBytes + Bytes(sizes(held), Held) /\ retainedBytes <= MaxBytes
    /\ IsLru(older, Held)

Sound == StoreTypes /\ HeldAsReported /\ Counted

\* Views before and after are the same, or have different generations.
Moved ==
    \/ UNCHANGED <<key, generation, status, held, unfinishedBuilds>>
    \/ generation' > generation

\* Nothing but f was put into the index; others may have left it.
Filed(f) ==
    /\ UNCHANGED <<key, unfinishedBuilds>>
    /\ \A g \in Fragment \ {f} :
          status'[g] = "INDEXED" => status[g] = "INDEXED" /\ held'[g] = held[g]
    /\ \A g \in Fragment : status[g] = "none" <=> status'[g] = "none"

\* There are finitely many fragments, and each held one has a size.
LEMMA FragmentsFinite ==
    /\ IsFiniteSet(Fragment)
    /\ \A h \in [Fragment -> Content \cup {None}], S \in SUBSET Fragment : Sized(sizes(h), S)
<1>1. IsFiniteSet({"MEMBER_NAME", "SOURCE_TEXT"})
  <2>1. IsFiniteSet({"MEMBER_NAME"})
    BY FS_Singleton
  <2>2. {"MEMBER_NAME", "SOURCE_TEXT"} = {"MEMBER_NAME"} \cup {"SOURCE_TEXT"}
    OBVIOUS
  <2> QED BY <2>1, <2>2, FS_AddElement
<1>2. IsFiniteSet(Fragment)
  BY <1>1, StoreAssumption, FS_Product DEF Fragment
<1>3. ASSUME NEW h \in [Fragment -> Content \cup {None}], NEW f \in Fragment
      PROVE  sizes(h)[f] \in Nat
  BY <1>3, StoreAssumption DEF sizes, Content
<1>4. \A S \in SUBSET Fragment : IsFiniteSet(S)
  BY <1>2, FS_Subset
<1> QED BY <1>2, <1>3, <1>4 DEF Sized

LEMMA UnchangedSound ==
    ASSUME Sound, UNCHANGED storeVars
    PROVE  Sound' /\ Moved /\ \A f : Filed(f)
BY DEF Sound, StoreTypes, HeldAsReported, Counted, Held, Known, Moved, Filed, storeVars

\* Replacing one fragment changes the sum by the difference of their sizes.
LEMMA BytesPut ==
    ASSUME NEW h \in [Fragment -> Content \cup {None}], NEW f \in Fragment,
           NEW content \in Content, NEW S \in SUBSET Fragment,
           \A g \in Fragment : g \in S <=> h[g] # None
    PROVE  LET put == [h EXCEPT ![f] = content]
           IN  /\ put \in [Fragment -> Content \cup {None}]
               /\ Bytes(sizes(h), S) - sizes(h)[f] + sizes(put)[f]
                     = Bytes(sizes(put), S \cup {f})
               /\ Bytes(sizes(put), S \cup {f}) \in Nat
<1> DEFINE put == [h EXCEPT ![f] = content]
           rest == S \ {f}
<1>1. put \in [Fragment -> Content \cup {None}]
  OBVIOUS
<1>2. /\ Sized(sizes(h), rest) /\ Sized(sizes(put), rest)
      /\ sizes(h)[f] \in Nat /\ sizes(put)[f] \in Nat
  <2>1. rest \in SUBSET Fragment /\ {f} \in SUBSET Fragment
    OBVIOUS
  <2>2. Sized(sizes(h), {f}) /\ Sized(sizes(put), {f})
    BY <1>1, <2>1, FragmentsFinite
  <2> QED BY <1>1, <2>1, <2>2, FragmentsFinite DEF Sized
<1>3. \A g \in rest : sizes(h)[g] = sizes(put)[g]
  BY DEF sizes
<1>4. Bytes(sizes(h), rest) = Bytes(sizes(put), rest)
  BY <1>3, BytesSame
<1>5. /\ Bytes(sizes(put), rest \cup {f}) = Bytes(sizes(put), rest) + sizes(put)[f]
      /\ Bytes(sizes(put), rest) \in Nat
  BY <1>2, BytesWith
<1>6. rest \cup {f} = S \cup {f}
  OBVIOUS
<1>7. Bytes(sizes(h), S) = Bytes(sizes(h), rest) + sizes(h)[f]
  <2>1. CASE f \in S
    <3>1. Bytes(sizes(h), rest \cup {f}) = Bytes(sizes(h), rest) + sizes(h)[f]
      BY <1>2, BytesWith
    <3>2. rest \cup {f} = S
      BY <2>1
    <3> QED BY <3>1, <3>2
  <2>2. CASE f \notin S
    <3>1. rest = S /\ h[f] = None
      BY <2>2
    <3>2. sizes(h)[f] = 0
      BY <3>1 DEF sizes
    <3>3. Bytes(sizes(h), S) \in Nat
      BY <1>4, <1>5, <3>1
    <3> HIDE DEF rest
    <3> QED BY <3>1, <3>2, <3>3
  <2> QED BY <2>1, <2>2
<1>8. Bytes(sizes(h), S) - sizes(h)[f] + sizes(put)[f] = Bytes(sizes(put), S \cup {f})
  <2>1. Bytes(sizes(put), S \cup {f}) = Bytes(sizes(put), rest) + sizes(put)[f]
    BY <1>5, <1>6
  <2>2. Bytes(sizes(h), S) = Bytes(sizes(put), rest) + sizes(h)[f]
    BY <1>4, <1>7
  <2>3. Bytes(sizes(put), rest) \in Nat /\ sizes(h)[f] \in Nat /\ sizes(put)[f] \in Nat
    BY <1>2, <1>5
  <2> HIDE DEF rest, put
  <2> QED BY <2>1, <2>2, <2>3
<1>9. Bytes(sizes(put), S \cup {f}) \in Nat
  <2> HIDE DEF rest, put
  <2> QED BY <1>2, <1>5, <1>6
<1> QED BY <1>1, <1>8, <1>9

\* Putting a fragment and evicting others: what publishMembers and
\* publishSource do once they have accepted.
LEMMA StoreKeeps ==
    ASSUME Sound, NEW f \in Known, NEW content \in Content, content.of = key,
           NEW next \in {"INDEXED", "FAILED"},
           next = "FAILED" => f[1] = "SOURCE_TEXT" /\ content.text \in Partial,
           store(f, content, next)
    PROVE  /\ Sound' /\ Moved /\ Filed(f)
           /\ status'[f] = "INDEXED" => held'[f] = content
<1> DEFINE put == [held EXCEPT ![f] = content]
           all == Held \cup {f}
           order == lastUsed(older, Held, f)
           bytes == retainedBytes - sizes(held)[f] + sizes(put)[f]
           left(S) == bytes - Bytes(sizes(put), all \ S)
<1>0. /\ StoreTypes /\ HeldAsReported /\ Counted
      /\ f \in Fragment /\ status[f] # "none" /\ content # None
      /\ UNCHANGED <<key, unfinishedBuilds, catalogBytes>>
  BY StoreAssumption DEF Sound, Known, store
<1>1. CASE held[f] = content /\ status[f] = next
  <2>1. /\ older' = lastUsed(older, Held, f)
        /\ UNCHANGED <<generation, status, held, retainedBytes>>
    BY <1>1 DEF store
  <2>2. Held \cup {f} = Held /\ Held' = Held
    BY <1>0, <1>1, <2>1 DEF Held
  <2>3. IsLru(older', Held')
    BY <1>0, <2>1, <2>2, UsedLast DEF Counted
  <2>4. Counted'
    BY <1>0, <2>1, <2>2, <2>3 DEF Counted
  <2>5. StoreTypes' /\ HeldAsReported'
    BY <1>0, <2>1, <2>2 DEF StoreTypes, HeldAsReported
  <2> QED BY <1>0, <1>1, <2>1, <2>4, <2>5 DEF Sound, Moved, Filed
<1>2. CASE ~ (held[f] = content /\ status[f] = next)
  <2>1. PICK kept \in SUBSET all :
           /\ Keeps(order, all, kept, {S \in SUBSET all : left(S) > MaxBytes})
           /\ held' = [g \in Fragment |-> IF g \in kept THEN put[g] ELSE None]
           /\ status' = [g \in Fragment |-> IF g \in all \ kept THEN "EVICTED"
                                            ELSE IF g = f THEN next ELSE status[g]]
           /\ older' = among(order, kept)
           /\ retainedBytes' = left(kept)
           /\ generation' = generation + 1 + Cardinality(all \ kept)
    BY <1>2 DEF store
  <2>2. /\ held \in [Fragment -> Content \cup {None}] /\ generation \in Nat
        /\ status \in [Fragment -> FragmentState]
        /\ catalogBytes \in Nat /\ retainedBytes \in Nat
        /\ Held \in SUBSET Fragment /\ \A g \in Fragment : g \in Held <=> held[g] # None
    BY <1>0 DEF StoreTypes, Held
  <2>3. /\ put \in [Fragment -> Content \cup {None}]
        /\ Bytes(sizes(held), Held) - sizes(held)[f] + sizes(put)[f] = Bytes(sizes(put), all)
        /\ Bytes(sizes(put), all) \in Nat
    BY <1>0, <2>2, BytesPut
  <2>4. /\ all \in SUBSET Fragment /\ kept \in SUBSET Fragment
        /\ \A g \in Fragment : g \in all <=> put[g] # None
    BY <1>0, <2>2
  <2>5. held' \in [Fragment -> Content \cup {None}]
    BY <2>1, <2>3
  <2>6. Held' = kept /\ \A g \in kept : sizes(held')[g] = sizes(put)[g]
    BY <2>1, <2>4 DEF Held, sizes
  <2>7. /\ left(kept) = catalogBytes + Bytes(sizes(held'), kept)
        /\ Bytes(sizes(held'), kept) \in Nat
    <3>1. Sized(sizes(put), all)
      BY <2>3, <2>4, FragmentsFinite
    <3>2. /\ Bytes(sizes(put), all) = Bytes(sizes(put), all \ kept) + Bytes(sizes(put), kept)
          /\ Bytes(sizes(put), all \ kept) \in Nat /\ Bytes(sizes(put), kept) \in Nat
      BY <3>1, <2>1, BytesSplit
    <3>3. Bytes(sizes(held'), kept) = Bytes(sizes(put), kept)
      <4> HIDE DEF put
      <4>1. \A g \in kept : sizes(held')[g] = sizes(put)[g]
        BY <2>6
      <4> QED BY <4>1, BytesSame
    <3>4. bytes = catalogBytes + Bytes(sizes(put), all)
      <4>1. retainedBytes = catalogBytes + Bytes(sizes(held), Held)
        BY <1>0 DEF Counted
      <4>2. sizes(held)[f] \in Nat /\ sizes(put)[f] \in Nat
        <5>1. Sized(sizes(held), {f}) /\ Sized(sizes(put), {f})
          <6>1. {f} \in SUBSET Fragment
            BY <1>0
          <6> HIDE DEF put
          <6> QED BY <2>2, <2>3, <6>1, FragmentsFinite
        <5> QED BY <5>1 DEF Sized
      <4>3. Bytes(sizes(held), Held) \in Nat
        <5>1. Sized(sizes(held), Held)
          BY <2>2, FragmentsFinite
        <5> QED BY <5>1, BytesFinite
      <4> HIDE DEF put, all
      <4> QED BY <2>2, <2>3, <4>1, <4>2, <4>3
    <3> HIDE DEF put, all, bytes
    <3> QED BY <2>2, <3>2, <3>3, <3>4
  <2>8. retainedBytes' \in Nat /\ retainedBytes' = catalogBytes' + Bytes(sizes(held'), Held')
    <3> HIDE DEF left
    <3> QED BY <1>0, <2>1, <2>2, <2>6, <2>7
  <2>9. retainedBytes' <= MaxBytes
    <3>1. CASE kept = {}
      <4>1. Bytes(sizes(held'), kept) = 0
        BY <3>1, BytesOfNone
      <4>2. catalogBytes <= MaxBytes
        <5>1. Sized(sizes(held), Held)
          BY <2>2, FragmentsFinite
        <5>2. Bytes(sizes(held), Held) \in Nat
          BY <5>1, BytesFinite
        <5> QED BY <1>0, <2>2, <5>2, StoreAssumption DEF Counted
      <4> QED BY <1>0, <2>2, <2>6, <2>8, <4>1, <4>2
    <3>2. CASE kept # {}
      <4>1. kept \notin {S \in SUBSET all : left(S) > MaxBytes}
        BY <2>1, <3>2 DEF Keeps
      <4>2. ~ (left(kept) > MaxBytes)
        BY <2>1, <4>1
      <4> HIDE DEF left
      <4> QED BY <2>1, <2>8, <4>2, StoreAssumption
    <3> QED BY <3>1, <3>2
  <2>10. IsLru(older', Held')
    <3>1. IsLru(order, all)
      BY <1>0, UsedLast DEF Counted
    <3>2. IsLru(among(order, kept), kept)
      BY <2>1, <3>1, AmongThem
    <3> QED BY <2>1, <2>6, <3>2
  <2>11. Counted'
    BY <2>8, <2>9, <2>10 DEF Counted
  <2>12. generation' \in Nat /\ generation' > generation
    <3>1. IsFiniteSet(all \ kept)
      BY <2>4, FragmentsFinite, FS_Subset
    <3>2. Cardinality(all \ kept) \in Nat
      BY <3>1, FS_CardinalityType
    <3> QED BY <2>1, <2>2, <3>2
  <2>13. StoreTypes'
    <3>1. status' \in [Fragment -> FragmentState]
      BY <2>1, <2>2 DEF FragmentState
    <3> QED BY <1>0, <2>5, <2>8, <2>12, <3>1 DEF StoreTypes
  <2>14. HeldAsReported'
    <3>1. ASSUME NEW g \in Held'
          PROVE  /\ held'[g].of = key'
                 /\ \/ status'[g] = "INDEXED"
                    \/ status'[g] = "FAILED" /\ g[1] = "SOURCE_TEXT" /\ held'[g].text \in Partial
      <4>1. g \in kept /\ g \in Fragment /\ held'[g] = put[g]
        BY <2>1, <2>4, <2>6
      <4>2. CASE g = f
        <5>1. held'[g] = content /\ status'[g] = next
          BY <2>1, <2>2, <4>1, <4>2
        <5> QED BY <1>0, <4>2, <5>1
      <4>3. CASE g # f
        <5>1. held'[g] = held[g] /\ status'[g] = status[g] /\ g \in Held
          BY <2>1, <2>2, <2>4, <4>1, <4>3
        <5> QED BY <1>0, <5>1 DEF HeldAsReported
      <4> QED BY <4>2, <4>3
    <3>2. ASSUME NEW g \in Fragment, status'[g] = "INDEXED"
          PROVE  g \in Held'
      <4>1. g \notin all \ kept
        BY <2>1, <3>2
      <4>2. CASE g = f
        BY <2>6, <4>1, <4>2
      <4>3. CASE g # f
        <5>1. status[g] = "INDEXED"
          BY <2>1, <3>2, <4>1, <4>3
        <5>2. g \in Held
          BY <1>0, <5>1 DEF HeldAsReported
        <5> QED BY <2>6, <4>1, <5>2
      <4> QED BY <4>2, <4>3
    <3> QED BY <3>1, <3>2 DEF HeldAsReported
  <2>15. Filed(f)
    <3>1. ASSUME NEW g \in Fragment \ {f}, status'[g] = "INDEXED"
          PROVE  status[g] = "INDEXED" /\ held'[g] = held[g]
      <4>1. g \notin all \ kept /\ status[g] = "INDEXED"
        BY <2>1, <3>1
      <4>2. g \in kept
        BY <1>0, <4>1 DEF HeldAsReported
      <4> QED BY <2>1, <2>2, <4>1, <4>2
    <3>2. ASSUME NEW g \in Fragment PROVE status[g] = "none" <=> status'[g] = "none"
      <4>1. CASE g \in all \ kept
        <5>1. status[g] # "none"
          <6>1. g \in Held => status[g] # "none"
            BY <1>0 DEF HeldAsReported
          <6> QED BY <1>0, <4>1, <6>1
        <5> QED BY <2>1, <4>1, <5>1
      <4>2. CASE g \notin all \ kept
        BY <1>0, <2>1, <4>2
      <4> QED BY <4>1, <4>2
    <3> QED BY <1>0, <3>1, <3>2 DEF Filed
  <2>16. status'[f] = "INDEXED" => held'[f] = content
    BY <1>0, <2>1, <2>2
  <2> QED BY <2>11, <2>12, <2>13, <2>14, <2>15, <2>16 DEF Sound, Moved
<1> QED BY <1>1, <1>2

\* Fragments that are marked or reset are held no longer.
LEMMA DropKeeps ==
    ASSUME Sound, NEW S \in SUBSET Known, NEW next \in {"SKIPPED", "FAILED", "PENDING"},
           drop(S, next)
    PROVE  /\ Sound' /\ Moved /\ \A f : Filed(f)
           /\ \A f \in S : status'[f] # "INDEXED"
<1>1. /\ StoreTypes /\ HeldAsReported /\ Counted
      /\ held' = [f \in Fragment |-> IF f \in S THEN None ELSE held[f]]
      /\ status' = [f \in Fragment |-> IF f \in S THEN next ELSE status[f]]
      /\ older' = among(older, Held \ S)
      /\ retainedBytes' = retainedBytes - Bytes(sizes(held), Held \cap S)
      /\ generation' = generation + 1
      /\ UNCHANGED <<key, unfinishedBuilds, catalogBytes>>
      /\ S \in SUBSET Fragment /\ \A f \in S : status[f] # "none"
  BY DEF Sound, drop, Known
<1>2. /\ held \in [Fragment -> Content \cup {None}] /\ status \in [Fragment -> FragmentState]
      /\ catalogBytes \in Nat /\ retainedBytes \in Nat /\ generation \in Nat
      /\ Held \in SUBSET Fragment
  BY <1>1 DEF StoreTypes, Held
<1>3. Held' = Held \ S /\ \A f \in Held \ S : sizes(held')[f] = sizes(held)[f]
  BY <1>1, <1>2 DEF Held, sizes
<1>4. StoreTypes'
  <2>1. retainedBytes' \in Nat
    <3>1. Sized(sizes(held), Held)
      BY <1>2, FragmentsFinite
    <3>2. Held \cap S \in SUBSET Held
      OBVIOUS
    <3>3. /\ Bytes(sizes(held), Held) = Bytes(sizes(held), Held \ (Held \cap S))
                                          + Bytes(sizes(held), Held \cap S)
          /\ Bytes(sizes(held), Held \ (Held \cap S)) \in Nat
          /\ Bytes(sizes(held), Held \cap S) \in Nat
      BY <3>1, <3>2, BytesSplit
    <3> QED BY <1>1, <1>2, <3>3 DEF Counted
  <2>2. status' \in [Fragment -> FragmentState] /\ held' \in [Fragment -> Content \cup {None}]
    BY <1>1, <1>2 DEF FragmentState
  <2> QED BY <1>1, <1>2, <2>1, <2>2 DEF StoreTypes
<1>5. Counted'
  <2>1. Sized(sizes(held), Held) /\ Held \cap S \in SUBSET Held
    BY <1>2, FragmentsFinite
  <2>2. /\ Bytes(sizes(held), Held) = Bytes(sizes(held), Held \ (Held \cap S))
                                        + Bytes(sizes(held), Held \cap S)
        /\ Bytes(sizes(held), Held \ (Held \cap S)) \in Nat
        /\ Bytes(sizes(held), Held \cap S) \in Nat
    BY <2>1, BytesSplit
  <2>3. Held \ (Held \cap S) = Held \ S
    OBVIOUS
  <2>4. Bytes(sizes(held'), Held \ S) = Bytes(sizes(held), Held \ S)
    BY <1>3, BytesSame
  <2>5. retainedBytes' = catalogBytes' + Bytes(sizes(held'), Held')
    <3>1. retainedBytes = catalogBytes + Bytes(sizes(held), Held)
      BY <1>1 DEF Counted
    <3>2. Bytes(sizes(held), Held) - Bytes(sizes(held), Held \cap S)
             = Bytes(sizes(held'), Held \ S)
      <4>1. Bytes(sizes(held), Held \ (Held \cap S)) = Bytes(sizes(held'), Held \ S)
        BY <2>3, <2>4
      <4> DEFINE old == Bytes(sizes(held), Held)
                 out == Bytes(sizes(held), Held \cap S)
                 in == Bytes(sizes(held'), Held \ S)
      <4>2. old = in + out /\ in \in Nat /\ out \in Nat
        BY <2>2, <4>1
      <4> HIDE DEF old, in, out
      <4>3. old - out = in
        BY <4>2
      <4> QED BY <4>3 DEF old, in, out
    <3>3. retainedBytes' = catalogBytes + Bytes(sizes(held'), Held \ S)
      BY <1>1, <1>2, <2>2, <3>1, <3>2
    <3> QED BY <1>1, <1>3, <3>3
  <2>6. retainedBytes' <= MaxBytes
    BY <1>1, <1>2, <2>2, StoreAssumption DEF Counted
  <2>7. Held \ S \in SUBSET Held
    OBVIOUS
  <2>8. IsLru(older', Held')
    BY <1>1, <1>3, <2>7, AmongThem DEF Counted
  <2> QED BY <2>5, <2>6, <2>8 DEF Counted
<1>6. HeldAsReported'
  <2>1. \A f \in Held' : held'[f] = held[f] /\ status'[f] = status[f] /\ f \in Held
    BY <1>1, <1>2, <1>3
  <2>2. \A f \in Fragment : status'[f] = "INDEXED" => status[f] = "INDEXED" /\ f \notin S
    BY <1>1
  <2> QED BY <1>1, <1>3, <2>1, <2>2 DEF HeldAsReported
<1>7. \A f : Filed(f)
  BY <1>1, <1>2 DEF Filed
<1>8. Moved
  BY <1>1, <1>2 DEF Moved
<1> QED BY <1>1, <1>4, <1>5, <1>6, <1>7, <1>8 DEF Sound

\* failMembers, failSource and skipSource, on the index and on a stranger's.
LEMMA MarkKeeps ==
    ASSUME Sound, NEW k, NEW f \in Fragment, NEW next \in {"SKIPPED", "FAILED"}, mark(k, f, next)
    PROVE  /\ Sound' /\ Moved /\ Filed(f)
           /\ accept(k) => status'[f] # "INDEXED"
<1>1. CASE accept(k) /\ f \in Known
  <2>1. drop({f}, next) /\ {f} \in SUBSET Known
    BY <1>1 DEF mark
  <2> QED BY <2>1, DropKeeps
<1>2. CASE ~ (accept(k) /\ f \in Known)
  <2>1. UNCHANGED storeVars
    BY <1>2 DEF mark
  <2>2. f \notin Known => status[f] # "INDEXED"
    BY DEF Known
  <2> QED BY <1>2, <2>1, <2>2, UnchangedSound DEF storeVars
<1> QED BY <1>1, <1>2

\* publishMembers and publishSource.
LEMMA PublishKeeps ==
    ASSUME Sound, NEW k, NEW c \in Class, NEW content \in Content, content.of = k
    PROVE  /\ publishMembers(k, c, content) => Sound' /\ Moved /\ Filed(Member(c))
           /\ publishSource(k, c, content) =>
                 /\ Sound' /\ Moved /\ Filed(Source(c))
                 /\ accept(k) /\ status'[Source(c)] = "INDEXED" => held'[Source(c)] = content
<1>1. Member(c) \in Fragment /\ Source(c) \in Fragment /\ Source(c)[1] = "SOURCE_TEXT"
  BY DEF Member, Source, Fragment
<1>2. ASSUME publishMembers(k, c, content) PROVE Sound' /\ Moved /\ Filed(Member(c))
  <2>1. CASE accept(k) /\ Member(c) \in Known
    <3>1. store(Member(c), content, "INDEXED") /\ content.of = key
      BY <1>2, <2>1 DEF publishMembers, accept
    <3> QED BY <2>1, <3>1, StoreKeeps
  <2>2. CASE ~ (accept(k) /\ Member(c) \in Known)
    <3>1. UNCHANGED storeVars
      BY <1>2, <2>2 DEF publishMembers
    <3> QED BY <3>1, UnchangedSound
  <2> QED BY <2>1, <2>2
<1>3. ASSUME publishSource(k, c, content)
      PROVE  /\ Sound' /\ Moved /\ Filed(Source(c))
             /\ accept(k) /\ status'[Source(c)] = "INDEXED" => held'[Source(c)] = content
  <2>1. CASE content.text \in TooLong
    <3>1. mark(k, Source(c), "FAILED")
      BY <1>3, <2>1 DEF publishSource
    <3> QED BY <1>1, <3>1, MarkKeeps
  <2>2. CASE content.text \notin TooLong /\ accept(k) /\ Source(c) \in Known
    <3> DEFINE next == IF content.text \in Partial THEN "FAILED" ELSE "INDEXED"
    <3>1. store(Source(c), content, next) /\ content.of = key
      BY <1>3, <2>2 DEF publishSource, accept
    <3>2. next \in {"INDEXED", "FAILED"} /\ (next = "FAILED" => content.text \in Partial)
      OBVIOUS
    <3> HIDE DEF next
    <3> QED BY <1>1, <2>2, <3>1, <3>2, StoreKeeps
  <2>3. CASE content.text \notin TooLong /\ ~ (accept(k) /\ Source(c) \in Known)
    <3>1. UNCHANGED storeVars
      BY <1>3, <2>3 DEF publishSource
    <3>2. Source(c) \notin Known => status[Source(c)] # "INDEXED"
      BY <1>1 DEF Known
    <3> QED BY <2>3, <3>1, <3>2, UnchangedSound DEF storeVars
  <2> QED BY <2>1, <2>2, <2>3
<1> QED BY <1>2, <1>3

\* resetDomains, beginBuild and finishBuild.
LEMMA ResetKeeps ==
    ASSUME Sound, NEW k, NEW ds, resetDomains(k, ds)
    PROVE  Sound' /\ Moved /\ accept(k) /\ \A f : Filed(f)
<1> DEFINE S == {f \in Fragment : resettable(f, ds)}
<1>1. S \in SUBSET Known /\ drop(S, "PENDING") /\ accept(k)
  BY DEF resetDomains, resettable
<1> HIDE DEF S
<1> QED BY <1>1, DropKeeps

LEMMA UnfinishedKeeps ==
    ASSUME Sound, NEW ds \in SUBSET Domain, setUnfinished(ds)
    PROVE  /\ Sound' /\ Moved
           /\ unfinishedBuilds' = ds /\ UNCHANGED <<key, status, held>>
BY DEF Sound, StoreTypes, HeldAsReported, Counted, Held, setUnfinished, Moved

\* A new catalog replaces everything.
LEMMA InitializeKeeps ==
    ASSUME Sound, NEW k \in Nat, NEW cat, NEW noCode, NEW base \in Nat,
           initialize(k, cat, noCode, base)
    PROVE  /\ Sound' /\ Moved
           /\ \/ UNCHANGED storeVars
              \/ key' = k /\ key' # key /\ unfinishedBuilds' = {}
<1>1. CASE k # publication \/ initialized(k)
  BY <1>1, UnchangedSound DEF initialize
<1>2. CASE ~ (k # publication \/ initialized(k))
  <2>1. /\ base <= MaxBytes /\ key' = k /\ generation' = generation + 1
        /\ unfinishedBuilds' = {}
        /\ status' = pendingCatalog(cat, noCode)
        /\ held' = [f \in Fragment |-> None] /\ older' = {}
        /\ catalogBytes' = base /\ retainedBytes' = base
    BY <1>2 DEF initialize
  <2>2. k # None /\ k # key
    BY <1>2, StoreAssumption DEF initialized
  <2>3. Held' = {}
    BY <2>1 DEF Held
  <2>4. status' \in [Fragment -> FragmentState] /\ \A f \in Fragment : status'[f] # "INDEXED"
    BY <2>1 DEF pendingCatalog, FragmentState
  <2>5. StoreTypes'
    BY <2>1, <2>4 DEF StoreTypes, Sound
  <2>6. Bytes(sizes(held'), Held') = 0
    BY <2>3, BytesOfNone
  <2>7. IsLru(older', Held')
    BY <2>1, <2>3 DEF IsLru
  <2>8. Counted'
    BY <2>1, <2>6, <2>7 DEF Counted
  <2>9. HeldAsReported'
    BY <2>3, <2>4 DEF HeldAsReported
  <2>10. Moved
    BY <2>1 DEF Moved, Sound, StoreTypes
  <2> QED BY <2>1, <2>2, <2>5, <2>8, <2>9, <2>10 DEF Sound
<1> QED BY <1>1, <1>2

-----------------------------------------------------------------------------
(* The inductive invariant.                                                *)

BuildPlace == Building \cup {"idle", "finished", "broken"}
ReadPlace == {"idle", "captured", "initialized", "members", "ingested", "done"}
QueryPlace == {"idle", "viewed", "retained", "paging", "done"}

View == [key : Nat \cup {None}, generation : Nat, status : [Fragment -> FragmentState],
         held : [Fragment -> Content \cup {None}], unfinished : SUBSET Domain]

Types ==
    /\ latest \in Nat /\ publication \in {None, latest}
    /\ primary \in Build \cup Read \cup {None}
    /\ at \in [Build \cup Read \cup Query -> BuildPlace \cup ReadPlace \cup QueryPlace]
    /\ \A b \in Build : at[b] \in BuildPlace
    /\ \A r \in Read : at[r] \in ReadPlace
    /\ \A q \in Query : at[q] \in QueryPlace
    /\ captured \in [Build \cup Read -> Nat \cup {None}]
    /\ domains \in [Build -> SUBSET Domain]
    /\ todo \in [Build -> SUBSET Fragment]
    /\ emitted \in [Build -> [Class -> Text \cup {None}]]
    /\ lastBuild \in [Domain -> Build \cup {None}]
    /\ seen \in [Query -> View \cup {None}] /\ paged \in [Query -> View \cup {None}]
    /\ results \in SUBSET Query /\ resultSize \in [Query -> Nat] /\ resultBytes \in Nat

\* Whoever is at work has the lease, for a publication there has been.
Working == Building \cup {"captured", "initialized", "members", "ingested"}

Leased ==
    \A a \in Build \cup Read :
        /\ at[a] \in Working <=> primary = a
        /\ at[a] \in Working => captured[a] \in Nat /\ captured[a] <= latest

\* A build that has begun is the last one begun of its domains, and the index
\* is still the one it was made for.
Begun == {"classes", "first", "second", "finish"}

InCharge ==
    \A b \in Build :
        at[b] \in Begun => key = captured[b] /\ \A d \in domains[b] : lastBuild[d] = b

\* A domain stays unfinished until the last build begun of it is through.
Unfinished ==
    \A d \in Domain :
        lastBuild[d] # None => /\ at[lastBuild[d]] \in Begun \cup {"broken", "finished"}
                               /\ \/ at[lastBuild[d]] = "finished"
                                  \/ d \in unfinishedBuilds

\* What is indexed of the owners a build has visited is what it saw last,
\* while the publication is the one it was made for.
Texts ==
    \A b \in Build, c \in Class :
        /\ at[b] \in Begun /\ publication = captured[b] /\ "SOURCE_TEXT" \in domains[b]
        /\ at[b] = "classes" => Source(c) \notin todo[b]
        /\ status[Source(c)] = "INDEXED"
        => held[Source(c)].text = emitted[b][c]

\* The views in use, and what a view has to do with the index of now.
Recorded == {seen[q] : q \in {p \in Query : at[p] \in {"viewed", "retained", "paging"}}}
               \cup {paged[q] : q \in {p \in Query : at[p] = "paging"}}

Past(v) == /\ v \in View /\ v.generation <= generation
           /\ v.generation = generation => v = view

Views ==
    /\ \A v \in Recorded : Past(v)
    /\ \A v, w \in Recorded : v.generation = w.generation => v = w

\* The retained results and their counter.
Retained ==
    /\ \A q \in results : at[q] \in {"retained", "paging"}
    /\ resultBytes = Bytes(resultSize, results) /\ resultBytes <= ResultBudget
    /\ Cardinality(results) <= MaxResults
    /\ IsLru(resultsOlder, results)

IInv == /\ Types /\ Sound /\ Leased
        /\ InCharge /\ Unfinished /\ Texts
        /\ Views /\ Retained

\* What the runs check follows from it.
LEMMA IInvSuffices ==
    ASSUME IInv
    PROVE  CoverageHonest /\ BudgetsKept /\ PagesAreCurrent
<1>1. CompleteMeansBuilt
  BY DEF IInv, Unfinished, CompleteMeansBuilt, complete
<1>2. FinalTexts
  <2> SUFFICES ASSUME NEW b \in Build, NEW c \in Class, at[b] = "finish", accept(captured[b]),
                      "SOURCE_TEXT" \in domains[b], status[Source(c)] = "INDEXED"
               PROVE  held[Source(c)].text = emitted[b][c]
    BY DEF FinalTexts
  <2> QED BY DEF IInv, Texts, Begun, accept
<1>3. HeldAsReported /\ Counted /\ Retained
  BY DEF IInv, Sound
<1>4. PagesAreCurrent
  <2> SUFFICES ASSUME NEW q \in Query, at[q] = "paging", serves(q)
               PROVE  seen[q] = paged[q]
    BY DEF PagesAreCurrent
  <2>1. seen[q] \in Recorded /\ paged[q] \in Recorded
    BY DEF Recorded
  <2> QED BY <2>1 DEF IInv, Views, serves, sameIndex
<1> QED BY <1>1, <1>2, <1>3, <1>4 DEF CoverageHonest, BudgetsKept, Counted, Retained

LEMMA InitHolds ==
    ASSUME Init
    PROVE  IInv
<1>1. Held = {} /\ results = {} /\ Recorded = {}
  BY DEF Init, StoreInit, Held, Recorded
<1>2. Bytes(sizes(held), Held) = 0 /\ Bytes(resultSize, results) = 0 /\ Cardinality(results) = 0
  BY <1>1, BytesOfNone, FS_EmptySet
<1>3. Types
  <2>1. latest \in Nat /\ publication \in {None, latest} /\ primary \in Build \cup Read \cup {None}
    BY DEF Init, StoreInit
  <2>2. /\ at = [a \in Build \cup Read \cup Query |-> "idle"]
        /\ "idle" \in BuildPlace /\ "idle" \in ReadPlace /\ "idle" \in QueryPlace
    BY DEF Init, BuildPlace, ReadPlace, QueryPlace
  <2>3. /\ captured \in [Build \cup Read -> Nat \cup {None}]
        /\ domains \in [Build -> SUBSET Domain] /\ todo \in [Build -> SUBSET Fragment]
        /\ emitted \in [Build -> [Class -> Text \cup {None}]]
        /\ lastBuild \in [Domain -> Build \cup {None}]
    BY DEF Init
  <2>4. /\ seen \in [Query -> View \cup {None}] /\ paged \in [Query -> View \cup {None}]
        /\ results \in SUBSET Query /\ resultSize \in [Query -> Nat] /\ resultBytes \in Nat
    BY DEF Init
  <2> QED BY <2>1, <2>2, <2>3, <2>4 DEF Types
<1>4. Sound
  <2>1. StoreTypes
    BY DEF Init, StoreInit, StoreTypes, FragmentState
  <2>2. HeldAsReported
    BY <1>1 DEF Init, StoreInit, HeldAsReported
  <2>3. Counted
    BY <1>1, <1>2, StoreAssumption DEF Init, StoreInit, Counted, IsLru
  <2> QED BY <2>1, <2>2, <2>3 DEF Sound
<1>5. Leased /\ InCharge /\ Unfinished /\ Texts
  BY ServiceAssumption DEF Init, StoreInit, Leased, Working, Building, InCharge, Begun, Unfinished, Texts
<1>6. Views /\ Retained
  BY <1>1, <1>2, ServiceAssumption DEF Views, Retained, IsLru, Init
<1> QED BY <1>3, <1>4, <1>5, <1>6 DEF IInv

-----------------------------------------------------------------------------
(* What each step leaves of the index.                                     *)

LEMMA FromEngine ==
    ASSUME Types, NEW a \in Build \cup Read, captured[a] \in Nat, NEW text \in Text
    PROVE  fromEngine(a, text) \in Content /\ fromEngine(a, text).of = captured[a]
BY DEF fromEngine, Content

\* A step of the build b that is made at the places listed changes the index
\* only by the sections of SearchIndexStore.
LEMMA BuildKeepsSound ==
    ASSUME IInv, NEW b \in Build, BuildStep(b)
    PROVE  Sound' /\ Moved
<1>0. Types /\ Sound /\ (at[b] \in Working => captured[b] \in Nat)
  BY DEF IInv, Leased
<1>1. CASE buildStarts(b) \/ nextPass(b) \/ breaksOff(b)
  BY <1>0, <1>1, UnchangedSound DEF buildStarts, nextPass, breaksOff
<1>2. CASE resets(b)
  BY <1>0, <1>2, ResetKeeps DEF resets
<1>3. CASE begins(b)
  <2>1. setUnfinished(unfinishedBuilds \cup domains[b]) /\ unfinishedBuilds \cup domains[b] \in SUBSET Domain
    BY <1>0, <1>3 DEF begins, beginBuild, Types, Sound, StoreTypes
  <2> QED BY <1>0, <2>1, UnfinishedKeeps
<1>4. CASE finishes(b)
  <2>1. setUnfinished(unfinishedBuilds \ domains[b]) /\ unfinishedBuilds \ domains[b] \in SUBSET Domain
    BY <1>0, <1>4 DEF finishes, finishBuild, Types, Sound, StoreTypes
  <2> QED BY <1>0, <2>1, UnfinishedKeeps
<1>5. CASE visits(b)
  <2>0. captured[b] \in Nat
    BY <1>0, <1>5 DEF visits, Working, Building
  <2>1. \A c \in Class : Member(c) \in Fragment /\ Source(c) \in Fragment
    BY DEF Member, Source, Fragment
  <2>2. ASSUME NEW c \in Class, NEW text \in Text, publishMembers(captured[b], c, fromEngine(b, text))
        PROVE  Sound' /\ Moved
    BY <1>0, <2>0, <2>2, FromEngine, PublishKeeps
  <2>3. ASSUME NEW c \in Class, NEW text \in Text, publishSource(captured[b], c, fromEngine(b, text))
        PROVE  Sound' /\ Moved
    BY <1>0, <2>0, <2>3, FromEngine, PublishKeeps
  <2>4. ASSUME NEW f \in Fragment, NEW next \in {"SKIPPED", "FAILED"}, mark(captured[b], f, next)
        PROVE  Sound' /\ Moved
    BY <1>0, <2>4, MarkKeeps
  <2>5. PICK c \in Class :
           \/ \E text \in Text : publishMembers(captured[b], c, fromEngine(b, text))
           \/ mark(captured[b], Member(c), "FAILED")
           \/ \E next \in {"SKIPPED", "FAILED"} : mark(captured[b], Source(c), next)
           \/ \E text \in Text : publishSource(captured[b], c, fromEngine(b, text))
    BY <1>5 DEF visits
  <2> QED BY <2>1, <2>2, <2>3, <2>4, <2>5
<1>6. CASE observesAgain(b)
  <2>0. captured[b] \in Nat
    BY <1>0, <1>6 DEF observesAgain, Working, Building
  <2>1. \A c \in Class : Source(c) \in Fragment
    BY DEF Source, Fragment
  <2>2. ASSUME NEW c \in Class, NEW text \in Text, publishSource(captured[b], c, fromEngine(b, text))
        PROVE  Sound' /\ Moved
    BY <1>0, <2>0, <2>2, FromEngine, PublishKeeps
  <2>3. ASSUME NEW c \in Class, mark(captured[b], Source(c), "FAILED")
        PROVE  Sound' /\ Moved
    BY <1>0, <2>1, <2>3, MarkKeeps
  <2>4. PICK c \in Class :
           \/ mark(captured[b], Source(c), "FAILED")
           \/ \E text \in Text : publishSource(captured[b], c, fromEngine(b, text))
    BY <1>6 DEF observesAgain
  <2> QED BY <2>2, <2>3, <2>4
<1> QED BY <1>1, <1>2, <1>3, <1>4, <1>5, <1>6 DEF BuildStep

LEMMA ReadKeepsSound ==
    ASSUME IInv, NEW r \in Read, ReadStep(r)
    PROVE  Sound' /\ Moved
<1>0. Types /\ Sound /\ (at[r] \in Working => captured[r] \in Nat)
  BY DEF IInv, Leased
<1>1. CASE readStarts(r) \/ readEnds(r)
  BY <1>0, <1>1, UnchangedSound DEF readStarts, readEnds
<1>2. CASE initializes(r)
  <2>0. captured[r] \in Nat
    BY <1>0, <1>2 DEF initializes, Working
  <2>1. PICK cat \in Catalogs, base \in CatalogSizes : initialize(captured[r], cat, NoCode, base)
    BY <1>2 DEF initializes
  <2>2. base \in Nat
    BY ServiceAssumption
  <2> QED BY <1>0, <2>0, <2>1, <2>2, InitializeKeeps
<1>3. CASE ingestsMembers(r)
  <2>0. captured[r] \in Nat
    BY <1>0, <1>3 DEF ingestsMembers, Working
  <2>1. PICK c \in Class, text \in Text : publishMembers(captured[r], c, fromEngine(r, text))
    BY <1>3 DEF ingestsMembers
  <2> QED BY <1>0, <2>0, <2>1, FromEngine, PublishKeeps
<1>4. CASE ingestsSource(r)
  <2>0. captured[r] \in Nat
    BY <1>0, <1>4 DEF ingestsSource, Working
  <2>1. \A c \in Class : Source(c) \in Fragment
    BY DEF Source, Fragment
  <2>2. ASSUME NEW c \in Class, NEW text \in Text, publishSource(captured[r], c, fromEngine(r, text))
        PROVE  Sound' /\ Moved
    BY <1>0, <2>0, <2>2, FromEngine, PublishKeeps
  <2>3. ASSUME NEW c \in Class, mark(captured[r], Source(c), "FAILED")
        PROVE  Sound' /\ Moved
    BY <1>0, <2>1, <2>3, MarkKeeps
  <2>4. PICK c \in Class :
           \/ mark(captured[r], Source(c), "FAILED")
           \/ \E text \in Text : publishSource(captured[r], c, fromEngine(r, text))
    BY <1>4 DEF ingestsSource
  <2> QED BY <2>2, <2>3, <2>4
<1> QED BY <1>1, <1>2, <1>3, <1>4 DEF ReadStep

\* Publications and searches do not touch it.
LEMMA OthersKeepSound ==
    ASSUME IInv
    PROVE  /\ publish \/ withdraw => UNCHANGED storeVars
           /\ \A q \in Query : QueryStep(q) => UNCHANGED storeVars
           /\ UNCHANGED storeVars => Sound' /\ Moved
<1>1. ASSUME NEW q \in Query, QueryStep(q) PROVE UNCHANGED storeVars
  BY <1>1 DEF QueryStep, takesView, retain, turnsPage, pageFromCursor
<1>2. publish \/ withdraw => UNCHANGED storeVars
  BY DEF publish, withdraw
<1>3. UNCHANGED storeVars => Sound' /\ Moved
  BY UnchangedSound DEF IInv
<1> QED BY <1>1, <1>2, <1>3

\* Every step keeps the index sound and moves its views on.
LEMMA SoundStep ==
    ASSUME IInv, [Next]_vars
    PROVE  Sound' /\ Moved
<1>1. CASE UNCHANGED vars
  <2>1. UNCHANGED storeVars
    BY <1>1 DEF vars
  <2> QED BY <2>1, OthersKeepSound
<1>2. CASE publish \/ withdraw
  BY <1>2, OthersKeepSound
<1>3. CASE \E b \in Build : BuildStep(b)
  BY <1>3, BuildKeepsSound
<1>4. CASE \E r \in Read : ReadStep(r)
  BY <1>4, ReadKeepsSound
<1>5. CASE \E q \in Query : QueryStep(q)
  BY <1>5, OthersKeepSound
<1> QED BY <1>1, <1>2, <1>3, <1>4, <1>5 DEF Next

-----------------------------------------------------------------------------
(* Types and the lease.                                                    *)

LEMMA FragmentTypes ==
    /\ \A c \in Class : Member(c) \in Fragment /\ Source(c) \in Fragment
    /\ \A c, e \in Class : Source(c) = Source(e) => c = e
    /\ \A c, e \in Class : Member(c) # Source(e)
    /\ Known \in SUBSET Fragment
BY DEF Member, Source, Fragment, Known

LEMMA ViewTypes ==
    ASSUME Sound
    PROVE  view \in View /\ view.generation = generation
BY DEF Sound, StoreTypes, view, View

LEMMA BuildTypes ==
    ASSUME IInv, NEW b \in Build, BuildStep(b)
    PROVE  Types'
<1>0. Types
  BY DEF IInv
<1>1. CASE buildStarts(b)
  <2>1. publication \in Nat
    BY <1>0, <1>1 DEF buildStarts, admit, Types
  <2>2. \E ds \in DomainSets : domains' = [domains EXCEPT ![b] = ds]
    BY <1>1 DEF buildStarts
  <2>3. domains' \in [Build -> SUBSET Domain]
    BY <1>0, <2>2, ServiceAssumption DEF Types
  <2>4. /\ at' = [at EXCEPT ![b] = "reset"] \/ at' = [at EXCEPT ![b] = "begin"]
        /\ "reset" \in BuildPlace /\ "begin" \in BuildPlace
    BY <1>1 DEF buildStarts, GoTo, BuildPlace, Building
  <2>5. \A r \in Read \cup Query : r # b
    BY ServiceAssumption
  <2>6. /\ at' \in [Build \cup Read \cup Query -> BuildPlace \cup ReadPlace \cup QueryPlace]
        /\ \A c \in Build : at'[c] \in BuildPlace
        /\ \A r \in Read : at'[r] \in ReadPlace
        /\ \A q \in Query : at'[q] \in QueryPlace
    BY <1>0, <2>4, <2>5 DEF Types
  <2> QED BY <1>0, <1>1, <2>1, <2>3, <2>6 DEF buildStarts, admit, Types, queryVars
<1>2. CASE ~ buildStarts(b)
  <2>1. at[b] \in Building
    BY <1>2 DEF BuildStep, resets, begins, visits, observesAgain, nextPass, finishes, breaksOff, Building
  <2>2. \/ at' = at
        \/ \E place \in BuildPlace : at' = [at EXCEPT ![b] = place]
    BY <1>2 DEF BuildStep, resets, begins, visits, observesAgain, nextPass, finishes, breaksOff,
                Building, BuildPlace, GoTo, passAfter
  <2>3. \A r \in Read \cup Query : r # b
    BY ServiceAssumption
  <2>4. /\ at' \in [Build \cup Read \cup Query -> BuildPlace \cup ReadPlace \cup QueryPlace]
        /\ \A c \in Build : at'[c] \in BuildPlace
        /\ \A r \in Read : at'[r] \in ReadPlace
        /\ \A q \in Query : at'[q] \in QueryPlace
    BY <1>0, <2>2, <2>3 DEF Types
  <2>5. /\ UNCHANGED <<publication, latest, captured, domains, queryVars>>
        /\ primary' = primary \/ primary' = None
    BY <1>2 DEF BuildStep, resets, begins, visits, observesAgain, nextPass, finishes, breaksOff, buildVars
  <2>6. todo' \in [Build -> SUBSET Fragment]
    <3>1. \/ todo' = todo
          \/ \E S \in SUBSET Fragment : todo' = [todo EXCEPT ![b] = S]
      <4>1. CASE begins(b)
        <5>1. {f \in Known : f[1] \in domains[b]} \in SUBSET Fragment
          BY FragmentTypes
        <5> QED BY <4>1, <5>1 DEF begins
      <4>2. CASE visits(b) \/ observesAgain(b)
        <5>1. \A x : todo[b] \ {x} \in SUBSET Fragment
          BY <1>0 DEF Types
        <5>2. \E x : todo' = [todo EXCEPT ![b] = @ \ {x}]
          BY <4>2 DEF visits, observesAgain
        <5> QED BY <1>0, <5>1, <5>2 DEF Types
      <4>3. CASE nextPass(b)
        <5> DEFINE owners == {Source(c) : c \in {o \in Class : emitted[b][o] # None}}
        <5>1. owners \in SUBSET Fragment
          BY FragmentTypes
        <5>2. \/ todo' = [todo EXCEPT ![b] = {}]
              \/ todo' = [todo EXCEPT ![b] = owners]
          BY <4>3 DEF nextPass
        <5> QED BY <5>1, <5>2
      <4>4. CASE resets(b) \/ finishes(b) \/ breaksOff(b)
        BY <4>4 DEF resets, finishes, breaksOff, buildVars
      <4> QED BY <1>2, <4>1, <4>2, <4>3, <4>4 DEF BuildStep
    <3> QED BY <1>0, <3>1 DEF Types
  <2>7. emitted' \in [Build -> [Class -> Text \cup {None}]]
    <3>1. \/ emitted' = emitted
          \/ \E c \in Class, text \in Text \cup {None} : emitted' = [emitted EXCEPT ![b][c] = text]
      <4>1. CASE visits(b)
        BY <4>1 DEF visits
      <4>2. CASE observesAgain(b)
        BY <4>2 DEF observesAgain
      <4>3. CASE resets(b) \/ begins(b) \/ nextPass(b) \/ finishes(b) \/ breaksOff(b)
        BY <4>3 DEF resets, begins, nextPass, finishes, breaksOff, buildVars
      <4> QED BY <1>2, <4>1, <4>2, <4>3 DEF BuildStep
    <3>2. emitted \in [Build -> [Class -> Text \cup {None}]]
      BY <1>0 DEF Types
    <3>3. ASSUME NEW c \in Class, NEW text \in Text \cup {None}
          PROVE  [emitted EXCEPT ![b][c] = text] \in [Build -> [Class -> Text \cup {None}]]
      <4>1. [emitted[b] EXCEPT ![c] = text] \in [Class -> Text \cup {None}]
        BY <3>2
      <4>2. [emitted EXCEPT ![b][c] = text] = [emitted EXCEPT ![b] = [emitted[b] EXCEPT ![c] = text]]
        BY <3>2
      <4> QED BY <3>2, <4>1, <4>2
    <3> QED BY <3>1, <3>2, <3>3
  <2>8. lastBuild' \in [Domain -> Build \cup {None}]
    <3>1. CASE begins(b)
      BY <1>0, <3>1 DEF begins, Types
    <3>2. CASE ~ begins(b)
      <4>1. lastBuild' = lastBuild
        BY <1>2, <3>2 DEF BuildStep, resets, visits, observesAgain, nextPass, finishes, breaksOff, buildVars
      <4> QED BY <1>0, <4>1 DEF Types
    <3> QED BY <3>1, <3>2
  <2> QED BY <1>0, <2>4, <2>5, <2>6, <2>7, <2>8 DEF Types, queryVars
<1> QED BY <1>1, <1>2

LEMMA ReadTypes ==
    ASSUME IInv, NEW r \in Read, ReadStep(r)
    PROVE  Types'
<1>0. Types
  BY DEF IInv
<1>1. \E place \in ReadPlace : at' = [at EXCEPT ![r] = place]
  BY DEF ReadStep, readStarts, initializes, ingestsMembers, ingestsSource, readEnds, GoTo, ReadPlace
<1>2. \A a \in Build \cup Query : a # r
  BY ServiceAssumption
<1>3. /\ at' \in [Build \cup Read \cup Query -> BuildPlace \cup ReadPlace \cup QueryPlace]
      /\ \A c \in Build : at'[c] \in BuildPlace
      /\ \A c \in Read : at'[c] \in ReadPlace
      /\ \A q \in Query : at'[q] \in QueryPlace
  BY <1>0, <1>1, <1>2 DEF Types
<1>4. /\ UNCHANGED <<publication, latest, domains, todo, emitted, queryVars>>
      /\ primary' \in Build \cup Read \cup {None}
  BY <1>0 DEF ReadStep, readStarts, initializes, ingestsMembers, ingestsSource, readEnds,
              buildVars, admit, Types
<1>5. captured' \in [Build \cup Read -> Nat \cup {None}]
  <2>1. \/ captured' = captured
        \/ captured' = [captured EXCEPT ![r] = publication]
    BY DEF ReadStep, readStarts, initializes, ingestsMembers, ingestsSource, readEnds, buildVars, admit
  <2> QED BY <1>0, <2>1 DEF Types
<1>6. lastBuild' \in [Domain -> Build \cup {None}]
  <2>1. lastBuild' = lastBuild \/ lastBuild' = [d \in Domain |-> None]
    BY DEF ReadStep, readStarts, initializes, ingestsMembers, ingestsSource, readEnds, buildVars
  <2> QED BY <1>0, <2>1 DEF Types
<1> QED BY <1>0, <1>3, <1>4, <1>5, <1>6 DEF Types, queryVars

\* Discarding some results and retaining, or not, that of q.
LEMMA QueryTypes ==
    ASSUME IInv, NEW q \in Query, QueryStep(q)
    PROVE  /\ at' \in [Build \cup Read \cup Query -> BuildPlace \cup ReadPlace \cup QueryPlace]
           /\ \A a \in Build \cup Read : at'[a] = at[a]
           /\ \A p \in Query : at'[p] \in QueryPlace
           /\ seen' \in [Query -> View \cup {None}] /\ paged' \in [Query -> View \cup {None}]
           /\ UNCHANGED <<publication, latest, primary, buildVars>>
<1>0. Types /\ view \in View
  BY ViewTypes DEF IInv
<1>1. \E place \in QueryPlace : at' = [at EXCEPT ![q] = place]
  BY DEF QueryStep, takesView, retain, turnsPage, pageFromCursor, GoTo, QueryPlace
<1>2. \A a \in Build \cup Read : a # q
  BY ServiceAssumption
<1>3. /\ seen' = seen \/ seen' = [seen EXCEPT ![q] = view]
      /\ paged' = paged \/ paged' = [paged EXCEPT ![q] = view] \/ paged' = [paged EXCEPT ![q] = None]
  BY DEF QueryStep, takesView, retain, turnsPage, pageFromCursor
<1>4. UNCHANGED <<publication, latest, primary, buildVars>>
  BY DEF QueryStep, takesView, retain, turnsPage, pageFromCursor
<1>5. seen' \in [Query -> View \cup {None}] /\ paged' \in [Query -> View \cup {None}]
  <2> HIDE DEF view
  <2> QED BY <1>0, <1>3 DEF Types
<1> QED BY <1>0, <1>1, <1>2, <1>4, <1>5 DEF Types

\* Publications come one after another; only what is at work is changed.
LEMMA LeasedStep ==
    ASSUME IInv, [Next]_vars
    PROVE  Leased'
<1>0. Types /\ Leased
  BY DEF IInv
<1>1. CASE UNCHANGED vars
  BY <1>0, <1>1 DEF vars, buildVars, Leased
<1>2. CASE (publish \/ withdraw) /\ Elsewhere
  <2>1. latest' \in Nat /\ latest <= latest'
    BY <1>0, <1>2 DEF publish, withdraw, Types
  <2> QED BY <1>0, <1>2, <2>1 DEF Elsewhere, buildVars, Leased, Types
<1>3. ASSUME NEW q \in Query, QueryStep(q) PROVE Leased'
  BY <1>0, <1>3, QueryTypes DEF buildVars, Leased, Types
<1>4. ASSUME NEW a \in Build \cup Read, admit(a), at' = [at EXCEPT ![a] = at'[a]],
             at'[a] \in Working, latest' = latest
      PROVE  Leased'
  <2>1. publication \in Nat /\ publication <= latest
    BY <1>0, <1>4 DEF admit, Types
  <2>2. \A e \in Build \cup Read : e # None
    BY ServiceAssumption
  <2>3. \A e \in Build \cup Read : at[e] \notin Working
    BY <1>0, <1>4, <2>2 DEF admit, Leased
  <2> QED BY <1>0, <1>4, <2>1, <2>2, <2>3 DEF admit, Leased, Types
<1>5. ASSUME NEW a \in Build \cup Read, at[a] \in Working, primary' = primary, captured' = captured,
             latest' = latest, at' = at \/ (at' = [at EXCEPT ![a] = at'[a]] /\ at'[a] \in Working)
      PROVE  Leased'
  BY <1>0, <1>5 DEF Leased, Types
<1>6. ASSUME NEW a \in Build \cup Read, at[a] \in Working, primary' = None, captured' = captured,
             latest' = latest, at' = [at EXCEPT ![a] = at'[a]], at'[a] \notin Working
      PROVE  Leased'
  <2>1. \A e \in Build \cup Read : e # None
    BY ServiceAssumption
  <2> QED BY <1>0, <1>6, <2>1 DEF Leased, Types
<1>7. ASSUME NEW b \in Build, BuildStep(b) PROVE Leased'
  <2>0. /\ b \in Build \cup Read /\ at[b] \in BuildPlace
        /\ \A place : [at EXCEPT ![b] = place][b] = place
    BY <1>0 DEF Types
  <2>1. CASE buildStarts(b)
    BY <1>4, <2>0, <2>1 DEF buildStarts, GoTo, Working, Building
  <2>2. CASE resets(b) \/ begins(b) \/ visits(b) \/ observesAgain(b) \/ nextPass(b)
    BY <1>5, <2>0, <2>2 DEF resets, begins, visits, observesAgain, nextPass, passAfter, GoTo,
                          Working, Building, buildVars
  <2>3. CASE finishes(b) \/ breaksOff(b)
    BY <1>6, <2>0, <2>3 DEF finishes, breaksOff, GoTo, Working, Building, buildVars
  <2> QED BY <1>7, <2>1, <2>2, <2>3 DEF BuildStep
<1>8. ASSUME NEW r \in Read, ReadStep(r) PROVE Leased'
  <2>0. /\ r \in Build \cup Read
        /\ \A place : [at EXCEPT ![r] = place][r] = place
    BY <1>0 DEF Types
  <2>1. CASE readStarts(r)
    <3>1. admit(r) /\ at' = [at EXCEPT ![r] = "captured"] /\ latest' = latest
      BY <2>1 DEF readStarts, GoTo
    <3>2. at'[r] = "captured" /\ "captured" \in Working
      BY <2>0, <3>1 DEF Working
    <3> QED BY <1>4, <2>0, <3>1, <3>2
  <2>2. CASE initializes(r) \/ ingestsMembers(r) \/ ingestsSource(r)
    BY <1>5, <2>0, <2>2 DEF initializes, ingestsMembers, ingestsSource, GoTo, Working, buildVars
  <2>3. CASE readEnds(r)
    BY <1>6, <2>0, <2>3 DEF readEnds, GoTo, Working, Building, buildVars
  <2> QED BY <1>8, <2>1, <2>2, <2>3 DEF ReadStep
<1> QED BY <1>1, <1>2, <1>3, <1>7, <1>8 DEF Next

-----------------------------------------------------------------------------
(* Builds.                                                                 *)

\* One who works is the only one.
LEMMA Alone ==
    ASSUME IInv, NEW a \in Build \cup Read, at[a] \in Working
    PROVE  \A b \in Build : b # a => at[b] \notin Begun
BY DEF IInv, Leased, Working, Begun, Building

\* What a step of a pass does to one source: it is indexed with the text the
\* build notes, or not at all.
SourceSeen(b, c) ==
    /\ Filed(Source(c))
    /\ todo' = [todo EXCEPT ![b] = @ \ {Source(c)}]
    /\ \A e \in Class \ {c} : emitted'[b][e] = emitted[b][e]
    /\ accept(captured[b]) /\ status'[Source(c)] = "INDEXED" =>
          held'[Source(c)].text = emitted'[b][c]

LEMMA VisitsOne ==
    ASSUME IInv, NEW b \in Build, visits(b)
    PROVE  \/ \E c \in Class : /\ Filed(Member(c)) /\ emitted' = emitted
                               /\ todo' = [todo EXCEPT ![b] = @ \ {Member(c)}]
           \/ \E c \in Class : SourceSeen(b, c)
<1>0. /\ Types /\ Sound /\ captured[b] \in Nat
      /\ emitted \in [Build -> [Class -> Text \cup {None}]]
  BY DEF IInv, Leased, visits, Working, Building, Types
<1>1. PICK c \in Class :
         \/ /\ todo' = [todo EXCEPT ![b] = @ \ {Member(c)}]
            /\ \/ \E text \in Text : publishMembers(captured[b], c, fromEngine(b, text))
               \/ mark(captured[b], Member(c), "FAILED")
            /\ emitted' = emitted
         \/ /\ todo' = [todo EXCEPT ![b] = @ \ {Source(c)}]
            /\ \E next \in {"SKIPPED", "FAILED"} : mark(captured[b], Source(c), next)
            /\ emitted' = emitted
         \/ /\ todo' = [todo EXCEPT ![b] = @ \ {Source(c)}]
            /\ \E text \in Text : /\ publishSource(captured[b], c, fromEngine(b, text))
                                  /\ emitted' = [emitted EXCEPT ![b][c] = text]
  BY DEF visits
<1>2. Member(c) \in Fragment /\ Source(c) \in Fragment
  BY FragmentTypes
<1>3. CASE /\ todo' = [todo EXCEPT ![b] = @ \ {Member(c)}]
           /\ \/ \E text \in Text : publishMembers(captured[b], c, fromEngine(b, text))
              \/ mark(captured[b], Member(c), "FAILED")
           /\ emitted' = emitted
  <2>1. ASSUME NEW text \in Text, publishMembers(captured[b], c, fromEngine(b, text))
        PROVE  Filed(Member(c))
    BY <1>0, <2>1, FromEngine, PublishKeeps
  <2>2. mark(captured[b], Member(c), "FAILED") => Filed(Member(c))
    BY <1>0, <1>2, MarkKeeps
  <2> QED BY <1>3, <2>1, <2>2
<1>4. CASE /\ todo' = [todo EXCEPT ![b] = @ \ {Source(c)}]
           /\ \E next \in {"SKIPPED", "FAILED"} : mark(captured[b], Source(c), next)
           /\ emitted' = emitted
  <2>1. /\ Filed(Source(c))
        /\ accept(captured[b]) => status'[Source(c)] # "INDEXED"
    BY <1>0, <1>2, <1>4, MarkKeeps
  <2> QED BY <1>4, <2>1 DEF SourceSeen
<1>5. CASE /\ todo' = [todo EXCEPT ![b] = @ \ {Source(c)}]
           /\ \E text \in Text : /\ publishSource(captured[b], c, fromEngine(b, text))
                                 /\ emitted' = [emitted EXCEPT ![b][c] = text]
  <2>1. PICK text \in Text : /\ publishSource(captured[b], c, fromEngine(b, text))
                             /\ emitted' = [emitted EXCEPT ![b][c] = text]
    BY <1>5
  <2>2. /\ Filed(Source(c))
        /\ accept(captured[b]) /\ status'[Source(c)] = "INDEXED"
              => held'[Source(c)] = fromEngine(b, text)
    BY <1>0, <2>1, FromEngine, PublishKeeps
  <2>3. emitted'[b][c] = text /\ \A e \in Class \ {c} : emitted'[b][e] = emitted[b][e]
    BY <1>0, <2>1
  <2>4. fromEngine(b, text).text = text
    BY DEF fromEngine
  <2>5. SourceSeen(b, c)
    BY <1>5, <2>2, <2>3, <2>4 DEF SourceSeen
  <2> QED BY <2>5
<1> QED BY <1>1, <1>3, <1>4, <1>5

LEMMA ObservesOne ==
    ASSUME IInv, NEW b \in Build, observesAgain(b)
    PROVE  \E c \in Class : SourceSeen(b, c)
<1>0. /\ Types /\ Sound /\ captured[b] \in Nat
      /\ emitted \in [Build -> [Class -> Text \cup {None}]]
  BY DEF IInv, Leased, observesAgain, Working, Building, Types
<1>1. PICK c \in Class :
         /\ todo' = [todo EXCEPT ![b] = @ \ {Source(c)}]
         /\ \/ /\ mark(captured[b], Source(c), "FAILED")
               /\ emitted' = emitted \/ emitted' = [emitted EXCEPT ![b][c] = None]
            \/ \E text \in Text : /\ publishSource(captured[b], c, fromEngine(b, text))
                                  /\ emitted' = [emitted EXCEPT ![b][c] = text]
  BY DEF observesAgain
<1>2. Source(c) \in Fragment
  BY FragmentTypes
<1>3. CASE /\ mark(captured[b], Source(c), "FAILED")
           /\ emitted' = emitted \/ emitted' = [emitted EXCEPT ![b][c] = None]
  <2>1. /\ Filed(Source(c))
        /\ accept(captured[b]) => status'[Source(c)] # "INDEXED"
    BY <1>0, <1>2, <1>3, MarkKeeps
  <2>2. \A e \in Class \ {c} : emitted'[b][e] = emitted[b][e]
    BY <1>0, <1>3
  <2> QED BY <1>1, <2>1, <2>2 DEF SourceSeen
<1>4. CASE \E text \in Text : /\ publishSource(captured[b], c, fromEngine(b, text))
                              /\ emitted' = [emitted EXCEPT ![b][c] = text]
  <2>1. PICK text \in Text : /\ publishSource(captured[b], c, fromEngine(b, text))
                             /\ emitted' = [emitted EXCEPT ![b][c] = text]
    BY <1>4
  <2>2. /\ Filed(Source(c))
        /\ accept(captured[b]) /\ status'[Source(c)] = "INDEXED"
              => held'[Source(c)] = fromEngine(b, text)
    BY <1>0, <2>1, FromEngine, PublishKeeps
  <2>3. emitted'[b][c] = text /\ \A e \in Class \ {c} : emitted'[b][e] = emitted[b][e]
    BY <1>0, <2>1
  <2>4. fromEngine(b, text).text = text
    BY DEF fromEngine
  <2>5. SourceSeen(b, c)
    BY <1>1, <2>2, <2>3, <2>4 DEF SourceSeen
  <2> QED BY <2>5
<1> QED BY <1>1, <1>3, <1>4

\* A pass, over members or sources, keeps what is known of the sources visited.
LEMMA PassKeepsTexts ==
    ASSUME IInv, NEW b \in Build, at[b] \in Begun, at' = at,
           UNCHANGED <<publication, captured, domains>>,
           \/ \E c \in Class : /\ Filed(Member(c)) /\ emitted' = emitted
                               /\ todo' = [todo EXCEPT ![b] = @ \ {Member(c)}]
           \/ \E c \in Class : SourceSeen(b, c)
    PROVE  Texts'
<1> SUFFICES ASSUME NEW a \in Build, NEW e \in Class,
                    at'[a] \in Begun, publication' = captured'[a], "SOURCE_TEXT" \in domains'[a],
                    at'[a] = "classes" => Source(e) \notin todo'[a],
                    status'[Source(e)] = "INDEXED"
             PROVE  held'[Source(e)].text = emitted'[a][e]
  BY DEF Texts
<1>0. Types /\ Texts /\ InCharge /\ Leased /\ todo \in [Build -> SUBSET Fragment]
  BY DEF IInv, Types
<1>1. a = b /\ at[b] \in Working
  BY Alone DEF Begun, Working, Building
<1>2. accept(captured[b])
  BY <1>0, <1>1, StoreAssumption DEF accept, InCharge, Leased
<1>3. Source(e) \in Fragment
  BY FragmentTypes
<1>4. CASE \E c \in Class : /\ Filed(Member(c)) /\ emitted' = emitted
                            /\ todo' = [todo EXCEPT ![b] = @ \ {Member(c)}]
  <2>1. PICK c \in Class : /\ Filed(Member(c)) /\ emitted' = emitted
                           /\ todo' = [todo EXCEPT ![b] = @ \ {Member(c)}]
    BY <1>4
  <2>2. Member(c) # Source(e)
    BY FragmentTypes
  <2>3. status[Source(e)] = "INDEXED" /\ held'[Source(e)] = held[Source(e)]
    BY <1>3, <2>1, <2>2 DEF Filed
  <2>4. at[b] = "classes" => Source(e) \notin todo[b]
    BY <1>0, <1>1, <2>1, <2>2
  <2> QED BY <1>0, <1>1, <2>1, <2>3, <2>4 DEF Texts
<1>5. CASE \E c \in Class : SourceSeen(b, c)
  <2>1. PICK c \in Class : SourceSeen(b, c)
    BY <1>5
  <2>2. CASE e = c
    BY <1>1, <1>2, <2>1, <2>2 DEF SourceSeen
  <2>3. CASE e # c
    <3>1. Source(c) # Source(e)
      BY <2>3, FragmentTypes
    <3>2. status[Source(e)] = "INDEXED" /\ held'[Source(e)] = held[Source(e)]
      BY <1>3, <2>1, <3>1 DEF Filed, SourceSeen
    <3>3. at[b] = "classes" => Source(e) \notin todo[b]
      BY <1>0, <1>1, <2>1, <3>1 DEF SourceSeen
    <3>4. emitted'[b][e] = emitted[b][e]
      BY <2>1, <2>3 DEF SourceSeen
    <3> QED BY <1>0, <1>1, <3>2, <3>3, <3>4 DEF Texts
  <2> QED BY <2>2, <2>3
<1> QED BY <1>4, <1>5

\* Steps that only move the publication, or a search.
LEMMA StandStill ==
    ASSUME IInv, UNCHANGED <<storeVars, buildVars>>, \A b \in Build : at'[b] = at[b],
           publication' \in {publication, None, latest + 1}
    PROVE  InCharge' /\ Unfinished' /\ Texts'
<1>0. InCharge /\ Unfinished /\ Texts /\ Leased /\ Types
  BY DEF IInv
<1>1. \A b \in Build : at[b] \in Begun => captured[b] \in Nat /\ captured[b] <= latest
  BY <1>0 DEF Leased, Begun, Working, Building
<1>2. \A b \in Build : at[b] \in Begun /\ publication' = captured[b] => publication = captured[b]
  BY <1>0, <1>1, StoreAssumption DEF Types
<1>3. \A d \in Domain : lastBuild[d] # None => lastBuild[d] \in Build
  BY <1>0 DEF Types
<1> QED BY <1>0, <1>2, <1>3 DEF InCharge, Unfinished, Texts, storeVars, buildVars

\* Nobody has begun, and those who ever did have not moved.
LEMMA NobodyBegun ==
    ASSUME IInv, \A b \in Build : at'[b] \notin Begun,
           \A b \in Build : at[b] \in Begun \cup {"broken", "finished"} => at'[b] = at[b],
           UNCHANGED <<lastBuild, unfinishedBuilds>>
    PROVE  InCharge' /\ Unfinished' /\ Texts'
<1>0. Unfinished /\ Types
  BY DEF IInv
<1>1. Unfinished'
  BY <1>0 DEF Unfinished, Types
<1> QED BY <1>1 DEF InCharge, Texts

LEMMA BuildKeepsBuilds ==
    ASSUME IInv, NEW b \in Build, BuildStep(b)
    PROVE  InCharge' /\ Unfinished' /\ Texts'
<1>0. /\ Types /\ Leased /\ InCharge /\ Unfinished /\ Texts /\ Sound
      /\ at \in [Build \cup Read \cup Query -> BuildPlace \cup ReadPlace \cup QueryPlace]
      /\ \A d \in Domain : lastBuild[d] # None => lastBuild[d] \in Build
      /\ todo \in [Build -> SUBSET Fragment] /\ domains \in [Build -> SUBSET Domain]
      /\ b # None
  BY ServiceAssumption DEF IInv, Types
<1>1. at[b] \in Working => \A a \in Build \ {b} : at[a] \notin Begun
  BY Alone
<1>2. CASE buildStarts(b)
  <2>1. at[b] = "idle" /\ \A a \in Build : at[a] \notin Begun
    BY <1>0, <1>2, ServiceAssumption DEF buildStarts, admit, Leased, Begun, Working, Building
  <2>2. at' = [at EXCEPT ![b] = "reset"] \/ at' = [at EXCEPT ![b] = "begin"]
    BY <1>2 DEF buildStarts, GoTo
  <2>3. UNCHANGED <<lastBuild, unfinishedBuilds>>
    BY <1>2 DEF buildStarts, storeVars
  <2>4. \A a \in Build : at'[a] \notin Begun
    BY <1>0, <2>1, <2>2 DEF Begun
  <2>5. \A a \in Build : at[a] \in Begun \cup {"broken", "finished"} => at'[a] = at[a]
    BY <1>0, <2>1, <2>2
  <2> QED BY <2>3, <2>4, <2>5, NobodyBegun
<1>3. CASE resets(b)
  <2>1. at[b] = "reset" /\ at' = [at EXCEPT ![b] = "begin"] /\ lastBuild' = lastBuild
    BY <1>3 DEF resets, GoTo, buildVars
  <2>2. unfinishedBuilds' = unfinishedBuilds
    BY <1>3 DEF resets, resetDomains, drop
  <2>3. \A a \in Build : at'[a] \notin Begun
    BY <1>0, <1>1, <2>1 DEF Begun, Working, Building
  <2>4. \A a \in Build : at[a] \in Begun \cup {"broken", "finished"} => at'[a] = at[a]
    BY <1>0, <2>1 DEF Begun
  <2> QED BY <2>1, <2>2, <2>3, <2>4, NobodyBegun
<1>4. CASE begins(b)
  <2>1. /\ at[b] = "begin" /\ at' = [at EXCEPT ![b] = "classes"]
        /\ key = captured[b]
        /\ unfinishedBuilds' = unfinishedBuilds \cup domains[b]
        /\ lastBuild' = [d \in Domain |-> IF d \in domains[b] THEN b ELSE lastBuild[d]]
        /\ todo' = [todo EXCEPT ![b] = {f \in Known : f[1] \in domains[b]}]
        /\ UNCHANGED <<key, status, held, publication, captured, domains, emitted>>
    BY <1>4 DEF begins, beginBuild, accept, setUnfinished, GoTo
  <2>2. \A a \in Build \ {b} : at'[a] = at[a] /\ at[a] \notin Begun
    BY <1>0, <1>1, <2>1 DEF Working, Building
  <2>3. at'[b] = "classes"
    BY <1>0, <2>1
  <2>4. InCharge'
    BY <1>0, <2>1, <2>2, <2>3 DEF InCharge
  <2>5. Unfinished'
    <3> SUFFICES ASSUME NEW d \in Domain, lastBuild'[d] # None
                 PROVE  /\ at'[lastBuild'[d]] \in Begun \cup {"broken", "finished"}
                        /\ \/ at'[lastBuild'[d]] = "finished"
                           \/ d \in unfinishedBuilds'
      BY DEF Unfinished
    <3>1. CASE d \in domains[b]
      BY <2>1, <2>3, <3>1 DEF Begun
    <3>2. CASE d \notin domains[b]
      <4>1. lastBuild'[d] = lastBuild[d] /\ lastBuild[d] \in Build
        BY <1>0, <2>1, <3>2
      <4>2. lastBuild[d] # b
        BY <1>0, <2>1, <4>1 DEF Unfinished, Begun
      <4> QED BY <1>0, <2>1, <2>2, <4>1, <4>2 DEF Unfinished
    <3> QED BY <3>1, <3>2
  <2>6. Texts'
    <3> SUFFICES ASSUME NEW c \in Class, "SOURCE_TEXT" \in domains[b], Source(c) \notin todo'[b],
                        status[Source(c)] = "INDEXED"
                 PROVE  FALSE
      BY <2>1, <2>2, <2>3 DEF Texts
    <3>1. Source(c) \in Known /\ Source(c)[1] = "SOURCE_TEXT"
      BY FragmentTypes DEF Known, Source
    <3> QED BY <1>0, <2>1, <3>1
  <2> QED BY <2>4, <2>5, <2>6
<1>5. CASE visits(b) \/ observesAgain(b)
  <2>1. /\ at[b] \in Begun /\ at' = at
        /\ UNCHANGED <<publication, captured, domains, lastBuild>>
    BY <1>5 DEF visits, observesAgain, Begun
  <2>2. \/ \E c \in Class : /\ Filed(Member(c)) /\ emitted' = emitted
                            /\ todo' = [todo EXCEPT ![b] = @ \ {Member(c)}]
        \/ \E c \in Class : SourceSeen(b, c)
    BY <1>5, VisitsOne, ObservesOne
  <2>3. UNCHANGED <<key, unfinishedBuilds>>
    BY <2>2 DEF SourceSeen, Filed
  <2>4. InCharge' /\ Unfinished'
    BY <1>0, <2>1, <2>3 DEF InCharge, Unfinished
  <2>5. Texts'
    BY <2>1, <2>2, PassKeepsTexts
  <2> QED BY <2>4, <2>5
<1>6. CASE nextPass(b)
  <2>1. /\ at[b] \in {"classes", "first", "second"} /\ todo[b] = {}
        /\ at' = [at EXCEPT ![b] = passAfter(b)]
        /\ UNCHANGED <<publication, key, unfinishedBuilds, status, held, captured, domains,
                       emitted, lastBuild>>
    BY <1>6 DEF nextPass, GoTo, storeVars
  <2>2. passAfter(b) \in Begun \ {"classes"}
    BY <2>1 DEF passAfter, Begun
  <2>3. /\ at'[b] \in Begun /\ at'[b] # "classes"
        /\ \A a \in Build \ {b} : at'[a] = at[a] /\ at[a] \notin Begun
    BY <1>0, <1>1, <2>1, <2>2 DEF Working, Building
  <2>4. at[b] \in Begun
    BY <2>1 DEF Begun
  <2>5. InCharge'
    BY <1>0, <2>1, <2>3, <2>4 DEF InCharge
  <2>6. Unfinished'
    <3> SUFFICES ASSUME NEW d \in Domain, lastBuild[d] # None
                 PROVE  /\ at'[lastBuild[d]] \in Begun \cup {"broken", "finished"}
                        /\ \/ at'[lastBuild[d]] = "finished"
                           \/ d \in unfinishedBuilds
      BY <2>1 DEF Unfinished
    <3>1. CASE lastBuild[d] = b
      BY <1>0, <2>1, <2>3, <3>1 DEF Unfinished
    <3>2. CASE lastBuild[d] # b
      BY <1>0, <2>3, <3>2 DEF Unfinished
    <3> QED BY <3>1, <3>2
  <2>7. Texts'
    <3> SUFFICES ASSUME NEW c \in Class, publication = captured[b], "SOURCE_TEXT" \in domains[b],
                        status[Source(c)] = "INDEXED"
                 PROVE  held[Source(c)].text = emitted[b][c]
      BY <2>1, <2>3 DEF Texts
    <3>1. Source(c) \notin todo[b]
      BY <2>1
    <3> QED BY <1>0, <2>4, <3>1 DEF Texts
  <2> QED BY <2>5, <2>6, <2>7
<1>7. CASE finishes(b)
  <2>1. /\ at[b] = "finish" /\ at' = [at EXCEPT ![b] = "finished"]
        /\ unfinishedBuilds' = unfinishedBuilds \ domains[b]
        /\ lastBuild' = lastBuild
    BY <1>7 DEF finishes, finishBuild, setUnfinished, GoTo, buildVars
  <2>2. /\ at'[b] = "finished"
        /\ \A a \in Build \ {b} : at'[a] = at[a] /\ at[a] \notin Begun
    BY <1>0, <1>1, <2>1 DEF Working, Building
  <2>3. \A d \in domains[b] : lastBuild[d] = b
    BY <1>0, <2>1 DEF InCharge, Begun
  <2>4. Unfinished'
    <3> SUFFICES ASSUME NEW d \in Domain, lastBuild[d] # None
                 PROVE  /\ at'[lastBuild[d]] \in Begun \cup {"broken", "finished"}
                        /\ \/ at'[lastBuild[d]] = "finished"
                           \/ d \in unfinishedBuilds'
      BY <2>1 DEF Unfinished
    <3>1. CASE lastBuild[d] = b
      BY <2>2, <3>1
    <3>2. CASE lastBuild[d] # b
      BY <1>0, <2>1, <2>2, <2>3, <3>2 DEF Unfinished
    <3> QED BY <3>1, <3>2
  <2>5. \A a \in Build : at'[a] \notin Begun
    BY <2>2 DEF Begun
  <2> QED BY <2>4, <2>5 DEF InCharge, Texts
<1>8. CASE breaksOff(b)
  <2>1. /\ at[b] \in Building /\ at' = [at EXCEPT ![b] = "broken"]
        /\ UNCHANGED <<unfinishedBuilds, lastBuild>>
    BY <1>8 DEF breaksOff, GoTo, storeVars, buildVars
  <2>2. /\ at'[b] = "broken"
        /\ \A a \in Build \ {b} : at'[a] = at[a] /\ at[a] \notin Begun
    BY <1>0, <1>1, <2>1 DEF Working
  <2>3. Unfinished'
    <3> SUFFICES ASSUME NEW d \in Domain, lastBuild[d] # None
                 PROVE  /\ at'[lastBuild[d]] \in Begun \cup {"broken", "finished"}
                        /\ \/ at'[lastBuild[d]] = "finished"
                           \/ d \in unfinishedBuilds
      BY <2>1 DEF Unfinished
    <3>1. CASE lastBuild[d] = b
      BY <1>0, <2>1, <2>2, <3>1 DEF Unfinished, Building
    <3>2. CASE lastBuild[d] # b
      BY <1>0, <2>2, <3>2 DEF Unfinished
    <3> QED BY <3>1, <3>2
  <2>4. \A a \in Build : at'[a] \notin Begun
    BY <2>2 DEF Begun
  <2> QED BY <2>3, <2>4 DEF InCharge, Texts
<1> QED BY <1>2, <1>3, <1>4, <1>5, <1>6, <1>7, <1>8 DEF BuildStep

LEMMA ReadKeepsBuilds ==
    ASSUME IInv, NEW r \in Read, ReadStep(r)
    PROVE  InCharge' /\ Unfinished' /\ Texts'
<1>0. /\ Types /\ Leased /\ Unfinished /\ Sound
      /\ at \in [Build \cup Read \cup Query -> BuildPlace \cup ReadPlace \cup QueryPlace]
      /\ \A b \in Build : b # r
  BY ServiceAssumption DEF IInv, Types
<1>1. \A b \in Build : at'[b] = at[b]
  BY <1>0 DEF ReadStep, readStarts, initializes, ingestsMembers, ingestsSource, readEnds, GoTo
<1>2. \A b \in Build : at[b] \notin Begun
  <2>1. CASE readStarts(r)
    BY <1>0, <2>1, ServiceAssumption DEF readStarts, admit, Leased, Begun, Working, Building
  <2>2. CASE ~ readStarts(r)
    <3>1. at[r] \in Working
      BY <2>2 DEF ReadStep, initializes, ingestsMembers, ingestsSource, readEnds, Working
    <3> QED BY <1>0, <3>1, Alone
  <2> QED BY <2>1, <2>2
<1>3. CASE ~ initializes(r)
  <2>1. lastBuild' = lastBuild
    BY <1>3 DEF ReadStep, readStarts, ingestsMembers, ingestsSource, readEnds, buildVars
  <2>2. unfinishedBuilds' = unfinishedBuilds
    BY <1>3 DEF ReadStep, readStarts, ingestsMembers, ingestsSource, readEnds, publishMembers,
                publishSource, mark, store, drop, storeVars
  <2> QED BY <1>1, <1>2, <2>1, <2>2, NobodyBegun
<1>4. CASE initializes(r)
  <2>0. captured[r] \in Nat
    BY <1>0, <1>4 DEF initializes, Leased, Working
  <2>1. PICK cat \in Catalogs, base \in CatalogSizes : initialize(captured[r], cat, NoCode, base)
    BY <1>4 DEF initializes
  <2>2. \/ UNCHANGED storeVars
        \/ key' # key
    BY <1>0, <2>0, <2>1, InitializeKeeps, ServiceAssumption
  <2>3. CASE UNCHANGED storeVars
    <3>1. lastBuild' = lastBuild /\ unfinishedBuilds' = unfinishedBuilds
      BY <1>4, <2>3 DEF initializes, storeVars
    <3> QED BY <1>1, <1>2, <3>1, NobodyBegun
  <2>4. CASE key' # key
    <3>1. \A d \in Domain : lastBuild'[d] = None
      BY <1>4, <2>4 DEF initializes
    <3> QED BY <1>1, <1>2, <3>1 DEF InCharge, Unfinished, Texts
  <2> QED BY <2>2, <2>3, <2>4
<1> QED BY <1>3, <1>4

\* Builds stay in charge of their domains, whoever takes the step.
LEMMA BuildsStep ==
    ASSUME IInv, [Next]_vars
    PROVE  InCharge' /\ Unfinished' /\ Texts'
<1>1. CASE UNCHANGED vars
  BY <1>1, StandStill DEF vars
<1>2. CASE (publish \/ withdraw) /\ Elsewhere
  <2>1. publication' \in {None, latest + 1} /\ UNCHANGED <<storeVars, buildVars, at>>
    BY <1>2 DEF publish, withdraw, Elsewhere
  <2> QED BY <2>1, StandStill
<1>3. CASE \E b \in Build : BuildStep(b)
  BY <1>3, BuildKeepsBuilds
<1>4. CASE \E r \in Read : ReadStep(r)
  BY <1>4, ReadKeepsBuilds
<1>5. ASSUME NEW q \in Query, QueryStep(q) PROVE InCharge' /\ Unfinished' /\ Texts'
  BY <1>5, QueryTypes, OthersKeepSound, StandStill
<1> QED BY <1>1, <1>2, <1>3, <1>4, <1>5 DEF Next

-----------------------------------------------------------------------------
(* Views, and the results that are kept for them.                          *)

LEMMA ViewsKept ==
    ASSUME IInv, Moved, Sound', Recorded' \subseteq Recorded
    PROVE  Views'
<1>0. Views /\ generation \in Nat /\ generation' \in Nat
  BY DEF IInv, Sound, StoreTypes
<1>1. ASSUME NEW v \in Recorded PROVE Past(v)'
  <2>1. v \in View /\ v.generation \in Nat /\ v.generation <= generation
        /\ (v.generation = generation => v = view)
    BY <1>0 DEF Views, Past, View
  <2>2. CASE generation' > generation
    BY <1>0, <2>1, <2>2 DEF Past
  <2>3. CASE UNCHANGED <<key, generation, status, held, unfinishedBuilds>>
    <3>1. view' = view
      BY <2>3 DEF view
    <3> QED BY <2>1, <2>3, <3>1 DEF Past
  <2> QED BY <2>2, <2>3 DEF Moved
<1> QED BY <1>0, <1>1 DEF Views

LEMMA ViewTaken ==
    ASSUME IInv, UNCHANGED storeVars, Recorded' \subseteq Recorded \cup {view}
    PROVE  Views'
<1>0. Views /\ view' = view /\ generation' = generation /\ view \in View
      /\ view.generation = generation /\ generation \in Nat
  BY ViewTypes DEF IInv, Sound, StoreTypes, storeVars, view
<1>1. \A v \in Recorded \cup {view} : Past(v)
  <2> HIDE DEF view
  <2> QED BY <1>0 DEF Views, Past
<1>2. \A v \in Recorded \cup {view} : Past(v)'
  <2> HIDE DEF view
  <2> QED BY <1>0, <1>1 DEF Past
<1>3. \A v, w \in Recorded \cup {view} : v.generation = w.generation => v = w
  <2> HIDE DEF view
  <2> QED BY <1>0, <1>1 DEF Views, Past
<1> HIDE DEF view
<1> QED BY <1>2, <1>3 DEF Views

LEMMA ViewsStep ==
    ASSUME IInv, [Next]_vars
    PROVE  Views'
<1>0. Sound' /\ Moved /\ Types /\ at \in [Build \cup Read \cup Query -> BuildPlace \cup ReadPlace \cup QueryPlace]
  BY SoundStep DEF IInv, Types
<1>1. ASSUME \A q \in Query : at'[q] = at[q], UNCHANGED <<seen, paged>> PROVE Views'
  <2>1. Recorded' = Recorded
    BY <1>1 DEF Recorded
  <2> QED BY <1>0, <2>1, ViewsKept
<1>2. CASE UNCHANGED vars
  BY <1>1, <1>2 DEF vars, queryVars
<1>3. CASE (publish \/ withdraw) /\ Elsewhere
  BY <1>1, <1>3 DEF Elsewhere, queryVars
<1>4. ASSUME NEW b \in Build, BuildStep(b) PROVE Views'
  <2>1. at' = at \/ \E place : at' = [at EXCEPT ![b] = place]
    BY <1>4 DEF BuildStep, buildStarts, resets, begins, visits, observesAgain, nextPass, finishes,
                breaksOff, GoTo
  <2>2. UNCHANGED <<seen, paged>>
    BY <1>4 DEF BuildStep, buildStarts, resets, begins, visits, observesAgain, nextPass, finishes,
                breaksOff, queryVars
  <2>3. \A q \in Query : q # b
    BY ServiceAssumption
  <2> QED BY <1>0, <1>1, <2>1, <2>2, <2>3
<1>5. ASSUME NEW r \in Read, ReadStep(r) PROVE Views'
  <2>1. \E place : at' = [at EXCEPT ![r] = place]
    BY <1>5 DEF ReadStep, readStarts, initializes, ingestsMembers, ingestsSource, readEnds, GoTo
  <2>2. UNCHANGED <<seen, paged>>
    BY <1>5 DEF ReadStep, readStarts, initializes, ingestsMembers, ingestsSource, readEnds, queryVars
  <2>3. \A q \in Query : q # r
    BY ServiceAssumption
  <2> QED BY <1>0, <1>1, <2>1, <2>2, <2>3
<1>6. ASSUME NEW q \in Query, QueryStep(q) PROVE Views'
  <2>0. UNCHANGED storeVars
    BY <1>6, OthersKeepSound
  <2>1. seen \in [Query -> View \cup {None}] /\ paged \in [Query -> View \cup {None}]
    BY <1>0 DEF Types
  <2>2. \A place : /\ [at EXCEPT ![q] = place][q] = place
                   /\ \A p \in Query \ {q} : [at EXCEPT ![q] = place][p] = at[p]
    BY <1>0
  <2>3. CASE takesView(q)
    <3>1. /\ at' = [at EXCEPT ![q] = "viewed"] /\ seen' = [seen EXCEPT ![q] = view] /\ paged' = paged
      BY <2>3 DEF takesView, GoTo
    <3>2. Recorded' \subseteq Recorded \cup {view}
      <4> HIDE DEF view
      <4> QED BY <2>1, <2>2, <3>1 DEF Recorded
    <3> QED BY <2>0, <3>2, ViewTaken
  <2>4. CASE retain(q)
    <3>1. /\ at[q] = "viewed" /\ UNCHANGED <<seen, paged>>
          /\ at' = [at EXCEPT ![q] = "done"] \/ at' = [at EXCEPT ![q] = "retained"]
      BY <2>4 DEF retain, GoTo
    <3>2. /\ \A p \in Query \ {q} : at'[p] = at[p]
          /\ at'[q] \in {"done", "retained"}
      BY <2>2, <3>1
    <3>3. \A p \in Query : at'[p] \in {"viewed", "retained", "paging"}
                              => at[p] \in {"viewed", "retained", "paging"}
      BY <3>1, <3>2
    <3>4. \A p \in Query : at'[p] = "paging" => at[p] = "paging"
      BY <3>1, <3>2
    <3>5. Recorded' \subseteq Recorded
      BY <3>1, <3>3, <3>4 DEF Recorded
    <3> QED BY <1>0, <3>5, ViewsKept
  <2>5. CASE turnsPage(q)
    <3>1. /\ at[q] = "retained" /\ at' = [at EXCEPT ![q] = "paging"]
          /\ paged' = [paged EXCEPT ![q] = view] /\ seen' = seen
      BY <2>5 DEF turnsPage, GoTo
    <3>2. Recorded' \subseteq Recorded \cup {view}
      <4> HIDE DEF view
      <4> QED BY <2>1, <2>2, <3>1 DEF Recorded
    <3> QED BY <2>0, <3>2, ViewTaken
  <2>6. CASE pageFromCursor(q)
    <3>1. /\ at[q] = "paging" /\ at' = [at EXCEPT ![q] = "retained"]
          /\ paged' = [paged EXCEPT ![q] = None] /\ seen' = seen
      BY <2>6 DEF pageFromCursor, GoTo
    <3>2. Recorded' \subseteq Recorded
      BY <2>1, <2>2, <3>1 DEF Recorded
    <3> QED BY <1>0, <3>2, ViewsKept
  <2> QED BY <1>6, <2>3, <2>4, <2>5, <2>6 DEF QueryStep
<1> QED BY <1>2, <1>3, <1>4, <1>5, <1>6 DEF Next

\* The results of a search are kept where they fit, and others go for them.
LEMMA RetainKeeps ==
    ASSUME IInv, NEW q \in Query, retain(q)
    PROVE  /\ Retained'
           /\ results' \in SUBSET Query /\ resultSize' \in [Query -> Nat] /\ resultBytes' \in Nat
<1>0. /\ Types /\ Retained /\ at[q] = "viewed" /\ q \notin results
      /\ results \in SUBSET Query /\ resultSize \in [Query -> Nat]
      /\ MaxResults \in Nat \ {0} /\ ResultBudget \in Nat
  BY ServiceAssumption DEF IInv, Retained, Types, retain
<1>1. \A S \in SUBSET Query : IsFiniteSet(S) /\ Sized(resultSize, S)
  BY <1>0, ServiceAssumption, FS_Subset DEF Sized
<1> DEFINE bytes(S) == resultBytes - Bytes(resultSize, results \ S)
<1>2. ASSUME NEW S \in SUBSET results
      PROVE  bytes(S) = Bytes(resultSize, S) /\ bytes(S) \in Nat /\ bytes(S) <= ResultBudget
  <2>1. results \ (results \ S) = S /\ results \ S \in SUBSET results
    OBVIOUS
  <2>2. /\ Bytes(resultSize, results) = Bytes(resultSize, S) + Bytes(resultSize, results \ S)
        /\ Bytes(resultSize, S) \in Nat /\ Bytes(resultSize, results \ S) \in Nat
    BY <1>0, <1>1, <2>1, BytesSplit
  <2>3. resultBytes = Bytes(resultSize, results) /\ resultBytes <= ResultBudget
    BY <1>0 DEF Retained
  <2> QED BY <1>0, <2>2, <2>3
<1>3. PICK expired \in SUBSET results, size \in ResultSizes :
         LET left == {r \in results \ expired : sameIndex(seen[r], seen[q])}
         IN \E kept \in SUBSET left :
              /\ Keeps(resultsOlder, left, kept,
                       {S \in SUBSET left : Cardinality(S) >= MaxResults
                                            \/ bytes(S) + size > ResultBudget})
              /\ IF size > ResultBudget
                 THEN /\ results' = kept
                      /\ resultBytes' = bytes(kept)
                      /\ resultsOlder' = among(resultsOlder, kept)
                      /\ GoTo(q, "done")
                      /\ UNCHANGED resultSize
                 ELSE /\ results' = kept \cup {q}
                      /\ resultBytes' = bytes(kept) + size
                      /\ resultsOlder' = lastUsed(among(resultsOlder, kept), kept, q)
                      /\ resultSize' = [resultSize EXCEPT ![q] = size]
                      /\ GoTo(q, "retained")
  BY DEF retain
<1> DEFINE left == {r \in results \ expired : sameIndex(seen[r], seen[q])}
           tooMuch == {S \in SUBSET left : Cardinality(S) >= MaxResults
                                           \/ bytes(S) + size > ResultBudget}
<1>4. PICK kept \in SUBSET left :
         /\ Keeps(resultsOlder, left, kept, tooMuch)
         /\ IF size > ResultBudget
            THEN /\ results' = kept
                 /\ resultBytes' = bytes(kept)
                 /\ resultsOlder' = among(resultsOlder, kept)
                 /\ GoTo(q, "done")
                 /\ UNCHANGED resultSize
            ELSE /\ results' = kept \cup {q}
                 /\ resultBytes' = bytes(kept) + size
                 /\ resultsOlder' = lastUsed(among(resultsOlder, kept), kept, q)
                 /\ resultSize' = [resultSize EXCEPT ![q] = size]
                 /\ GoTo(q, "retained")
  BY <1>3
<1>5. /\ kept \in SUBSET results /\ kept \in SUBSET Query /\ q \notin kept /\ size \in Nat
      /\ IsFiniteSet(kept) /\ Cardinality(kept) \in Nat
  BY <1>0, <1>1, FS_CardinalityType, ServiceAssumption
<1>6. /\ bytes(kept) = Bytes(resultSize, kept) /\ bytes(kept) \in Nat
      /\ bytes(kept) <= ResultBudget
  BY <1>2, <1>5
<1>7. IsLru(resultsOlder, results) /\ IsLru(among(resultsOlder, kept), kept)
  BY <1>0, <1>5, AmongThem DEF Retained
<1>8. kept # {} => ~(Cardinality(kept) >= MaxResults) /\ ~(bytes(kept) + size > ResultBudget)
  BY <1>4 DEF Keeps
<1>9. CASE size > ResultBudget
  <2>1. /\ results' = kept /\ resultBytes' = bytes(kept) /\ resultSize' = resultSize
        /\ resultsOlder' = among(resultsOlder, kept) /\ at' = [at EXCEPT ![q] = "done"]
    BY <1>4, <1>9 DEF GoTo
  <2>2. Cardinality(kept) <= MaxResults
    <3>1. Cardinality(kept) <= Cardinality(results)
      BY <1>0, <1>1, <1>5, FS_Subset
    <3>2. Cardinality(results) <= MaxResults /\ Cardinality(results) \in Nat
      BY <1>0, <1>1, FS_CardinalityType DEF Retained
    <3> QED BY <1>0, <1>5, <3>1, <3>2
  <2>3. \A r \in results' : at'[r] \in {"retained", "paging"}
    BY <1>0, <1>5, <2>1 DEF Retained, Types
  <2> HIDE DEF bytes
  <2> QED BY <1>0, <1>5, <1>6, <1>7, <2>1, <2>2, <2>3 DEF Retained
<1>10. CASE ~(size > ResultBudget)
  <2>1. /\ results' = kept \cup {q} /\ resultBytes' = bytes(kept) + size
        /\ resultSize' = [resultSize EXCEPT ![q] = size]
        /\ resultsOlder' = lastUsed(among(resultsOlder, kept), kept, q)
        /\ at' = [at EXCEPT ![q] = "retained"]
    BY <1>4, <1>10 DEF GoTo
  <2>2. resultSize' \in [Query -> Nat] /\ resultSize'[q] = size
        /\ \A r \in kept : resultSize'[r] = resultSize[r]
    BY <1>0, <1>5, <2>1
  <2>3. Bytes(resultSize', kept) = Bytes(resultSize, kept)
    BY <2>2, BytesSame
  <2>4. Sized(resultSize', kept)
    BY <1>5, <2>2 DEF Sized
  <2>5. Bytes(resultSize', kept \cup {q}) = Bytes(resultSize', kept) + resultSize'[q]
    BY <1>5, <2>2, <2>4, BytesWith
  <2>6. resultBytes' = Bytes(resultSize', results') /\ resultBytes' \in Nat
    <3> HIDE DEF bytes
    <3> QED BY <1>5, <1>6, <2>1, <2>2, <2>3, <2>5
  <2>7. resultBytes' <= ResultBudget
    <3>1. CASE kept = {}
      <4>1. bytes(kept) = 0
        BY <1>6, <3>1, BytesOfNone
      <4> HIDE DEF bytes
      <4> QED BY <1>0, <1>5, <1>10, <2>1, <4>1
    <3>2. CASE kept # {}
      <4> HIDE DEF bytes
      <4> QED BY <1>0, <1>5, <1>6, <1>8, <2>1, <3>2
    <3> QED BY <3>1, <3>2
  <2>8. Cardinality(kept \cup {q}) <= MaxResults
    <3>1. Cardinality(kept \cup {q}) = Cardinality(kept) + 1
      BY <1>5, FS_AddElement
    <3>2. CASE kept = {}
      BY <1>0, <3>1, <3>2, FS_EmptySet
    <3>3. CASE kept # {}
      BY <1>0, <1>5, <1>8, <3>1, <3>3
    <3> QED BY <3>2, <3>3
  <2>9. IsLru(resultsOlder', results')
    BY <1>7, <2>1, UsedLast
  <2>10. \A r \in results' : at'[r] \in {"retained", "paging"}
    BY <1>0, <1>5, <2>1 DEF Retained, Types
  <2>11. Retained'
    BY <2>1, <2>6, <2>7, <2>8, <2>9, <2>10 DEF Retained
  <2> QED BY <1>0, <1>5, <2>1, <2>2, <2>6, <2>11
<1> QED BY <1>9, <1>10

\* A page uses the results, or finds that they have expired.
LEMMA PageKeeps ==
    ASSUME IInv, NEW q \in Query, pageFromCursor(q)
    PROVE  /\ Retained'
           /\ results' \in SUBSET Query /\ resultSize' = resultSize /\ resultBytes' \in Nat
<1>0. /\ Types /\ Retained /\ results \in SUBSET Query /\ resultSize \in [Query -> Nat]
      /\ resultBytes \in Nat /\ MaxResults \in Nat /\ ResultBudget \in Nat
      /\ resultSize' = resultSize /\ at' = [at EXCEPT ![q] = "retained"]
      /\ IsFiniteSet(results) /\ Sized(resultSize, results)
  BY ServiceAssumption, FS_Subset DEF IInv, Types, pageFromCursor, GoTo, Sized
<1>1. \A r \in results : at'[r] \in {"retained", "paging"}
  BY <1>0 DEF Retained, Types
<1>2. CASE UNCHANGED <<results, resultsOlder, resultBytes>>
  BY <1>0, <1>1, <1>2 DEF Retained
<1>3. CASE /\ serves(q) /\ resultsOlder' = lastUsed(resultsOlder, results, q)
           /\ UNCHANGED <<results, resultBytes>>
  <2>1. results \cup {q} = results
    BY <1>3 DEF serves
  <2>2. IsLru(resultsOlder', results')
    BY <1>0, <1>3, <2>1, UsedLast DEF Retained
  <2> QED BY <1>0, <1>1, <1>3, <2>2 DEF Retained
<1>4. CASE /\ serves(q) /\ results' = results \ {q}
           /\ resultBytes' = resultBytes - resultSize[q]
           /\ resultsOlder' = among(resultsOlder, results \ {q})
  <2>1. q \in results /\ {q} \in SUBSET results /\ results \ {q} \in SUBSET results
    BY <1>4 DEF serves
  <2>2. /\ Bytes(resultSize, results) = Bytes(resultSize, results \ {q}) + Bytes(resultSize, {q})
        /\ Bytes(resultSize, results \ {q}) \in Nat
    BY <1>0, <2>1, BytesSplit
  <2>3. Bytes(resultSize, {q}) = resultSize[q] /\ resultSize[q] \in Nat
    BY <1>0, BytesOfOne
  <2>4. resultBytes = Bytes(resultSize, results) /\ resultBytes <= ResultBudget
        /\ Cardinality(results) <= MaxResults /\ IsLru(resultsOlder, results)
    BY <1>0 DEF Retained
  <2>5. resultBytes' = Bytes(resultSize, results \ {q}) /\ resultBytes' <= ResultBudget
        /\ resultBytes' \in Nat
    BY <1>0, <1>4, <2>2, <2>3, <2>4
  <2>6. Cardinality(results \ {q}) <= MaxResults
    <3>1. IsFiniteSet(results \ {q}) /\ Cardinality(results \ {q}) <= Cardinality(results)
      BY <1>0, <2>1, FS_Subset
    <3>2. Cardinality(results \ {q}) \in Nat /\ Cardinality(results) \in Nat
      BY <1>0, <3>1, FS_CardinalityType
    <3> QED BY <1>0, <2>4, <3>1, <3>2
  <2>7. IsLru(resultsOlder', results \ {q})
    BY <1>4, <2>1, <2>4, AmongThem
  <2> QED BY <1>0, <1>1, <1>4, <2>5, <2>6, <2>7 DEF Retained
<1> QED BY <1>2, <1>3, <1>4 DEF pageFromCursor

LEMMA RetainedStep ==
    ASSUME IInv, [Next]_vars
    PROVE  /\ Retained'
           /\ results' \in SUBSET Query /\ resultSize' \in [Query -> Nat] /\ resultBytes' \in Nat
<1>0. /\ Types /\ Retained
      /\ at \in [Build \cup Read \cup Query -> BuildPlace \cup ReadPlace \cup QueryPlace]
      /\ results \in SUBSET Query
  BY DEF IInv, Types
<1>1. ASSUME UNCHANGED <<results, resultSize, resultsOlder, resultBytes>>,
             \A q \in Query : at[q] \in {"retained", "paging"} => at'[q] \in {"retained", "paging"}
      PROVE  /\ Retained'
             /\ results' \in SUBSET Query /\ resultSize' \in [Query -> Nat] /\ resultBytes' \in Nat
  BY <1>0, <1>1 DEF Retained, Types
<1>2. CASE UNCHANGED vars
  BY <1>1, <1>2 DEF vars, queryVars
<1>3. CASE (publish \/ withdraw) /\ Elsewhere
  BY <1>1, <1>3 DEF Elsewhere, queryVars
<1>4. ASSUME NEW b \in Build, BuildStep(b)
      PROVE  UNCHANGED queryVars /\ \A q \in Query : at'[q] = at[q]
  <2>1. at' = at \/ \E place : at' = [at EXCEPT ![b] = place]
    BY <1>4 DEF BuildStep, buildStarts, resets, begins, visits, observesAgain, nextPass, finishes,
                breaksOff, GoTo
  <2>2. UNCHANGED queryVars
    BY <1>4 DEF BuildStep, buildStarts, resets, begins, visits, observesAgain, nextPass, finishes,
                breaksOff
  <2>3. \A q \in Query : q # b
    BY ServiceAssumption
  <2> QED BY <1>0, <2>1, <2>2, <2>3
<1>5. ASSUME NEW r \in Read, ReadStep(r)
      PROVE  UNCHANGED queryVars /\ \A q \in Query : at'[q] = at[q]
  <2>1. \E place : at' = [at EXCEPT ![r] = place]
    BY <1>5 DEF ReadStep, readStarts, initializes, ingestsMembers, ingestsSource, readEnds, GoTo
  <2>2. UNCHANGED queryVars
    BY <1>5 DEF ReadStep, readStarts, initializes, ingestsMembers, ingestsSource, readEnds
  <2>3. \A q \in Query : q # r
    BY ServiceAssumption
  <2> QED BY <1>0, <2>1, <2>2, <2>3
<1>6. ASSUME NEW q \in Query, takesView(q) \/ turnsPage(q)
      PROVE  /\ UNCHANGED <<results, resultSize, resultsOlder, resultBytes>>
             /\ \A p \in Query : at[p] \in {"retained", "paging"} => at'[p] \in {"retained", "paging"}
  <2>1. \/ at[q] = "idle" /\ at' = [at EXCEPT ![q] = "viewed"]
        \/ at[q] = "retained" /\ at' = [at EXCEPT ![q] = "paging"]
    BY <1>6 DEF takesView, turnsPage, GoTo
  <2>2. UNCHANGED <<results, resultSize, resultsOlder, resultBytes>>
    BY <1>6 DEF takesView, turnsPage
  <2> QED BY <1>0, <2>1, <2>2
<1>7. ASSUME NEW q \in Query, QueryStep(q)
      PROVE  /\ Retained'
             /\ results' \in SUBSET Query /\ resultSize' \in [Query -> Nat] /\ resultBytes' \in Nat
  <2>1. CASE retain(q)
    BY <2>1, RetainKeeps
  <2>2. CASE pageFromCursor(q)
    BY <1>0, <2>2, PageKeeps DEF Types
  <2>3. CASE takesView(q) \/ turnsPage(q)
    BY <1>1, <1>6, <2>3
  <2> QED BY <1>7, <2>1, <2>2, <2>3 DEF QueryStep
<1>8. CASE \E b \in Build : BuildStep(b)
  BY <1>1, <1>4, <1>8 DEF queryVars
<1>9. CASE \E r \in Read : ReadStep(r)
  BY <1>1, <1>5, <1>9 DEF queryVars
<1> QED BY <1>2, <1>3, <1>7, <1>8, <1>9 DEF Next

-----------------------------------------------------------------------------
(* The theorems.                                                           *)

LEMMA TypesStep ==
    ASSUME IInv, [Next]_vars
    PROVE  Types'
<1>0. Types
  BY DEF IInv
<1>1. CASE UNCHANGED vars
  BY <1>0, <1>1 DEF vars, buildVars, queryVars, Types
<1>2. CASE (publish \/ withdraw) /\ Elsewhere
  <2>1. latest' \in Nat /\ publication' \in {None, latest'}
    BY <1>0, <1>2 DEF publish, withdraw, Types
  <2>2. UNCHANGED <<primary, at, buildVars, queryVars>>
    BY <1>2 DEF Elsewhere
  <2> QED BY <1>0, <2>1, <2>2 DEF buildVars, queryVars, Types
<1>3. CASE \E b \in Build : BuildStep(b)
  BY <1>3, BuildTypes
<1>4. CASE \E r \in Read : ReadStep(r)
  BY <1>4, ReadTypes
<1>5. ASSUME NEW q \in Query, QueryStep(q) PROVE Types'
  <2>1. results' \in SUBSET Query /\ resultSize' \in [Query -> Nat] /\ resultBytes' \in Nat
    BY <1>5, RetainedStep DEF Next
  <2>2. /\ at' \in [Build \cup Read \cup Query -> BuildPlace \cup ReadPlace \cup QueryPlace]
        /\ \A a \in Build \cup Read : at'[a] = at[a]
        /\ \A p \in Query : at'[p] \in QueryPlace
        /\ seen' \in [Query -> View \cup {None}] /\ paged' \in [Query -> View \cup {None}]
        /\ UNCHANGED <<publication, latest, primary, buildVars>>
    BY <1>5, QueryTypes
  <2> QED BY <1>0, <2>1, <2>2 DEF Types, buildVars
<1> QED BY <1>1, <1>2, <1>3, <1>4, <1>5 DEF Next

LEMMA IInvStep ==
    ASSUME IInv, [Next]_vars
    PROVE  IInv'
BY TypesStep, SoundStep, LeasedStep, BuildsStep, ViewsStep, RetainedStep DEF IInv

LEMMA IInvHolds == Spec => []IInv
<1>1. Init => IInv
  BY InitHolds
<1>2. IInv /\ [Next]_vars => IInv'
  BY IInvStep
<1> QED BY <1>1, <1>2, PTL DEF Spec

(* Whatever publications, builds that are broken off, reads, evictions and *)
(* resets come in between, the index holds what it reports, a domain is    *)
(* COMPLETE only after a whole build of it, and a build leaves as indexed  *)
(* the text it saw last (publishSource, evict, beginBuild, finishBuild).   *)
THEOREM CoverageIsHonest == Spec => []CoverageHonest
<1>1. IInv => CoverageHonest
  BY IInvSuffices
<1> QED BY <1>1, IInvHolds, PTL

(* The counters of the index and of the retained results are exact sums    *)
(* and stay within the budgets, for any budget (evict, remove, retain).    *)
THEOREM BudgetsAreKept == Spec => []BudgetsKept
<1>1. IInv => BudgetsKept
  BY IInvSuffices
<1> QED BY <1>1, IInvHolds, PTL

(* A cursor is served only from the index its hits were found in           *)
(* (pageFromCursor): equal generations of a publication are equal indexes. *)
THEOREM PagesStayCurrent == Spec => []PagesAreCurrent
<1>1. IInv => PagesAreCurrent
  BY IInvSuffices
<1> QED BY <1>1, IInvHolds, PTL

=============================================================================
