--------------------------- MODULE LogLevelsProofs ---------------------------
(***************************************************************************)
(* Theorems about LogLevels, for every set of tags, every odd cache size   *)
(* and every width of the counters.                                        *)
(***************************************************************************)
EXTENDS LogLevels, SequenceTheorems, FiniteSetTheorems, WellFoundedInduction, TLAPS

-----------------------------------------------------------------------------
(* The shape of the heap. *)

(***************************************************************************)
(* The array is a full binary tree: every slot but the root is a child of  *)
(* its parent, and every inner slot has two children inside the array.     *)
(***************************************************************************)
LEMMA TreeShape ==
  /\ 0 \in Slots
  /\ InnerSlots \subseteq Slots
  /\ \A i \in Slots \ {0} :
       /\ Parent(i) \in InnerSlots
       /\ Parent(i) < i
       /\ i = 2 * Parent(i) + 1 \/ i = 2 * Parent(i) + 2
  /\ \A i \in InnerSlots :
       /\ 2 * i + 1 \in Slots \ {0} /\ Parent(2 * i + 1) = i
       /\ 2 * i + 2 \in Slots \ {0} /\ Parent(2 * i + 2) = i
  BY CacheSizeAssumption DEF Slots, InnerSlots, Parent

(***************************************************************************)
(* heap_bubble_down(index) only moves entries: it permutes the slots.      *)
(***************************************************************************)
LEMMA BubblePermutes ==
  ASSUME NEW cache \in [Slots -> CacheEntry], NEW index \in Slots,
         NEW path \in SUBSET Slots, IsBubblePath(cache, index, path)
  PROVE  \E source \in [Slots -> Slots] :
           /\ \A i, j \in Slots : source[i] = source[j] => i = j
           /\ BubbledDown(cache, index, path) = [i \in Slots |-> cache[source[i]]]
<1> DEFINE source == [i \in Slots |-> IF i \notin path THEN i
                                      ELSE IF i \in InnerSlots THEN NextDown(cache, i)
                                      ELSE index]
<1>1. \A i \in InnerSlots : NextDown(cache, i) \in Slots /\ Parent(NextDown(cache, i)) = i
  BY TreeShape DEF NextDown
<1>2. \A i \in Slots : i \in path => source[i] \in path
  BY DEF IsBubblePath
<1>3. source \in [Slots -> Slots]
  BY <1>1
<1>4. \A i \in path \cap InnerSlots : NextDown(cache, i) # index
  <2>1. \A i \in path \cap InnerSlots : i >= index /\ NextDown(cache, i) > i
    BY TreeShape DEF IsBubblePath, NextDown, Slots, InnerSlots
  <2> QED BY <2>1, TreeShape DEF NextDown, Slots, InnerSlots
<1>5. ASSUME NEW i \in Slots, NEW j \in Slots, source[i] = source[j]
      PROVE  i = j
  <2>1. CASE i \notin path \/ j \notin path
    BY <2>1, <1>2, <1>5
  <2>2. CASE i \in path \cap InnerSlots /\ j \in path \cap InnerSlots
    BY <2>2, <1>1, <1>5
  <2>3. CASE i \in path \ InnerSlots /\ j \in path \ InnerSlots
    <3>1. i <= j /\ j <= i
      BY <2>3 DEF IsBubblePath
    <3> QED BY <3>1 DEF Slots
  <2>4. CASE i \in path /\ j \in path /\ (i \in InnerSlots <=> j \notin InnerSlots)
    BY <2>4, <1>4, <1>5
  <2> QED BY <2>1, <2>2, <2>3, <2>4
<1>6. BubbledDown(cache, index, path) = [i \in Slots |-> cache[source[i]]]
  BY <1>3 DEF BubbledDown
<1> QED BY <1>3, <1>5, <1>6

(***************************************************************************)
(* A set of slots that is not empty has a smallest one.                    *)
(***************************************************************************)
LEMMA SmallestSlot ==
  ASSUME NEW found \in SUBSET Slots, found # {}
  PROVE  \E i \in found : \A j \in found : i <= j
<1>1. Slots \subseteq Nat
  BY DEF Slots
<1>2. PICK i \in found : \A j \in found : ~(<<j, i>> \in OpToRel(<, Nat))
  BY <1>1, NatLessThanWellFounded, WFMin
<1>3. \A j \in found : ~(j < i) /\ i \in Nat /\ j \in Nat
  BY <1>1, <1>2 DEF OpToRel
<1>4. \A j \in found : i <= j
  BY <1>3
<1> QED BY <1>4

(***************************************************************************)
(* ... and a largest one.                                                  *)
(***************************************************************************)
LEMMA LargestSlot ==
  ASSUME NEW found \in SUBSET Slots, found # {}
  PROVE  \E i \in found : \A j \in found : j <= i
<1> DEFINE last == CONFIG_LOG_TAG_CACHE_SIZE - 1
           mirrored == {k \in Slots : last - k \in found}
<1>1. /\ CONFIG_LOG_TAG_CACHE_SIZE \in Nat /\ Slots \subseteq Int
      /\ \A i \in Slots : last - i \in Slots /\ last - (last - i) = i
  BY CacheSizeAssumption DEF Slots
<1>2. mirrored \in SUBSET Slots /\ mirrored # {}
  BY <1>1
<1> HIDE DEF mirrored
<1>3. PICK k \in mirrored : \A l \in mirrored : k <= l
  BY <1>2, SmallestSlot
<1>4. last - k \in found /\ k \in Slots
  BY DEF mirrored
<1>5. \A j \in found : last - j \in mirrored
  BY <1>1 DEF mirrored
<1>6. \A j \in found : j <= last - k
  BY <1>1, <1>3, <1>4, <1>5
<1> QED BY <1>4, <1>6

(***************************************************************************)
(* An inner slot is swapped with a child.                                  *)
(***************************************************************************)
LEMMA NextDownIs ==
  ASSUME NEW cache, NEW i \in InnerSlots
  PROVE  /\ NextDown(cache, i) \in Slots /\ Parent(NextDown(cache, i)) = i
         /\ i < NextDown(cache, i)
  BY TreeShape DEF NextDown, Slots, InnerSlots

(***************************************************************************)
(* The loop of heap_bubble_down ends from every slot, and visits one set   *)
(* of slots: the largest slot without a path would be an inner one, and    *)
(* its child would have none either; the smallest slot in which two paths  *)
(* differ would have a parent in both.  So a full cache can always place   *)
(* an entry, and where the others end up is determined.                    *)
(***************************************************************************)
THEOREM BubblePathIsOne ==
  ASSUME NEW cache, NEW index \in Slots
  PROVE  \E path \in SUBSET Slots :
           /\ IsBubblePath(cache, index, path)
           /\ \A other \in SUBSET Slots : IsBubblePath(cache, index, other) => other = path
<1> DEFINE Ends(i) == \E path \in SUBSET Slots : IsBubblePath(cache, i, path)
           endless == {i \in Slots : ~Ends(i)}
<1>1. InnerSlots \subseteq Slots /\ Slots \subseteq Int
  BY TreeShape DEF Slots
<1>2. ASSUME NEW i \in Slots \ InnerSlots PROVE Ends(i)
  <2>1. {i} \in SUBSET Slots /\ IsBubblePath(cache, i, {i})
    BY <1>1 DEF IsBubblePath
  <2> QED BY <2>1
<1>3. ASSUME NEW i \in InnerSlots, Ends(NextDown(cache, i)) PROVE Ends(i)
  <2> DEFINE next == NextDown(cache, i)
  <2>1. next \in Slots /\ Parent(next) = i /\ i < next
    BY NextDownIs
  <2>2. PICK path \in SUBSET Slots : IsBubblePath(cache, next, path)
    BY <1>3
  <2> DEFINE longer == path \cup {i}
  <2>3. \A j \in path : next <= j
    <3>1. \A j \in path \ {next} : j > next
      BY <2>2 DEF IsBubblePath
    <3> HIDE DEF next
    <3> QED BY <1>1, <2>1, <3>1
  <2>4. \A j \in longer \cap InnerSlots : NextDown(cache, j) \in longer
    BY <2>2 DEF IsBubblePath
  <2>5. \A j \in longer \ {i} :
          j > i /\ Parent(j) \in longer /\ j = NextDown(cache, Parent(j))
    <3> SUFFICES ASSUME NEW j \in path, j # i
                 PROVE  j > i /\ Parent(j) \in longer /\ j = NextDown(cache, Parent(j))
      OBVIOUS
    <3>1. j > i
      <4> HIDE DEF next
      <4> QED BY <1>1, <2>1, <2>3
    <3>2. CASE j = next
      BY <2>1, <3>1, <3>2
    <3>3. CASE j # next
      BY <2>2, <3>1, <3>3 DEF IsBubblePath
    <3> QED BY <3>2, <3>3
  <2>6. \A leaf \in longer \ InnerSlots : \A j \in longer : j <= leaf
    <3> SUFFICES ASSUME NEW leaf \in path \ InnerSlots, NEW j \in longer PROVE j <= leaf
      OBVIOUS
    <3>1. next <= leaf /\ leaf \in Int /\ next \in Int /\ i \in Int
      BY <1>1, <2>1, <2>3
    <3>2. CASE j = i
      BY <2>1, <3>1, <3>2
    <3>3. CASE j \in path
      BY <2>2, <3>3 DEF IsBubblePath
    <3> QED BY <3>2, <3>3
  <2>7. longer \in SUBSET Slots /\ IsBubblePath(cache, i, longer)
    BY <1>1, <2>4, <2>5, <2>6 DEF IsBubblePath
  <2> QED BY <2>7
<1>4. Ends(index)
  <2> SUFFICES ASSUME endless # {} PROVE FALSE
    OBVIOUS
  <2>1. endless \in SUBSET Slots
    OBVIOUS
  <2>2. PICK i \in endless : \A j \in endless : j <= i
    <3> HIDE DEF endless
    <3> QED BY <2>1, LargestSlot
  <2>3. i \in InnerSlots /\ ~Ends(i)
    BY <1>2
  <2>4. NextDown(cache, i) \in Slots /\ i < NextDown(cache, i) /\ i \in Int
    BY <1>1, <2>3, NextDownIs
  <2>5. NextDown(cache, i) \notin endless
    <3> DEFINE next == NextDown(cache, i)
    <3>1. next \in Int /\ i \in Int /\ i < next
      BY <1>1, <2>4
    <3> HIDE DEF endless, next
    <3>2. next \notin endless
      BY <2>2, <3>1
    <3> QED BY <3>2 DEF next
  <2> QED BY <1>3, <2>3, <2>4, <2>5
<1>5. ASSUME NEW p \in SUBSET Slots, NEW q \in SUBSET Slots,
             IsBubblePath(cache, index, p), IsBubblePath(cache, index, q)
      PROVE  p = q
  <2> DEFINE apart == (p \ q) \cup (q \ p)
  <2> SUFFICES ASSUME apart # {} PROVE FALSE
    OBVIOUS
  <2>1. apart \in SUBSET Slots
    OBVIOUS
  <2>2. PICK i \in apart : \A j \in apart : i <= j
    <3> HIDE DEF apart
    <3> QED BY <2>1, SmallestSlot
  <2>3. i # index /\ i \in Slots
    BY <1>5 DEF IsBubblePath
  <2>4. i \in Slots \ {0}
    BY <1>5, <2>2, <2>3 DEF IsBubblePath, Slots
  <2>5. Parent(i) \in InnerSlots /\ Parent(i) < i /\ Parent(i) \in Slots
    BY <2>4, TreeShape
  <2>6. Parent(i) \notin apart
    <3> DEFINE up == Parent(i)
    <3>1. up \in Int /\ i \in Int /\ up < i
      BY <1>1, <2>4, <2>5
    <3> HIDE DEF apart, up
    <3>2. up \notin apart
      BY <2>2, <3>1
    <3> QED BY <3>2 DEF up
  <2>7. i = NextDown(cache, Parent(i)) /\ Parent(i) \in p \cup q
    BY <1>5, <2>3 DEF IsBubblePath
  <2>8. Parent(i) \in p /\ Parent(i) \in q
    BY <2>6, <2>7
  <2>9. i \in p /\ i \in q
    BY <1>5, <2>5, <2>7, <2>8 DEF IsBubblePath
  <2> QED BY <2>9
<1> HIDE DEF Ends
<1>6. PICK path \in SUBSET Slots : IsBubblePath(cache, index, path)
  BY <1>4 DEF Ends
<1>7. \A other \in SUBSET Slots : IsBubblePath(cache, index, other) => other = path
  BY <1>5, <1>6
<1> QED BY <1>6, <1>7

(***************************************************************************)
(* Slots are ordered as the asserts of log.c want them, all of them.       *)
(***************************************************************************)
IsHeap(cache) ==
  \A i \in Slots \ {0} : cache[Parent(i)].generation < cache[i].generation

DistinctGenerations(cache, slots) ==
  \A i, j \in slots : cache[i].generation = cache[j].generation => i = j

(***************************************************************************)
(* Writing the youngest entry to any slot of a heap and bubbling it down   *)
(* gives a heap, although the loop never compares the entry it moves.      *)
(***************************************************************************)
LEMMA BubbleOrders ==
  ASSUME NEW old \in [Slots -> CacheEntry], NEW index \in Slots,
         NEW entry \in CacheEntry, NEW path \in SUBSET Slots,
         IsHeap(old), DistinctGenerations(old, Slots),
         \A i \in Slots : old[i].generation < entry.generation,
         IsBubblePath([old EXCEPT ![index] = entry], index, path)
  PROVE  IsHeap(BubbledDown([old EXCEPT ![index] = entry], index, path))
<1> DEFINE written == [old EXCEPT ![index] = entry]
           new == BubbledDown(written, index, path)
           down(i) == NextDown(written, i)
<1>1. \A i \in Slots : old[i].generation \in Int
  BY DEF CacheEntry
<1>2. entry.generation \in Int
  BY DEF CacheEntry
<1>3. /\ written \in [Slots -> CacheEntry]
      /\ written[index] = entry
      /\ \A i \in Slots \ {index} : written[i] = old[i]
  OBVIOUS
<1>4. \A i \in path : i >= index
  BY DEF IsBubblePath, Slots
<1>5. \A i \in InnerSlots :
        /\ down(i) \in Slots \ {0} /\ Parent(down(i)) = i /\ down(i) > i
        /\ old[i].generation < old[down(i)].generation
  <2>1. \A i \in InnerSlots : down(i) \in Slots \ {0} /\ Parent(down(i)) = i /\ down(i) > i
    BY TreeShape DEF NextDown, InnerSlots, Slots
  <2> QED BY <2>1 DEF IsHeap
<1> HIDE DEF down
<1>6. \A i \in path \cap InnerSlots : down(i) \in path /\ written[down(i)] = old[down(i)]
  <2>1. \A i \in path \cap InnerSlots : down(i) \in path
    BY DEF IsBubblePath, down
  <2>2. \A i \in path \cap InnerSlots : down(i) # index
    <3>1. \A i \in path \cap InnerSlots : down(i) > i /\ i >= index
      BY <1>4, <1>5
    <3>2. \A i \in path \cap InnerSlots : i \in Int /\ down(i) \in Int /\ index \in Int
      BY <1>5 DEF Slots
    <3> QED BY <3>1, <3>2
  <2> QED BY <1>3, <1>5, <2>1, <2>2
<1>7. \A i \in Slots : new[i] = IF i \notin path THEN written[i]
                               ELSE IF i \in InnerSlots THEN written[down(i)]
                               ELSE entry
  BY <1>3 DEF BubbledDown, down
<1> HIDE DEF written, new
<1> SUFFICES ASSUME NEW i \in Slots \ {0}
             PROVE  new[Parent(i)].generation < new[i].generation
  BY DEF IsHeap, new, written
<1>8. Parent(i) \in InnerSlots /\ Parent(i) \in Slots /\ Parent(i) < i
  BY TreeShape
<1>9. old[Parent(i)].generation < old[i].generation
  BY DEF IsHeap
<1>10. CASE i \notin path /\ Parent(i) \notin path
  <2>1. i # index /\ Parent(i) # index
    BY <1>10 DEF IsBubblePath
  <2> QED BY <1>3, <1>7, <1>8, <1>9, <1>10, <2>1
<1>11. CASE i \notin path /\ Parent(i) \in path
  <2>1. i # index
    BY <1>11 DEF IsBubblePath
  <2>2. down(Parent(i)) # i
    BY <1>6, <1>8, <1>11
  <2>3. new[i] = old[i] /\ new[Parent(i)] = old[down(Parent(i))]
    BY <1>3, <1>6, <1>7, <1>8, <1>11, <2>1
  <2>4. i >= 0 /\ index \in Int /\ Parent(i) >= index /\ i > Parent(i) /\ Parent(i) \in Int
    BY <1>4, <1>8, <1>11 DEF Slots
  <2>5. /\ written[2 * Parent(i) + 1] = old[2 * Parent(i) + 1]
        /\ written[2 * Parent(i) + 2] = old[2 * Parent(i) + 2]
    <3>1. 2 * Parent(i) + 1 \in Slots /\ 2 * Parent(i) + 2 \in Slots
      BY <1>8, TreeShape
    <3>2. 2 * Parent(i) + 1 # index /\ 2 * Parent(i) + 2 # index
      BY <2>4, <1>8 DEF Slots, InnerSlots
    <3> QED BY <1>3, <3>1, <3>2
  <2>6. old[down(Parent(i))].generation <= old[i].generation
    BY <1>1, <1>8, <2>2, <2>5, TreeShape DEF NextDown, down
  <2>7. old[down(Parent(i))].generation # old[i].generation
    BY <1>5, <1>8, <2>2 DEF DistinctGenerations
  <2> QED BY <1>1, <1>5, <1>8, <2>3, <2>6, <2>7
<1>12. CASE i \in path /\ i # index
  <2>1. Parent(i) \in path /\ i = down(Parent(i))
    BY <1>12 DEF IsBubblePath, down, written
  <2>2. new[Parent(i)] = old[i]
    BY <1>6, <1>7, <1>8, <2>1
  <2>3. CASE i \in InnerSlots
    BY <1>5, <1>6, <1>7, <1>12, <2>2, <2>3
  <2>4. CASE i \notin InnerSlots
    BY <1>7, <1>12, <2>2, <2>4
  <2> QED BY <2>3, <2>4
<1>13. CASE i = index
  <2>1. Parent(i) \notin path /\ Parent(i) # index
    BY <1>4, <1>8, <1>13 DEF Slots
  <2>2. new[Parent(i)] = old[Parent(i)]
    BY <1>3, <1>7, <1>8, <2>1
  <2>3. i \in path
    BY <1>13 DEF IsBubblePath
  <2>4. CASE i \in InnerSlots
    <3>1. new[i] = old[down(i)]
      BY <1>6, <1>7, <2>3, <2>4
    <3>2. old[i].generation < old[down(i)].generation /\ down(i) \in Slots
      BY <1>5, <2>4
    <3> QED BY <1>1, <1>8, <1>9, <2>2, <3>1, <3>2
  <2>5. CASE i \notin InnerSlots
    BY <1>7, <1>8, <2>2, <2>3, <2>5
  <2> QED BY <2>4, <2>5
<1> QED BY <1>10, <1>11, <1>12, <1>13

-----------------------------------------------------------------------------
(* The invariant every other one rests on. *)

LiveTagged == \A i \in Live : s_log_cache[i].tag \in TagPointers

BaseInv == TypeOK /\ TagsDistinct /\ LiveTagged /\ CachedOnce

(***************************************************************************)
(* What the % of the fixed-width fields returns.                           *)
(***************************************************************************)
LEMMA FieldsFit ==
  /\ \A n \in Nat : n % LevelModulus \in 0 .. LevelModulus - 1
  /\ \A n \in Nat : n % GenerationModulus \in 0 .. GenerationModulus - 1
  /\ \A n \in Nat : n % CounterModulus \in 0 .. CounterModulus - 1
  BY WidthAssumption

(***************************************************************************)
(* The search of the list finds the tag when it is there.                  *)
(***************************************************************************)
LEMMA FirstRecordFound ==
  ASSUME BaseInv, NEW name, Recorded(name)
  PROVE  /\ FirstRecord(name) \in DOMAIN s_log_tags
         /\ s_log_tags[FirstRecord(name)].tag = name
<1>1. PICK k \in DOMAIN s_log_tags : s_log_tags[k].tag = name
  BY DEF Recorded
<1>2. \A j \in 1 .. k - 1 : s_log_tags[j].tag # name
  BY <1>1 DEF BaseInv, TypeOK, TagsDistinct
<1> QED BY <1>1, <1>2 DEF FirstRecord

(***************************************************************************)
(* A walk of the list, or the default, gives one of the legal levels.      *)
(***************************************************************************)
LEMMA UncachedLevelType ==
  ASSUME BaseInv, NEW name
  PROVE  UncachedLevel(name) \in Levels
<1>1. CASE Recorded(name)
  <2>1. FirstRecord(name) \in DOMAIN s_log_tags
    BY <1>1, FirstRecordFound
  <2>2. s_log_tags \in Seq(TagEntry)
    BY DEF BaseInv, TypeOK
  <2>3. s_log_tags[FirstRecord(name)] \in TagEntry
    BY <2>1, <2>2
  <2> QED BY <1>1, <2>3 DEF UncachedLevel, TagEntry
<1>2. CASE ~Recorded(name)
  BY <1>2 DEF UncachedLevel, BaseInv, TypeOK
<1> QED BY <1>1, <1>2

(***************************************************************************)
(* The live slots are a prefix of the array, all of it when it is full.    *)
(***************************************************************************)
LEMMA LiveSlots ==
  ASSUME TypeOK
  PROVE  Live \subseteq Slots /\ (CacheFull => Live = Slots)
  BY CacheSizeAssumption DEF TypeOK, Live, Slots, CacheFull

(***************************************************************************)
(* Replacing a slot of the full heap keeps every other entry exactly once. *)
(***************************************************************************)
LEMMA PlaceNewestPermutes ==
  ASSUME TypeOK, NEW index \in Slots, NEW entry \in CacheEntry,
         PlaceNewest(index, entry)
  PROVE  \E source \in [Slots -> Slots] :
           /\ \A i, j \in Slots : source[i] = source[j] => i = j
           /\ s_log_cache' =
                [i \in Slots |-> IF source[i] = index THEN entry
                                                      ELSE s_log_cache[source[i]]]
<1> DEFINE written == [s_log_cache EXCEPT ![index] = entry]
<1>1. PICK path \in SUBSET Slots :
        /\ IsBubblePath(written, index, path)
        /\ s_log_cache' = BubbledDown(written, index, path)
  BY DEF PlaceNewest
<1>2. written \in [Slots -> CacheEntry]
  BY DEF TypeOK
<1>3. PICK source \in [Slots -> Slots] :
        /\ \A i, j \in Slots : source[i] = source[j] => i = j
        /\ BubbledDown(written, index, path) = [i \in Slots |-> written[source[i]]]
  <2> HIDE DEF written
  <2> QED BY <1>1, <1>2, BubblePermutes
<1>4. \A i \in Slots :
        written[source[i]] = IF source[i] = index THEN entry ELSE s_log_cache[source[i]]
  BY DEF TypeOK
<1> HIDE DEF written
<1> QED BY <1>1, <1>3, <1>4

(***************************************************************************)
(* The new entry holds a tag no other slot does, so no tag gets a second   *)
(* slot and no live slot is left without a tag.                            *)
(***************************************************************************)
LEMMA PlaceNewestKeepsTags ==
  ASSUME BaseInv, CacheFull, NEW index \in Slots, NEW entry \in CacheEntry,
         entry.tag \in TagPointers,
         \A i \in Slots \ {index} : s_log_cache[i].tag # entry.tag,
         PlaceNewest(index, entry)
  PROVE  /\ s_log_cache' \in [Slots -> CacheEntry]
         /\ \A i \in Slots : s_log_cache'[i].tag \in TagPointers
         /\ \A i, j \in Slots : s_log_cache'[i].tag = s_log_cache'[j].tag => i = j
<1>1. TypeOK /\ Live = Slots /\ s_log_cache \in [Slots -> CacheEntry]
  BY LiveSlots DEF BaseInv, TypeOK
<1>2. PICK source \in [Slots -> Slots] :
        /\ \A i, j \in Slots : source[i] = source[j] => i = j
        /\ s_log_cache' =
             [i \in Slots |-> IF source[i] = index THEN entry
                                                   ELSE s_log_cache[source[i]]]
  BY <1>1, PlaceNewestPermutes
<1>3. \A i, j \in Slots : s_log_cache[i].tag = s_log_cache[j].tag => i = j
  BY <1>1 DEF BaseInv, CachedOnce
<1>4. \A i \in Slots : s_log_cache[i].tag \in TagPointers
  BY <1>1 DEF BaseInv, LiveTagged
<1>5. ASSUME NEW i \in Slots, NEW j \in Slots, s_log_cache'[i].tag = s_log_cache'[j].tag
      PROVE  i = j
  <2>1. source[i] = source[j]
    BY <1>2, <1>3, <1>5
  <2> QED BY <1>2, <2>1
<1> QED BY <1>1, <1>2, <1>4, <1>5

(***************************************************************************)
(* The constants are in range, the type of the fields apart.               *)
(***************************************************************************)
LEMMA LevelsAreIntegers == \A level \in Levels : level \in Nat
  BY LevelAssumption

(***************************************************************************)
(* The zero-initialised statics satisfy the base invariant.                *)
(***************************************************************************)
LEMMA InitBase == Init => BaseInv
<1> SUFFICES ASSUME Init PROVE BaseInv
  OBVIOUS
<1>1. TypeOK
  <2>1. [i \in Slots |-> [tag |-> NULL, level |-> 0, generation |-> 0]]
          \in [Slots -> CacheEntry]
    BY WidthAssumption DEF CacheEntry
  <2>2. /\ 0 \in 0 .. CounterModulus - 1
        /\ 0 \in 0 .. CONFIG_LOG_TAG_CACHE_SIZE
    BY WidthAssumption, CacheSizeAssumption
  <2>3. << >> \in Seq(TagEntry)
    OBVIOUS
  <2> QED BY <2>1, <2>2, <2>3, LevelAssumption DEF Init, TypeOK, Replies
<1> QED BY <1>1 DEF Init, BaseInv, TagsDistinct, LiveTagged, CachedOnce, Live

(***************************************************************************)
(* log_level_set of "*": nothing is recorded and nothing is live.          *)
(***************************************************************************)
LEMMA SetDefaultBase ==
  ASSUME BaseInv, NEW level \in Levels, SetDefaultLevel(level), reply' = NoReply
  PROVE  BaseInv'
<1>1. Live' = {}
  BY DEF SetDefaultLevel, Live
<1>2. TypeOK'
  BY WidthAssumption, CacheSizeAssumption
  DEF BaseInv, TypeOK, SetDefaultLevel, NoReply, Replies
<1> QED BY <1>1, <1>2
        DEF BaseInv, SetDefaultLevel, TagsDistinct, LiveTagged, CachedOnce

(***************************************************************************)
(* Recording a level keeps the list a list of distinct tags, and gives the *)
(* tag the level.                                                          *)
(***************************************************************************)
LEMMA RecordKeepsList ==
  ASSUME BaseInv, NEW name \in Names \ {Wildcard}, NEW level \in Levels,
         RecordLevel(name, level)
  PROVE  s_log_tags' \in Seq(TagEntry) /\ TagsDistinct'
<1>1. s_log_tags \in Seq(TagEntry)
  BY DEF BaseInv, TypeOK
<1>2. CASE Recorded(name)
  <2> DEFINE k == FirstRecord(name)
  <2>1. k \in DOMAIN s_log_tags /\ s_log_tags[k].tag = name
    BY <1>2, FirstRecordFound
  <2> HIDE DEF k
  <2>2. s_log_tags' = [s_log_tags EXCEPT ![k].level = level]
    BY <1>2 DEF RecordLevel, k
  <2>3. s_log_tags[k] \in TagEntry
    BY <1>1, <2>1
  <2>4. [s_log_tags[k] EXCEPT !.level = level] \in TagEntry
    BY <2>3 DEF TagEntry
  <2>5. s_log_tags' = [s_log_tags EXCEPT ![k] = [s_log_tags[k] EXCEPT !.level = level]]
    BY <2>2
  <2>6. s_log_tags' \in Seq(TagEntry)
    BY <1>1, <2>1, <2>4, <2>5, ExceptSeq
  <2>7. /\ DOMAIN s_log_tags' = DOMAIN s_log_tags
        /\ \A j \in DOMAIN s_log_tags : s_log_tags'[j].tag = s_log_tags[j].tag
    <3>1. [s_log_tags[k] EXCEPT !.level = level].tag = s_log_tags[k].tag
      BY <2>3 DEF TagEntry
    <3> QED BY <1>1, <2>1, <2>5, <3>1
  <2> QED BY <2>6, <2>7 DEF BaseInv, TagsDistinct
<1>3. CASE ~Recorded(name)
  <2> DEFINE first == [tag |-> name, level |-> level]
  <2>1. first \in TagEntry
    BY DEF TagEntry
  <2>2. s_log_tags' = <<first>> \o s_log_tags
    BY <1>3 DEF RecordLevel
  <2> HIDE DEF first
  <2>3. /\ <<first>> \in Seq(TagEntry)
        /\ s_log_tags' \in Seq(TagEntry)
    BY <1>1, <2>1, <2>2
  <2>4. /\ DOMAIN s_log_tags' = 1 .. Len(s_log_tags) + 1
        /\ s_log_tags'[1] = first
        /\ \A j \in 2 .. Len(s_log_tags) + 1 : s_log_tags'[j] = s_log_tags[j - 1]
    BY <1>1, <2>1, <2>2
  <2>5. \A j \in 2 .. Len(s_log_tags) + 1 : j - 1 \in DOMAIN s_log_tags
    BY <1>1
  <2>6. \A j \in DOMAIN s_log_tags : s_log_tags[j].tag # first.tag
    BY <1>3 DEF Recorded, first
  <2>7. Len(s_log_tags) \in Nat
    BY <1>1
  <2>8. ASSUME NEW i \in DOMAIN s_log_tags', NEW j \in DOMAIN s_log_tags',
               s_log_tags'[i].tag = s_log_tags'[j].tag
        PROVE  i = j
    <3>1. CASE i = 1 \/ j = 1
      BY <2>4, <2>5, <2>6, <2>7, <2>8, <3>1
    <3>2. CASE i # 1 /\ j # 1
      <4>1. i \in 2 .. Len(s_log_tags) + 1 /\ j \in 2 .. Len(s_log_tags) + 1
        BY <2>4, <2>7, <3>2
      <4>2. i - 1 = j - 1
        BY <2>4, <2>5, <2>8, <4>1 DEF BaseInv, TagsDistinct
      <4> QED BY <4>1, <4>2
    <3> QED BY <3>1, <3>2
  <2> QED BY <2>3, <2>8 DEF TagsDistinct
<1> QED BY <1>2, <1>3

(***************************************************************************)
(* log_level_set of a tag changes the level of an entry and of a slot, and *)
(* no tag of either the array or its live part.                            *)
(***************************************************************************)
LEMMA SetTagBase ==
  ASSUME BaseInv, NEW name \in Names \ {Wildcard}, NEW level \in Levels,
         SetTagLevel(name, level), reply' = NoReply
  PROVE  BaseInv'
<1>1. s_log_tags' \in Seq(TagEntry) /\ TagsDistinct'
  BY RecordKeepsList DEF SetTagLevel
<1>2. level % LevelModulus \in 0 .. LevelModulus - 1
  BY FieldsFit, LevelsAreIntegers
<1>3. /\ s_log_cache' \in [Slots -> CacheEntry]
      /\ \A i \in Slots : s_log_cache'[i].tag = s_log_cache[i].tag
  <2>1. \A i \in Slots : s_log_cache[i] \in CacheEntry
    BY DEF BaseInv, TypeOK
  <2>2. \A i \in Slots :
          /\ [s_log_cache[i] EXCEPT !.level = level % LevelModulus] \in CacheEntry
          /\ [s_log_cache[i] EXCEPT !.level = level % LevelModulus].tag = s_log_cache[i].tag
    BY <1>2, <2>1 DEF CacheEntry
  <2> QED BY <2>1, <2>2 DEF SetTagLevel, RefreshCache
<1>4. Live' = Live
  BY DEF SetTagLevel, RefreshCache, Live
<1>5. TypeOK'
  BY <1>1, <1>3
  DEF BaseInv, TypeOK, SetTagLevel, RecordLevel, RefreshCache, NoReply, Replies
<1> QED BY <1>1, <1>3, <1>4, <1>5, LiveSlots DEF BaseInv, LiveTagged, CachedOnce

(***************************************************************************)
(* Steps that change neither the list nor the cache.                       *)
(***************************************************************************)
LEMMA AnswerOnlyBase ==
  ASSUME BaseInv, UNCHANGED <<registry, cacheVars>>,
         reply' \in Replies, aborted' \in BOOLEAN
  PROVE  BaseInv'
  BY DEF BaseInv, TypeOK, TagsDistinct, LiveTagged, CachedOnce, Live,
         registry, cacheVars

(***************************************************************************)
(* The counters keep their width.                                          *)
(***************************************************************************)
LEMMA CountersBase ==
  ASSUME TypeOK
  PROVE  /\ NewGeneration \in 0 .. GenerationModulus - 1
         /\ TakeGeneration => s_log_cache_max_generation' \in 0 .. CounterModulus - 1
         /\ (s_log_cache_misses + 1) % CounterModulus \in 0 .. CounterModulus - 1
<1>1. /\ s_log_cache_max_generation \in Nat /\ s_log_cache_max_generation + 1 \in Nat
      /\ s_log_cache_misses + 1 \in Nat
  BY WidthAssumption DEF TypeOK
<1> QED BY <1>1, FieldsFit DEF NewGeneration, TakeGeneration

(***************************************************************************)
(* A hit moves the entry it found, with a new generation, in a full cache. *)
(***************************************************************************)
LEMMA CacheHitBase ==
  ASSUME BaseInv, NEW p \in TagPointers, NEW level \in Levels,
         CacheHit(p, level), UNCHANGED <<registry, aborted>>
  PROVE  BaseInv'
<1>1. PICK i \in FirstOf(CachedAt(p)) :
        /\ Answer(p, level, s_log_cache[i].level)
        /\ IF CacheFull
           THEN /\ PlaceNewest(i, [s_log_cache[i] EXCEPT !.generation = NewGeneration])
                /\ TakeGeneration
           ELSE UNCHANGED <<s_log_cache, s_log_cache_max_generation>>
        /\ UNCHANGED <<s_log_cache_entry_count, s_log_cache_misses>>
  BY DEF CacheHit
<1>2. i \in Live /\ s_log_cache[i].tag = p /\ i \in Slots /\ s_log_cache[i] \in CacheEntry
  BY LiveSlots DEF FirstOf, CachedAt, BaseInv, TypeOK
<1>3. Live' = Live
  BY <1>1 DEF Live
<1>4. reply' \in Replies
  BY <1>1 DEF Answer, Replies
<1>5. CASE CacheFull
  <2> DEFINE entry == [s_log_cache[i] EXCEPT !.generation = NewGeneration]
  <2>1. entry \in CacheEntry /\ entry.tag = p
    BY <1>2, CountersBase DEF CacheEntry, BaseInv
  <2>2. \A j \in Slots \ {i} : s_log_cache[j].tag # entry.tag
    BY <1>2, <1>5, <2>1, LiveSlots DEF BaseInv, CachedOnce
  <2>3. PlaceNewest(i, entry) /\ TakeGeneration
    BY <1>1, <1>5
  <2> HIDE DEF entry
  <2>4. /\ s_log_cache' \in [Slots -> CacheEntry]
        /\ \A j \in Slots : s_log_cache'[j].tag \in TagPointers
        /\ \A j, k \in Slots : s_log_cache'[j].tag = s_log_cache'[k].tag => j = k
    BY <1>2, <1>5, <2>1, <2>2, <2>3, PlaceNewestKeepsTags
  <2>5. TypeOK'
    BY <1>1, <1>4, <2>3, <2>4, CountersBase DEF BaseInv, TypeOK, registry
  <2>6. Live' \subseteq Slots
    BY <1>3, LiveSlots DEF BaseInv
  <2> QED BY <2>4, <2>5, <2>6 DEF BaseInv, TagsDistinct, LiveTagged, CachedOnce, registry
<1>6. CASE ~CacheFull
  <2>1. UNCHANGED <<registry, cacheVars>>
    BY <1>1, <1>6 DEF cacheVars
  <2> QED BY <1>4, <2>1, AnswerOnlyBase DEF BaseInv, TypeOK
<1> QED BY <1>5, <1>6

(***************************************************************************)
(* A miss puts the tag in the next free slot or in place of the root.      *)
(***************************************************************************)
LEMMA CacheMissBase ==
  ASSUME BaseInv, NEW p \in TagPointers, NEW level \in Levels,
         CacheMiss(p, level), UNCHANGED <<registry, aborted>>
  PROVE  BaseInv'
<1> DEFINE stored == UncachedLevel(Text[p]) % LevelModulus
           entry == [tag |-> p, level |-> stored, generation |-> NewGeneration]
<1>1. UncachedLevel(Text[p]) \in Levels
  BY UncachedLevelType
<1>2. stored \in 0 .. LevelModulus - 1
  BY <1>1, LevelsAreIntegers, FieldsFit
<1>3. entry \in CacheEntry /\ entry.tag = p
  BY <1>2, CountersBase DEF CacheEntry, BaseInv
<1>4. reply' \in Replies
  BY DEF CacheMiss, Answer, Replies
<1>5. \A i \in Live : s_log_cache[i].tag # p
  BY DEF CacheMiss, CachedAt
<1>6. /\ TakeGeneration
      /\ IF CacheFull
         THEN PlaceNewest(0, entry) /\ UNCHANGED s_log_cache_entry_count
         ELSE /\ s_log_cache' = [s_log_cache EXCEPT ![s_log_cache_entry_count] = entry]
              /\ s_log_cache_entry_count' = s_log_cache_entry_count + 1
      /\ s_log_cache_misses' = (s_log_cache_misses + 1) % CounterModulus
  BY DEF CacheMiss, AddToCache
<1> HIDE DEF entry
<1>7. CASE CacheFull
  <2>1. Live = Slots /\ Live' = Live
    BY <1>6, <1>7, LiveSlots DEF BaseInv, Live
  <2>2. /\ s_log_cache' \in [Slots -> CacheEntry]
        /\ \A j \in Slots : s_log_cache'[j].tag \in TagPointers
        /\ \A j, k \in Slots : s_log_cache'[j].tag = s_log_cache'[k].tag => j = k
    BY <1>3, <1>5, <1>6, <1>7, <2>1, TreeShape, PlaceNewestKeepsTags
  <2>3. TypeOK'
    BY <1>4, <1>6, <1>7, <2>2, CountersBase DEF BaseInv, TypeOK, registry
  <2> QED BY <2>1, <2>2, <2>3
          DEF BaseInv, TagsDistinct, LiveTagged, CachedOnce, registry
<1>8. CASE ~CacheFull
  <2> DEFINE n == s_log_cache_entry_count
  <2>1. n \in Slots /\ n \notin Live /\ Live' = Live \cup {n}
    BY <1>6, <1>8, CacheSizeAssumption DEF BaseInv, TypeOK, CacheFull, Live, Slots
  <2>2. /\ s_log_cache' \in [Slots -> CacheEntry]
        /\ s_log_cache'[n] = entry
        /\ \A i \in Slots \ {n} : s_log_cache'[i] = s_log_cache[i]
    BY <1>3, <1>6, <1>8, <2>1 DEF BaseInv, TypeOK
  <2>3. s_log_cache_entry_count' \in 0 .. CONFIG_LOG_TAG_CACHE_SIZE
    BY <1>6, <1>8, CacheSizeAssumption DEF BaseInv, TypeOK, CacheFull
  <2>4. TypeOK'
    BY <1>4, <1>6, <2>2, <2>3, CountersBase DEF BaseInv, TypeOK, registry
  <2>5. \A i \in Live : s_log_cache'[i] = s_log_cache[i]
    BY <2>1, <2>2, LiveSlots DEF BaseInv
  <2>6. LiveTagged'
    BY <1>3, <2>1, <2>2, <2>5 DEF BaseInv, LiveTagged
  <2>7. CachedOnce'
    BY <1>3, <1>5, <2>1, <2>2, <2>5 DEF BaseInv, CachedOnce
  <2> QED BY <2>4, <2>6, <2>7 DEF BaseInv, TagsDistinct, registry
<1> QED BY <1>7, <1>8

(***************************************************************************)
(* Every step keeps the base invariant.                                    *)
(***************************************************************************)
LEMMA NextBase == BaseInv /\ [Next]_vars => BaseInv'
<1> SUFFICES ASSUME BaseInv, [Next]_vars PROVE BaseInv'
  OBVIOUS
<1>1. ASSUME NEW p \in TagPointers, NEW level \in Levels, log_level_set(p, level)
      PROVE  BaseInv'
  <2>1. NoReply \in Replies
    BY DEF Replies
  <2>2. CASE Text[p] = Wildcard
    BY <1>1, <2>2, SetDefaultBase DEF log_level_set
  <2>3. CASE Text[p] # Wildcard /\ SetTagLevel(Text[p], level)
    BY <1>1, <2>3, SetTagBase DEF log_level_set, Names
  <2>4. CASE AllocationFails(Text[p])
    BY <1>1, <2>1, <2>4, AnswerOnlyBase
    DEF log_level_set, AllocationFails, BaseInv, TypeOK
  <2> QED BY <1>1, <2>2, <2>3, <2>4 DEF log_level_set
<1>2. ASSUME NEW p \in TagPointers, NEW level \in Levels, is_tag_level_visible(level, p)
      PROVE  BaseInv'
  <2>1. CASE LockTimesOut(p, level)
    <3>1. reply' \in Replies
      BY <2>1 DEF LockTimesOut, Replies
    <3> QED BY <2>1, <3>1, AnswerOnlyBase DEF LockTimesOut, BaseInv, TypeOK
  <2>2. CASE LookupAborts(p)
    BY <2>2, AnswerOnlyBase DEF LookupAborts, BaseInv, TypeOK
  <2>3. CASE CacheHit(p, level) /\ UNCHANGED <<registry, aborted>>
    BY <2>3, CacheHitBase
  <2>4. CASE CacheMiss(p, level) /\ UNCHANGED <<registry, aborted>>
    BY <2>4, CacheMissBase
  <2> QED BY <1>2, <2>1, <2>2, <2>3, <2>4 DEF is_tag_level_visible
<1>3. CASE UNCHANGED vars
  BY <1>3, AnswerOnlyBase DEF vars, BaseInv, TypeOK
<1> QED BY <1>1, <1>2, <1>3 DEF Next

(***************************************************************************)
(* BaseInv is an invariant: types, a list of distinct tags, and live slots *)
(* that hold distinct addresses.                                           *)
(***************************************************************************)
THEOREM BaseInvariant == Spec => []BaseInv
BY InitBase, NextBase, PTL DEF Spec

(***************************************************************************)
(* Every variable keeps its type: the list a list of non-wildcard tags and *)
(* legal levels, the array CONFIG_LOG_TAG_CACHE_SIZE slots of three fields *)
(* of their widths, at most that many of them live.                        *)
(***************************************************************************)
THEOREM TypeCorrect == Spec => []TypeOK
BY BaseInvariant, PTL DEF BaseInv

(***************************************************************************)
(* log_level_set never leaves two entries for one tag string in the list.  *)
(***************************************************************************)
THEOREM TagsStayDistinct == Spec => []TagsDistinct
BY BaseInvariant, PTL DEF BaseInv

(***************************************************************************)
(* The cache never holds one address in two live slots.                    *)
(***************************************************************************)
THEOREM CachedAtMostOnce == Spec => []CachedOnce
BY BaseInvariant, PTL DEF BaseInv

-----------------------------------------------------------------------------
(* The heap, as long as the generation field does not wrap. *)

LiveBelowMax ==
  \A i \in Live : s_log_cache[i].generation < s_log_cache_max_generation

LiveHeap ==
  \A i \in Live \ {0} :
    s_log_cache[Parent(i)].generation < s_log_cache[i].generation

HeapInv ==
  /\ BaseInv
  /\ s_log_cache_max_generation <= MaxGeneration
  /\ LiveBelowMax
  /\ DistinctGenerations(s_log_cache, Live)
  /\ LiveHeap
  /\ AssertsHold

(***************************************************************************)
(* A new generation is the counter itself: the field does not cut it.      *)
(***************************************************************************)
LEMMA GenerationUncut ==
  ASSUME GenerationsFit, TypeOK, TakeGeneration
  PROVE  /\ NewGeneration = s_log_cache_max_generation
         /\ s_log_cache_max_generation' = s_log_cache_max_generation + 1
         /\ s_log_cache_max_generation' <= MaxGeneration
<1>1. \A n, m \in Nat : n < m => n % m = n
  OBVIOUS
<1>2. /\ s_log_cache_max_generation \in Nat /\ GenerationModulus \in Nat
      /\ CounterModulus \in Nat /\ MaxGeneration \in Nat
      /\ s_log_cache_max_generation < MaxGeneration
  BY WidthAssumption DEF TypeOK, TakeGeneration
<1> QED BY <1>1, <1>2 DEF GenerationsFit, NewGeneration, TakeGeneration

(***************************************************************************)
(* An empty cache is a heap.                                               *)
(***************************************************************************)
LEMMA InitHeap == Init => HeapInv
  BY InitBase, WidthAssumption
  DEF Init, HeapInv, LiveBelowMax, DistinctGenerations, LiveHeap, AssertsHold, Live

(***************************************************************************)
(* Replacing a slot of the full heap by the youngest entry gives a heap of *)
(* distinct generations again.                                             *)
(***************************************************************************)
LEMMA PlaceNewestOrders ==
  ASSUME HeapInv, CacheFull, NEW index \in Slots, NEW entry \in CacheEntry,
         entry.generation = s_log_cache_max_generation,
         PlaceNewest(index, entry)
  PROVE  /\ IsHeap(s_log_cache')
         /\ DistinctGenerations(s_log_cache', Slots)
         /\ \A i \in Slots : s_log_cache'[i].generation < s_log_cache_max_generation + 1
<1>1. /\ TypeOK /\ Live = Slots /\ s_log_cache \in [Slots -> CacheEntry]
      /\ s_log_cache_max_generation \in Nat
  BY LiveSlots, WidthAssumption DEF HeapInv, BaseInv, TypeOK
<1>2. /\ IsHeap(s_log_cache)
      /\ DistinctGenerations(s_log_cache, Slots)
      /\ \A i \in Slots : s_log_cache[i].generation < entry.generation
  BY <1>1 DEF HeapInv, LiveHeap, LiveBelowMax, IsHeap
<1>3. \A i \in Slots : s_log_cache[i].generation \in Int
  BY <1>1 DEF CacheEntry
<1>4. IsHeap(s_log_cache')
  <2>1. PICK path \in SUBSET Slots :
          /\ IsBubblePath([s_log_cache EXCEPT ![index] = entry], index, path)
          /\ s_log_cache' =
               BubbledDown([s_log_cache EXCEPT ![index] = entry], index, path)
    BY DEF PlaceNewest
  <2> QED BY <1>1, <1>2, <2>1, BubbleOrders
<1>5. PICK source \in [Slots -> Slots] :
        /\ \A i, j \in Slots : source[i] = source[j] => i = j
        /\ s_log_cache' =
             [i \in Slots |-> IF source[i] = index THEN entry
                                                   ELSE s_log_cache[source[i]]]
  BY <1>1, PlaceNewestPermutes
<1>6. ASSUME NEW i \in Slots, NEW j \in Slots,
             s_log_cache'[i].generation = s_log_cache'[j].generation
      PROVE  i = j
  <2>1. CASE source[i] = index /\ source[j] = index
    BY <1>5, <2>1
  <2>2. CASE source[i] # index /\ source[j] # index
    <3>1. s_log_cache[source[i]].generation = s_log_cache[source[j]].generation
      BY <1>5, <1>6, <2>2
    <3> QED BY <1>2, <1>5, <3>1 DEF DistinctGenerations
  <2>3. CASE source[i] = index /\ source[j] # index
    BY <1>1, <1>2, <1>3, <1>5, <1>6, <2>3
  <2>4. CASE source[i] # index /\ source[j] = index
    BY <1>1, <1>2, <1>3, <1>5, <1>6, <2>4
  <2> QED BY <2>1, <2>2, <2>3, <2>4
<1>7. \A i \in Slots : s_log_cache'[i].generation < s_log_cache_max_generation + 1
  BY <1>1, <1>2, <1>3, <1>5
<1> QED BY <1>4, <1>6, <1>7 DEF DistinctGenerations

(***************************************************************************)
(* Both asserts hold of whatever slots a search looks at.                  *)
(***************************************************************************)
LEMMA NoAssertFails ==
  ASSUME HeapInv, NEW found
  PROVE  OrderAssert(found)
  BY DEF HeapInv, LiveHeap, OrderAssert, Scanned

(***************************************************************************)
(* Renewing the entry a lookup found keeps the heap.                       *)
(***************************************************************************)
LEMMA CacheHitHeap ==
  ASSUME GenerationsFit, HeapInv, BaseInv', NEW p, NEW level,
         CacheHit(p, level), UNCHANGED aborted
  PROVE  HeapInv'
<1>1. PICK i \in FirstOf(CachedAt(p)) :
        /\ IF CacheFull
           THEN /\ PlaceNewest(i, [s_log_cache[i] EXCEPT !.generation = NewGeneration])
                /\ TakeGeneration
           ELSE UNCHANGED <<s_log_cache, s_log_cache_max_generation>>
        /\ UNCHANGED s_log_cache_entry_count
  BY DEF CacheHit
<1>2. TypeOK /\ i \in Slots /\ s_log_cache[i] \in CacheEntry /\ Live' = Live
  BY <1>1, LiveSlots DEF FirstOf, CachedAt, HeapInv, BaseInv, TypeOK, Live
<1>3. CASE CacheFull
  <2> DEFINE entry == [s_log_cache[i] EXCEPT !.generation = NewGeneration]
  <2>1. PlaceNewest(i, entry) /\ TakeGeneration
    BY <1>1, <1>3
  <2>2. entry \in CacheEntry /\ entry.generation = s_log_cache_max_generation
    BY <1>2, <2>1, CountersBase, GenerationUncut DEF CacheEntry
  <2> HIDE DEF entry
  <2>3. Live' = Slots
    BY <1>2, <1>3, LiveSlots
  <2>4. /\ IsHeap(s_log_cache') /\ DistinctGenerations(s_log_cache', Slots)
        /\ \A j \in Slots : s_log_cache'[j].generation < s_log_cache_max_generation'
        /\ s_log_cache_max_generation' <= MaxGeneration
    BY <1>2, <1>3, <2>1, <2>2, PlaceNewestOrders, GenerationUncut
  <2> QED BY <2>3, <2>4 DEF HeapInv, LiveBelowMax, LiveHeap, IsHeap, AssertsHold
<1>4. CASE ~CacheFull
  BY <1>1, <1>2, <1>4
  DEF HeapInv, LiveBelowMax, LiveHeap, DistinctGenerations, AssertsHold
<1> QED BY <1>3, <1>4

(***************************************************************************)
(* Appending the youngest entry, or replacing the root by it, keeps the    *)
(* heap.                                                                   *)
(***************************************************************************)
LEMMA CacheMissHeap ==
  ASSUME GenerationsFit, HeapInv, BaseInv', NEW p \in TagPointers, NEW level,
         CacheMiss(p, level), UNCHANGED aborted
  PROVE  HeapInv'
<1> DEFINE stored == UncachedLevel(Text[p]) % LevelModulus
           entry == [tag |-> p, level |-> stored, generation |-> NewGeneration]
<1>1. /\ TakeGeneration
      /\ IF CacheFull
         THEN PlaceNewest(0, entry) /\ UNCHANGED s_log_cache_entry_count
         ELSE /\ s_log_cache' = [s_log_cache EXCEPT ![s_log_cache_entry_count] = entry]
              /\ s_log_cache_entry_count' = s_log_cache_entry_count + 1
  BY DEF CacheMiss, AddToCache
<1>2. /\ TypeOK /\ s_log_cache \in [Slots -> CacheEntry]
      /\ \A i \in Slots : s_log_cache[i].generation \in Int
      /\ s_log_cache_max_generation \in Nat
  BY WidthAssumption DEF HeapInv, BaseInv, TypeOK, CacheEntry
<1>3. /\ entry \in CacheEntry
      /\ entry.generation = s_log_cache_max_generation
      /\ s_log_cache_max_generation' = s_log_cache_max_generation + 1
      /\ s_log_cache_max_generation' <= MaxGeneration
  <2>1. stored \in 0 .. LevelModulus - 1
    BY UncachedLevelType, LevelsAreIntegers, FieldsFit DEF HeapInv
  <2> QED BY <1>1, <1>2, <2>1, CountersBase, GenerationUncut DEF CacheEntry
<1> HIDE DEF entry
<1>4. CASE CacheFull
  <2>1. Live' = Slots
    BY <1>1, <1>2, <1>4, LiveSlots DEF Live
  <2>2. /\ IsHeap(s_log_cache') /\ DistinctGenerations(s_log_cache', Slots)
        /\ \A j \in Slots : s_log_cache'[j].generation < s_log_cache_max_generation'
    BY <1>1, <1>3, <1>4, TreeShape, PlaceNewestOrders
  <2> QED BY <1>3, <2>1, <2>2
          DEF HeapInv, LiveBelowMax, LiveHeap, IsHeap, AssertsHold
<1>5. CASE ~CacheFull
  <2> DEFINE n == s_log_cache_entry_count
  <2>1. /\ n \in Slots /\ n \notin Live /\ Live' = Live \cup {n}
        /\ \A i \in Live : i < n
        /\ \A i \in Slots : i < n => i \in Live
    BY <1>1, <1>2, <1>5, CacheSizeAssumption DEF TypeOK, CacheFull, Live, Slots
  <2>2. /\ s_log_cache'[n] = entry
        /\ \A i \in Live : s_log_cache'[i] = s_log_cache[i]
    BY <1>1, <1>2, <1>5, <2>1, LiveSlots
  <2>3. LiveBelowMax'
    BY <1>2, <1>3, <2>1, <2>2, LiveSlots DEF HeapInv, LiveBelowMax
  <2>4. DistinctGenerations(s_log_cache', Live')
    <3>1. \A i \in Live : s_log_cache'[i].generation # entry.generation
      BY <1>2, <1>3, <2>2, LiveSlots DEF HeapInv, LiveBelowMax
    <3> QED BY <2>1, <2>2, <3>1 DEF HeapInv, DistinctGenerations
  <2>5. LiveHeap'
    <3> SUFFICES ASSUME NEW i \in Live' \ {0}
                 PROVE  s_log_cache'[Parent(i)].generation < s_log_cache'[i].generation
      BY DEF LiveHeap
    <3>1. i \in Slots \ {0}
      BY <1>2, <2>1, LiveSlots
    <3>2. Parent(i) \in Slots /\ Parent(i) < i
      BY <3>1, TreeShape
    <3>3. Parent(i) \in Live
      BY <2>1, <3>1, <3>2 DEF Slots
    <3>4. CASE i = n
      BY <1>3, <2>2, <3>3, <3>4 DEF HeapInv, LiveBelowMax
    <3>5. CASE i \in Live
      BY <2>2, <3>3, <3>5 DEF HeapInv, LiveHeap
    <3> QED BY <2>1, <3>4, <3>5
  <2> QED BY <1>3, <2>3, <2>4, <2>5 DEF HeapInv, AssertsHold
<1> QED BY <1>4, <1>5

(***************************************************************************)
(* Every step keeps the heap.                                              *)
(***************************************************************************)
LEMMA NextHeap ==
  ASSUME GenerationsFit
  PROVE  HeapInv /\ [Next]_vars => HeapInv'
<1> SUFFICES ASSUME HeapInv, [Next]_vars PROVE HeapInv'
  OBVIOUS
<1>1. BaseInv'
  BY NextBase DEF HeapInv
<1>2. ASSUME UNCHANGED <<s_log_cache, s_log_cache_max_generation,
                         s_log_cache_entry_count, aborted>>
      PROVE  HeapInv'
  BY <1>1, <1>2
  DEF HeapInv, LiveBelowMax, LiveHeap, DistinctGenerations, AssertsHold, Live
<1>3. ASSUME NEW p \in TagPointers, NEW level \in Levels, log_level_set(p, level)
      PROVE  HeapInv'
  <2>1. CASE SetDefaultLevel(level)
    <3>1. /\ Live' = {} /\ s_log_cache_max_generation' = 0
          /\ UNCHANGED aborted
      BY <2>1 DEF SetDefaultLevel, Live
    <3> QED BY <1>1, <3>1, WidthAssumption
            DEF HeapInv, LiveBelowMax, LiveHeap, DistinctGenerations, AssertsHold
  <2>2. CASE SetTagLevel(Text[p], level)
    <3>1. /\ Live' = Live /\ UNCHANGED s_log_cache_max_generation
          /\ aborted' = FALSE
      BY <2>2, NoAssertFails DEF SetTagLevel, RefreshCache, Live
    <3>2. \A i \in Slots : s_log_cache'[i].generation = s_log_cache[i].generation
      <4>1. \A i \in Slots : s_log_cache[i] \in CacheEntry
        BY DEF HeapInv, BaseInv, TypeOK
      <4>2. \A i \in Slots :
              [s_log_cache[i] EXCEPT !.level = level % LevelModulus].generation
                = s_log_cache[i].generation
        BY <4>1 DEF CacheEntry
      <4> QED BY <2>2, <4>2 DEF SetTagLevel, RefreshCache
    <3>3. Live \subseteq Slots /\ \A i \in Live \ {0} : Parent(i) \in Slots
      BY LiveSlots, TreeShape DEF HeapInv, BaseInv
    <3> QED BY <1>1, <3>1, <3>2, <3>3
            DEF HeapInv, LiveBelowMax, LiveHeap, DistinctGenerations, AssertsHold
  <2>3. CASE AllocationFails(Text[p])
    BY <1>2, <2>3 DEF AllocationFails, cacheVars
  <2> QED BY <1>3, <2>1, <2>2, <2>3 DEF log_level_set
<1>4. ASSUME NEW p \in TagPointers, NEW level \in Levels, is_tag_level_visible(level, p)
      PROVE  HeapInv'
  <2>1. CASE LockTimesOut(p, level)
    BY <1>2, <2>1 DEF LockTimesOut, cacheVars
  <2>2. ~LookupAborts(p)
    BY NoAssertFails DEF LookupAborts
  <2>3. CASE CacheHit(p, level) /\ UNCHANGED aborted
    BY <1>1, <2>3, CacheHitHeap
  <2>4. CASE CacheMiss(p, level) /\ UNCHANGED aborted
    BY <1>1, <2>4, CacheMissHeap
  <2> QED BY <1>4, <2>1, <2>2, <2>3, <2>4 DEF is_tag_level_visible
<1>5. CASE UNCHANGED vars
  BY <1>2, <1>5 DEF vars, cacheVars
<1> QED BY <1>3, <1>4, <1>5 DEF Next

(***************************************************************************)
(* In a heap the root is below every other slot: a slot that is not above  *)
(* the root, smallest in index, would have its parent above it.            *)
(***************************************************************************)
LEMMA RootOldest == HeapInv => HeapOrdered
<1> SUFFICES ASSUME HeapInv PROVE HeapOrdered
  OBVIOUS
<1> DEFINE gen(i) == s_log_cache[i].generation
           Bad == {i \in Live \ {0} : ~(gen(0) < gen(i))}
<1>1. /\ Live \subseteq Slots /\ Slots \subseteq Nat
      /\ \A i \in Slots : gen(i) \in Int
  BY LiveSlots DEF HeapInv, BaseInv, TypeOK, CacheEntry, Slots
<1>2. \A i \in Live \ {0} : Parent(i) \in Live /\ Parent(i) < i /\ gen(Parent(i)) < gen(i)
  <2>1. \A i \in Live \ {0} : Parent(i) \in Slots /\ Parent(i) < i
    BY <1>1, TreeShape
  <2>2. \A i \in Live \ {0} : Parent(i) \in Live
    BY <2>1, CacheSizeAssumption DEF Live, Slots, HeapInv, BaseInv, TypeOK
  <2> QED BY <2>1, <2>2 DEF HeapInv, LiveHeap
<1>3. ASSUME Bad # {} PROVE FALSE
  <2>1. Bad \subseteq Nat
    BY <1>1
  <2> HIDE DEF Bad
  <2>2. PICK i \in Bad : \A j \in Bad : ~(<<j, i>> \in OpToRel(<, Nat))
    BY <1>3, <2>1, NatLessThanWellFounded, WFMin
  <2>3. \A j \in Bad : ~(j < i)
    BY <2>1, <2>2 DEF OpToRel
  <2>4. i \in Live \ {0} /\ ~(gen(0) < gen(i))
    BY DEF Bad
  <2>5. Parent(i) \notin Bad
    BY <1>2, <2>3, <2>4
  <2>6. CASE Parent(i) = 0
    BY <1>2, <2>4, <2>6
  <2>7. CASE Parent(i) # 0
    <3>1. gen(0) < gen(Parent(i))
      BY <1>2, <2>4, <2>5, <2>7 DEF Bad
    <3>2. gen(0) \in Int /\ gen(i) \in Int /\ gen(Parent(i)) \in Int
      BY <1>1, <1>2, <2>4, TreeShape
    <3> HIDE DEF gen
    <3> QED BY <1>2, <2>4, <3>1, <3>2 DEF gen
  <2> QED BY <2>6, <2>7
<1> QED BY <1>2, <1>3 DEF HeapOrdered

(***************************************************************************)
(* While the generation field does not wrap, the live slots are a strict   *)
(* min-heap whose root is the oldest entry, after any sequence of sets,    *)
(* resets, hits and evictions.                                             *)
(***************************************************************************)
THEOREM HeapStaysOrdered == GenerationsFit => (Spec => []HeapOrdered)
<1> SUFFICES ASSUME GenerationsFit PROVE Spec => []HeapOrdered
  OBVIOUS
<1> QED BY InitHeap, NextHeap, RootOldest, PTL DEF Spec

(***************************************************************************)
(* While the generation field does not wrap, no assert of log.c fails.     *)
(***************************************************************************)
THEOREM AssertsNeverFail == GenerationsFit => (Spec => []AssertsHold)
<1> SUFFICES ASSUME GenerationsFit PROVE Spec => []AssertsHold
  OBVIOUS
<1>1. HeapInv => AssertsHold
  BY DEF HeapInv
<1> QED BY <1>1, InitHeap, NextHeap, PTL DEF Spec

-----------------------------------------------------------------------------
(* The cache is effective. *)

(***************************************************************************)
(* Every miss takes a generation, and fills a slot while there is one.     *)
(***************************************************************************)
MissesCounted ==
  /\ BaseInv
  /\ s_log_cache_max_generation <= MaxGeneration
  /\ s_log_cache_misses <= s_log_cache_max_generation
  /\ ~CacheFull => s_log_cache_misses = s_log_cache_entry_count
  /\ CacheFull => CONFIG_LOG_TAG_CACHE_SIZE <= s_log_cache_misses

(***************************************************************************)
(* Before the first lookup nothing is missed and nothing is live.          *)
(***************************************************************************)
LEMMA InitMisses == Init => MissesCounted
  BY InitBase, WidthAssumption, CacheSizeAssumption DEF Init, MissesCounted, CacheFull

(***************************************************************************)
(* The counters change together, in a miss, a reset or a hit that renews.  *)
(***************************************************************************)
LEMMA NextMisses ==
  ASSUME GenerationsFit
  PROVE  MissesCounted /\ [Next]_vars => MissesCounted'
<1> SUFFICES ASSUME MissesCounted, [Next]_vars PROVE MissesCounted'
  OBVIOUS
<1> DEFINE size == CONFIG_LOG_TAG_CACHE_SIZE
<1>1. BaseInv'
  BY NextBase DEF MissesCounted
<1>2. /\ s_log_cache_misses \in Nat /\ s_log_cache_max_generation \in Nat
      /\ s_log_cache_entry_count \in 0 .. size /\ size \in Nat /\ size # 0
      /\ MaxGeneration \in Nat /\ CounterModulus \in Nat /\ MaxGeneration < CounterModulus
  BY WidthAssumption, CacheSizeAssumption DEF MissesCounted, BaseInv, TypeOK, GenerationsFit
<1>3. ASSUME UNCHANGED <<s_log_cache_max_generation, s_log_cache_entry_count,
                         s_log_cache_misses>>
      PROVE  MissesCounted'
  BY <1>1, <1>3 DEF MissesCounted, CacheFull
<1>4. ASSUME NEW p \in TagPointers, NEW level \in Levels, log_level_set(p, level)
      PROVE  MissesCounted'
  <2>1. CASE SetDefaultLevel(level)
    BY <1>1, <1>2, <2>1 DEF SetDefaultLevel, MissesCounted, CacheFull
  <2>2. CASE SetTagLevel(Text[p], level)
    BY <1>3, <2>2 DEF SetTagLevel, RefreshCache
  <2>3. CASE AllocationFails(Text[p])
    BY <1>3, <2>3 DEF AllocationFails, cacheVars
  <2> QED BY <1>4, <2>1, <2>2, <2>3 DEF log_level_set
<1>5. ASSUME NEW p \in TagPointers, NEW level \in Levels, is_tag_level_visible(level, p)
      PROVE  MissesCounted'
  <2>1. TakeGeneration =>
          /\ s_log_cache_max_generation' = s_log_cache_max_generation + 1
          /\ s_log_cache_max_generation' <= MaxGeneration
    BY GenerationUncut DEF MissesCounted, BaseInv
  <2>2. CASE LockTimesOut(p, level)
    BY <1>3, <2>2 DEF LockTimesOut, cacheVars
  <2>3. CASE LookupAborts(p)
    BY <1>3, <2>3 DEF LookupAborts, cacheVars
  <2>4. CASE CacheHit(p, level)
    <3>1. UNCHANGED <<s_log_cache_entry_count, s_log_cache_misses>>
      BY <2>4 DEF CacheHit
    <3>2. TakeGeneration \/ UNCHANGED s_log_cache_max_generation
      BY <2>4 DEF CacheHit
    <3> QED BY <1>1, <1>2, <2>1, <3>1, <3>2 DEF MissesCounted, CacheFull
  <2>5. CASE CacheMiss(p, level)
    <3>1. TakeGeneration /\ s_log_cache_misses' = (s_log_cache_misses + 1) % CounterModulus
      BY <2>5 DEF CacheMiss, AddToCache
    <3>2. s_log_cache_misses' = s_log_cache_misses + 1
      <4>1. \A n, m \in Nat : n < m => n % m = n
        OBVIOUS
      <4>2. s_log_cache_misses + 1 < CounterModulus
        BY <1>2, <3>1 DEF TakeGeneration, MissesCounted
      <4> QED BY <1>2, <3>1, <4>1, <4>2
    <3>3. s_log_cache_entry_count' = IF CacheFull THEN s_log_cache_entry_count
                                                  ELSE s_log_cache_entry_count + 1
      BY <2>5 DEF CacheMiss, AddToCache
    <3> QED BY <1>1, <1>2, <2>1, <3>1, <3>2, <3>3 DEF MissesCounted, CacheFull
  <2> QED BY <1>5, <2>2, <2>3, <2>4, <2>5 DEF is_tag_level_visible
<1>6. CASE UNCHANGED vars
  BY <1>3, <1>6 DEF vars, cacheVars
<1> QED BY <1>4, <1>5, <1>6 DEF Next

(***************************************************************************)
(* While the counters do not wrap, a working set that fits the cache is    *)
(* missed once per tag: the misses since the last reset are the live       *)
(* slots, until a tag too many comes along.                                *)
(***************************************************************************)
THEOREM WorkingSetIsKept == GenerationsFit => (Spec => []WorkingSetStaysCached)
<1> SUFFICES ASSUME GenerationsFit PROVE Spec => []WorkingSetStaysCached
  OBVIOUS
<1>1. MissesCounted => WorkingSetStaysCached
  BY CacheSizeAssumption
  DEF MissesCounted, BaseInv, TypeOK, CacheFull, WorkingSetStaysCached
<1> QED BY <1>1, InitMisses, NextMisses, PTL DEF Spec

-----------------------------------------------------------------------------
(* The cache agrees with the list. *)

Entries(list) == {list[k] : k \in DOMAIN list}

(***************************************************************************)
(* In a list of distinct tags the first entry of a tag is its only one.    *)
(***************************************************************************)
LEMMA FirstIsOnly ==
  ASSUME NEW list \in Seq(TagEntry), NEW k \in DOMAIN list,
         \A i, j \in DOMAIN list : list[i].tag = list[j].tag => i = j
  PROVE  k = CHOOSE m \in DOMAIN list :
               /\ list[m].tag = list[k].tag
               /\ \A j \in 1 .. m - 1 : list[j].tag # list[k].tag
<1>1. \A j \in 1 .. k - 1 : list[j].tag # list[k].tag
  OBVIOUS
<1> QED BY <1>1

(***************************************************************************)
(* RecordLevel replaces the entry of its tag, or adds it, and touches no   *)
(* other.                                                                  *)
(***************************************************************************)
LEMMA RecordedEntries ==
  ASSUME BaseInv, NEW name \in Names \ {Wildcard}, NEW level \in Levels,
         RecordLevel(name, level)
  PROVE  Entries(s_log_tags') = {e \in Entries(s_log_tags) : e.tag # name}
                                  \cup {[tag |-> name, level |-> level]}
<1>1. s_log_tags \in Seq(TagEntry)
  BY DEF BaseInv, TypeOK
<1> DEFINE entry == [tag |-> name, level |-> level]
<1>2. entry.tag = name
  OBVIOUS
<1>3. CASE Recorded(name)
  <2> DEFINE k == FirstRecord(name)
  <2>1. k \in DOMAIN s_log_tags /\ s_log_tags[k].tag = name
    BY <1>3, FirstRecordFound
  <2> HIDE DEF k
  <2>2. s_log_tags' = [s_log_tags EXCEPT ![k].level = level]
    BY <1>3 DEF RecordLevel, k
  <2>3. s_log_tags[k] \in TagEntry
    BY <1>1, <2>1
  <2>4. [s_log_tags[k] EXCEPT !.level = level] = entry
    BY <2>1, <2>3 DEF TagEntry
  <2> HIDE DEF entry
  <2>5. /\ DOMAIN s_log_tags' = DOMAIN s_log_tags
        /\ s_log_tags'[k] = entry
        /\ \A j \in DOMAIN s_log_tags \ {k} : s_log_tags'[j] = s_log_tags[j]
    BY <1>1, <2>1, <2>2, <2>4
  <2>6. \A j \in DOMAIN s_log_tags \ {k} : s_log_tags[j].tag # name
    BY <2>1 DEF BaseInv, TagsDistinct
  <2>7. Entries(s_log_tags') \subseteq {e \in Entries(s_log_tags) : e.tag # name} \cup {entry}
    BY <2>1, <2>5, <2>6 DEF Entries
  <2>8. {e \in Entries(s_log_tags) : e.tag # name} \cup {entry} \subseteq Entries(s_log_tags')
    BY <2>1, <2>5 DEF Entries
  <2> QED BY <2>7, <2>8 DEF entry
<1>4. CASE ~Recorded(name)
  <2> HIDE DEF entry
  <2>1. s_log_tags' = <<entry>> \o s_log_tags
    BY <1>4 DEF RecordLevel, entry
  <2>2. Len(s_log_tags) \in Nat /\ DOMAIN s_log_tags = 1 .. Len(s_log_tags)
    BY <1>1
  <2>3. /\ DOMAIN s_log_tags' = 1 .. Len(s_log_tags) + 1
        /\ s_log_tags'[1] = entry
        /\ \A j \in 2 .. Len(s_log_tags) + 1 : s_log_tags'[j] = s_log_tags[j - 1]
    <3>1. entry \in TagEntry
      BY DEF TagEntry, entry
    <3> QED BY <1>1, <2>1, <3>1
  <2>4. \A j \in DOMAIN s_log_tags : s_log_tags'[j + 1] = s_log_tags[j] /\ j + 1 \in DOMAIN s_log_tags'
    BY <2>2, <2>3
  <2>5. \A j \in DOMAIN s_log_tags' \ {1} : \E i \in DOMAIN s_log_tags : s_log_tags'[j] = s_log_tags[i]
    <3> SUFFICES ASSUME NEW j \in DOMAIN s_log_tags' \ {1}
                 PROVE  \E i \in DOMAIN s_log_tags : s_log_tags'[j] = s_log_tags[i]
      OBVIOUS
    <3>1. j - 1 \in DOMAIN s_log_tags /\ s_log_tags'[j] = s_log_tags[j - 1]
      BY <2>2, <2>3
    <3> QED BY <3>1
  <2>6. \A j \in DOMAIN s_log_tags : s_log_tags[j].tag # name
    BY <1>4 DEF Recorded
  <2>7. 1 \in DOMAIN s_log_tags'
    BY <2>2, <2>3
  <2>8. Entries(s_log_tags') \subseteq {e \in Entries(s_log_tags) : e.tag # name} \cup {entry}
    BY <2>3, <2>5, <2>6 DEF Entries
  <2>9. {e \in Entries(s_log_tags) : e.tag # name} \cup {entry} \subseteq Entries(s_log_tags')
    BY <2>3, <2>4, <2>7 DEF Entries
  <2> QED BY <2>8, <2>9 DEF entry
<1> QED BY <1>3, <1>4

(***************************************************************************)
(* The level the code finds for a tag is that of its entry.                *)
(***************************************************************************)
LEMMA LevelOfEntry ==
  ASSUME s_log_tags \in Seq(TagEntry), TagsDistinct
  PROVE  /\ \A e \in Entries(s_log_tags) : UncachedLevel(e.tag) = e.level
         /\ \A name : (\A e \in Entries(s_log_tags) : e.tag # name)
                        => UncachedLevel(name) = s_log_default_level
<1>1. ASSUME NEW k \in DOMAIN s_log_tags
      PROVE  UncachedLevel(s_log_tags[k].tag) = s_log_tags[k].level
  <2>1. FirstRecord(s_log_tags[k].tag) = k
    BY FirstIsOnly DEF FirstRecord, TagsDistinct
  <2> QED BY <2>1 DEF UncachedLevel, Recorded
<1>2. ASSUME NEW name, \A e \in Entries(s_log_tags) : e.tag # name
      PROVE  UncachedLevel(name) = s_log_default_level
  BY <1>2 DEF UncachedLevel, Recorded, Entries
<1> QED BY <1>1, <1>2 DEF Entries

(***************************************************************************)
(* The same of the next state.                                             *)
(***************************************************************************)
LEMMA LevelOfEntryNext ==
  ASSUME (s_log_tags \in Seq(TagEntry))', TagsDistinct'
  PROVE  /\ \A e \in Entries(s_log_tags') : UncachedLevel(e.tag)' = e.level
         /\ \A name : (\A e \in Entries(s_log_tags') : e.tag # name)
                        => UncachedLevel(name)' = s_log_default_level'
<1>1. ASSUME NEW k \in DOMAIN s_log_tags'
      PROVE  UncachedLevel(s_log_tags[k].tag)' = s_log_tags'[k].level
  <2>1. FirstRecord(s_log_tags[k].tag)' = k
    BY FirstIsOnly DEF FirstRecord, TagsDistinct
  <2> QED BY <2>1 DEF UncachedLevel, Recorded
<1>2. ASSUME NEW name, \A e \in Entries(s_log_tags') : e.tag # name
      PROVE  UncachedLevel(name)' = s_log_default_level'
  BY <1>2 DEF UncachedLevel, Recorded, Entries
<1> QED BY <1>1, <1>2 DEF Entries

(***************************************************************************)
(* log_level_set gives its tag the level, and no other tag another one.    *)
(***************************************************************************)
LEMMA RecordSetsLevel ==
  ASSUME BaseInv, NEW name \in Names \ {Wildcard}, NEW level \in Levels,
         RecordLevel(name, level)
  PROVE  /\ UncachedLevel(name)' = level
         /\ \A other : other # name => UncachedLevel(other)' = UncachedLevel(other)
<1> DEFINE entry == [tag |-> name, level |-> level]
<1>1. s_log_tags \in Seq(TagEntry) /\ TagsDistinct
  BY DEF BaseInv, TypeOK
<1>2. s_log_tags' \in Seq(TagEntry) /\ TagsDistinct'
  BY RecordKeepsList
<1>3. s_log_default_level' = s_log_default_level
  BY DEF RecordLevel
<1>4. Entries(s_log_tags') = {e \in Entries(s_log_tags) : e.tag # name} \cup {entry}
  BY RecordedEntries
<1>5. /\ \A e \in Entries(s_log_tags') : UncachedLevel(e.tag)' = e.level
      /\ \A n : (\A e \in Entries(s_log_tags') : e.tag # n)
                  => UncachedLevel(n)' = s_log_default_level'
  BY <1>2, LevelOfEntryNext
<1>6. UncachedLevel(name)' = level
  BY <1>4, <1>5
<1>7. ASSUME NEW other, other # name
      PROVE  UncachedLevel(other)' = UncachedLevel(other)
  <2>1. CASE \E e \in Entries(s_log_tags) : e.tag = other
    <3>1. PICK e \in Entries(s_log_tags) : e.tag = other
      BY <2>1
    <3>2. e \in Entries(s_log_tags')
      BY <1>4, <1>7, <3>1
    <3> QED BY <1>1, <1>5, <3>1, <3>2, LevelOfEntry
  <2>2. CASE \A e \in Entries(s_log_tags) : e.tag # other
    <3>1. \A e \in Entries(s_log_tags') : e.tag # other
      BY <1>4, <1>7, <2>2
    <3> QED BY <1>1, <1>3, <1>5, <2>2, <3>1, LevelOfEntry
  <2> QED BY <2>1, <2>2
<1> QED BY <1>6, <1>7

CoherentInv == BaseInv /\ CacheCoherent

(***************************************************************************)
(* log_level_set of a tag: the one live slot of the tag's string is found  *)
(* and gets the level.                                                     *)
(***************************************************************************)
LEMMA SetTagCoherent ==
  ASSUME OneAddressPerTag, LevelsFitCache, CoherentInv, ~aborted,
         NEW name \in Names \ {Wildcard}, NEW level \in Levels,
         SetTagLevel(name, level)
  PROVE  CacheCoherent'
<1> SUFFICES ASSUME ~aborted', NEW i \in Live'
             PROVE  s_log_cache'[i].level = UncachedLevel(Text[s_log_cache[i].tag])'
  BY DEF CacheCoherent
<1> DEFINE found == CachedAs(name)
<1>1. /\ i \in Live /\ i \in Slots
      /\ s_log_cache[i] \in CacheEntry /\ s_log_cache[i].tag \in TagPointers
  BY LiveSlots
  DEF SetTagLevel, RefreshCache, Live, CoherentInv, BaseInv, TypeOK, LiveTagged
<1>2. OrderAssert(found)
  BY DEF SetTagLevel, RefreshCache
<1>3. s_log_cache'[i] = IF i \in FirstOf(found)
                        THEN [s_log_cache[i] EXCEPT !.level = level % LevelModulus]
                        ELSE s_log_cache[i]
  BY <1>1, <1>2 DEF SetTagLevel, RefreshCache
<1>4. s_log_cache'[i].tag = s_log_cache[i].tag
  BY <1>1, <1>3 DEF CacheEntry
<1>5. /\ UncachedLevel(name)' = level
      /\ \A other : other # name => UncachedLevel(other)' = UncachedLevel(other)
  BY RecordSetsLevel DEF CoherentInv, SetTagLevel
<1>6. level % LevelModulus = level
  <2>1. \A n, m \in Nat : n < m => n % m = n
    OBVIOUS
  <2> QED BY <2>1, LevelsAreIntegers, WidthAssumption DEF LevelsFitCache
<1>7. CASE Text[s_log_cache[i].tag] = name
  <2>1. i \in found
    BY <1>1, <1>7 DEF CachedAs
  <2>2. \A j \in found : j = i
    BY <1>1, <1>7 DEF CachedAs, OneAddressPerTag, CoherentInv, BaseInv,
                      LiveTagged, CachedOnce
  <2>3. i \in FirstOf(found)
    BY <1>1, <2>1, <2>2 DEF FirstOf, Slots
  <2>4. s_log_cache'[i].level = level
    BY <1>1, <1>3, <1>6, <2>3 DEF CacheEntry
  <2> QED BY <1>4, <1>5, <1>7, <2>4
<1>8. CASE Text[s_log_cache[i].tag] # name
  <2>1. s_log_cache'[i] = s_log_cache[i]
    BY <1>3, <1>8 DEF FirstOf, CachedAs
  <2> QED BY <1>1, <1>5, <1>8, <2>1 DEF CoherentInv, CacheCoherent
<1> QED BY <1>7, <1>8

(***************************************************************************)
(* A lookup leaves the list alone, keeps the level of every entry it moves *)
(* and adds one with the level the list gives.                             *)
(***************************************************************************)
LEMMA LookupCoherent ==
  ASSUME LevelsFitCache, CoherentInv, ~aborted,
         NEW p \in TagPointers, NEW level \in Levels,
         UNCHANGED registry, CacheHit(p, level) \/ CacheMiss(p, level)
  PROVE  CacheCoherent'
<1>1. \A name : UncachedLevel(name)' = UncachedLevel(name)
  BY DEF registry, UncachedLevel, Recorded, FirstRecord
<1>2. /\ BaseInv /\ TypeOK /\ Live \subseteq Slots /\ s_log_cache \in [Slots -> CacheEntry]
      /\ \A i \in Live : s_log_cache[i].level = UncachedLevel(Text[s_log_cache[i].tag])
  BY LiveSlots DEF CoherentInv, BaseInv, TypeOK, CacheCoherent
<1> DEFINE Fits(entry) == entry.level = UncachedLevel(Text[entry.tag])
<1>3. ASSUME CacheFull, Live' = Live, NEW index \in Slots, NEW entry \in CacheEntry,
             Fits(entry), PlaceNewest(index, entry)
      PROVE  \A i \in Live' : Fits(s_log_cache'[i])
  <2>1. PICK source \in [Slots -> Slots] :
          s_log_cache' =
            [i \in Slots |-> IF source[i] = index THEN entry ELSE s_log_cache[source[i]]]
    BY <1>2, <1>3, PlaceNewestPermutes
  <2>2. Live' = Slots
    BY <1>2, <1>3, LiveSlots
  <2>3. \A i \in Slots : s_log_cache'[i] = entry \/ \E j \in Live : s_log_cache'[i] = s_log_cache[j]
    BY <1>3, <2>1, <2>2
  <2> QED BY <1>2, <1>3, <2>2, <2>3
<1>4. \A i \in Live' : Fits(s_log_cache'[i])
  <2>1. CASE CacheHit(p, level)
    <3>1. PICK i \in FirstOf(CachedAt(p)) :
            /\ IF CacheFull
               THEN PlaceNewest(i, [s_log_cache[i] EXCEPT !.generation = NewGeneration])
               ELSE UNCHANGED s_log_cache
            /\ UNCHANGED s_log_cache_entry_count
      BY <2>1 DEF CacheHit
    <3>2. i \in Live /\ i \in Slots /\ s_log_cache[i] \in CacheEntry /\ Live' = Live
      BY <1>2, <3>1 DEF FirstOf, CachedAt, Live
    <3>3. CASE CacheFull
      <4> DEFINE entry == [s_log_cache[i] EXCEPT !.generation = NewGeneration]
      <4>1. entry \in CacheEntry /\ entry.level = s_log_cache[i].level
            /\ entry.tag = s_log_cache[i].tag
        BY <1>2, <3>2, CountersBase DEF CacheEntry
      <4>2. PlaceNewest(i, entry)
        BY <3>1, <3>3
      <4> HIDE DEF entry
      <4> QED BY <1>2, <1>3, <3>2, <3>3, <4>1, <4>2
    <3>4. CASE ~CacheFull
      BY <1>2, <3>1, <3>2, <3>4
    <3> QED BY <3>3, <3>4
  <2>2. CASE CacheMiss(p, level)
    <3> DEFINE stored == UncachedLevel(Text[p]) % LevelModulus
               entry == [tag |-> p, level |-> stored, generation |-> NewGeneration]
    <3>1. stored = UncachedLevel(Text[p])
      <4>1. \A n, m \in Nat : n < m => n % m = n
        OBVIOUS
      <4> QED BY <1>2, <4>1, UncachedLevelType, LevelsAreIntegers, WidthAssumption
              DEF LevelsFitCache
    <3>2. stored \in 0 .. LevelModulus - 1
      BY <1>2, UncachedLevelType, LevelsAreIntegers, FieldsFit
    <3>3. entry \in CacheEntry /\ Fits(entry)
      BY <1>2, <3>1, <3>2, CountersBase DEF CacheEntry
    <3>4. IF CacheFull
          THEN PlaceNewest(0, entry) /\ UNCHANGED s_log_cache_entry_count
          ELSE /\ s_log_cache' = [s_log_cache EXCEPT ![s_log_cache_entry_count] = entry]
               /\ s_log_cache_entry_count' = s_log_cache_entry_count + 1
      BY <2>2 DEF CacheMiss, AddToCache
    <3> HIDE DEF entry
    <3>5. CASE CacheFull
      <4>1. Live' = Live
        BY <3>4, <3>5 DEF Live
      <4> QED BY <1>3, <3>3, <3>4, <3>5, <4>1, TreeShape
    <3>6. CASE ~CacheFull
      <4> DEFINE n == s_log_cache_entry_count
      <4>1. n \in Slots /\ n \notin Live /\ Live' = Live \cup {n}
        BY <1>2, <3>4, <3>6, CacheSizeAssumption DEF TypeOK, CacheFull, Live, Slots
      <4>2. s_log_cache'[n] = entry /\ \A i \in Live : s_log_cache'[i] = s_log_cache[i]
        BY <1>2, <3>4, <3>6, <4>1
      <4> QED BY <1>2, <3>3, <4>1, <4>2
    <3> QED BY <3>5, <3>6
  <2> QED BY <2>1, <2>2
<1> QED BY <1>1, <1>4 DEF CacheCoherent

(***************************************************************************)
(* Every step keeps the cache in agreement with the list.                  *)
(***************************************************************************)
LEMMA NextCoherent ==
  ASSUME OneAddressPerTag, LevelsFitCache
  PROVE  CoherentInv /\ [Next]_vars => CoherentInv'
<1> SUFFICES ASSUME CoherentInv, [Next]_vars PROVE CacheCoherent'
  BY NextBase DEF CoherentInv
<1>1. ASSUME UNCHANGED <<registry, cacheVars>>, ~aborted' => ~aborted
      PROVE  CacheCoherent'
  BY <1>1 DEF CoherentInv, CacheCoherent, registry, cacheVars, Live,
              UncachedLevel, Recorded, FirstRecord
<1>2. ASSUME NEW p \in TagPointers, NEW level \in Levels, log_level_set(p, level)
      PROVE  CacheCoherent'
  <2>1. CASE SetDefaultLevel(level)
    <3>1. Live' = {}
      BY <2>1 DEF SetDefaultLevel, Live
    <3> QED BY <3>1 DEF CacheCoherent
  <2>2. CASE Text[p] # Wildcard /\ SetTagLevel(Text[p], level)
    BY <1>2, <2>2, SetTagCoherent DEF log_level_set, Names
  <2>3. CASE AllocationFails(Text[p])
    BY <1>1, <2>3 DEF AllocationFails
  <2> QED BY <1>2, <2>1, <2>2, <2>3 DEF log_level_set
<1>3. ASSUME NEW p \in TagPointers, NEW level \in Levels, is_tag_level_visible(level, p)
      PROVE  CacheCoherent'
  <2>1. CASE LockTimesOut(p, level)
    BY <1>1, <2>1 DEF LockTimesOut
  <2>2. CASE LookupAborts(p)
    BY <1>1, <2>2 DEF LookupAborts
  <2>3. CASE UNCHANGED registry /\ (CacheHit(p, level) \/ CacheMiss(p, level))
    BY <1>3, <2>3, LookupCoherent DEF is_tag_level_visible
  <2> QED BY <1>3, <2>1, <2>2, <2>3 DEF is_tag_level_visible
<1>4. CASE UNCHANGED vars
  BY <1>1, <1>4 DEF vars
<1> QED BY <1>2, <1>3, <1>4 DEF Next

(***************************************************************************)
(* When no two addresses hold the same tag and levels fit three bits, no   *)
(* cached level is ever stale, generations wrapping or not.                *)
(***************************************************************************)
THEOREM CacheStaysCoherent ==
  OneAddressPerTag /\ LevelsFitCache => (Spec => []CacheCoherent)
<1> SUFFICES ASSUME OneAddressPerTag, LevelsFitCache PROVE Spec => []CacheCoherent
  OBVIOUS
<1>1. Init => CoherentInv
  BY InitBase DEF Init, CoherentInv, CacheCoherent, Live
<1>2. CoherentInv => CacheCoherent
  BY DEF CoherentInv
<1> QED BY <1>1, <1>2, NextCoherent, PTL DEF Spec

-----------------------------------------------------------------------------
(* The answers. *)

(***************************************************************************)
(* A lookup that gets the lock answers from the level in force; a change   *)
(* of the levels forgets the answer, and no other step touches either.     *)
(***************************************************************************)
LEMMA NextAnswers ==
  ASSUME OneAddressPerTag, LevelsFitCache, ~MayTimeOut
  PROVE  CoherentInv /\ AnswersCurrentLevel /\ [Next]_vars => AnswersCurrentLevel'
<1> SUFFICES ASSUME CoherentInv, AnswersCurrentLevel, [Next]_vars
             PROVE  AnswersCurrentLevel'
  OBVIOUS
<1>1. ASSUME UNCHANGED registry
      PROVE  \A name : UncachedLevel(name)' = UncachedLevel(name)
  BY <1>1 DEF registry, UncachedLevel, Recorded, FirstRecord
<1>2. ASSUME UNCHANGED <<registry, reply>>
      PROVE  AnswersCurrentLevel'
  BY <1>1, <1>2 DEF AnswersCurrentLevel, NoReply
<1>3. ASSUME NEW p \in TagPointers, NEW level \in Levels, log_level_set(p, level)
      PROVE  AnswersCurrentLevel'
  BY <1>3 DEF log_level_set, AnswersCurrentLevel, NoReply
<1>4. ASSUME NEW p \in TagPointers, NEW level \in Levels, is_tag_level_visible(level, p)
      PROVE  AnswersCurrentLevel'
  <2>1. ~LockTimesOut(p, level)
    BY DEF LockTimesOut
  <2>2. CASE LookupAborts(p)
    BY <1>2, <2>2 DEF LookupAborts
  <2>3. ASSUME UNCHANGED registry, Answer(p, level, UncachedLevel(Text[p]))
        PROVE  AnswersCurrentLevel'
    BY <1>1, <2>3 DEF Answer, AnswersCurrentLevel
  <2>4. CASE UNCHANGED registry /\ CacheHit(p, level)
    <3>1. PICK i \in FirstOf(CachedAt(p)) : Answer(p, level, s_log_cache[i].level)
      BY <2>4 DEF CacheHit
    <3>2. i \in Live /\ s_log_cache[i].tag = p
      BY DEF FirstOf, CachedAt
    <3> QED BY <1>4, <2>3, <2>4, <3>1, <3>2
            DEF is_tag_level_visible, CoherentInv, CacheCoherent
  <2>5. CASE UNCHANGED registry /\ CacheMiss(p, level)
    BY <2>3, <2>5 DEF CacheMiss
  <2> QED BY <1>4, <2>1, <2>2, <2>4, <2>5 DEF is_tag_level_visible
<1>5. CASE UNCHANGED vars
  BY <1>2, <1>5 DEF vars
<1> QED BY <1>3, <1>4, <1>5 DEF Next

(***************************************************************************)
(* With one address per tag, levels of three bits and a lock that is       *)
(* always taken, every answer of is_tag_level_visible is the one the       *)
(* levels in force give, wrapped generations and all.  A second address    *)
(* with the same text breaks it.                                           *)
(***************************************************************************)
THEOREM AnswersAreCurrent ==
  OneAddressPerTag /\ LevelsFitCache /\ ~MayTimeOut => (Spec => []AnswersCurrentLevel)
<1> SUFFICES ASSUME OneAddressPerTag, LevelsFitCache, ~MayTimeOut
             PROVE  Spec => []AnswersCurrentLevel
  OBVIOUS
<1>1. Init => CoherentInv /\ AnswersCurrentLevel
  BY InitBase DEF Init, CoherentInv, CacheCoherent, Live, AnswersCurrentLevel
<1> QED BY <1>1, NextCoherent, NextAnswers, PTL DEF Spec

-----------------------------------------------------------------------------
(* The list and the cache implement the plain registry. *)

(***************************************************************************)
(* The override of a tag is the level the list holds for it.               *)
(***************************************************************************)
LEMMA EffectiveIsUncached ==
  ASSUME NEW name \in Names
  PROVE  Registry!Effective(name) = UncachedLevel(name)
  BY DEF Registry!Effective, Override, UncachedLevel

(***************************************************************************)
(* Recording a level in the list is SetOne of the registry.                *)
(***************************************************************************)
LEMMA SetOneMapped ==
  ASSUME BaseInv, NEW name \in Names \ {Wildcard}, NEW level \in Levels,
         RecordLevel(name, level), reply' = NoReply
  PROVE  Registry!SetOne(name, level)
<1>1. s_log_tags \in Seq(TagEntry) /\ TagsDistinct
  BY DEF BaseInv, TypeOK
<1>2. Entries(s_log_tags')
        = {e \in Entries(s_log_tags) : e.tag # name} \cup {[tag |-> name, level |-> level]}
  BY RecordedEntries
<1>3. \A n : Recorded(n)' <=> Recorded(n) \/ n = name
  <2>1. \A n : Recorded(n) <=> \E e \in Entries(s_log_tags) : e.tag = n
    BY DEF Recorded, Entries
  <2>2. \A n : Recorded(n)' <=> \E e \in Entries(s_log_tags') : e.tag = n
    BY DEF Recorded, Entries
  <2>3. [tag |-> name, level |-> level].tag = name
    OBVIOUS
  <2>4. \A n : (\E e \in Entries(s_log_tags') : e.tag = n)
                 <=> (\E e \in Entries(s_log_tags) : e.tag = n) \/ n = name
    BY <1>2, <2>3
  <2> QED BY <2>1, <2>2, <2>4
<1>4. /\ UncachedLevel(name)' = level
      /\ \A n : n # name => UncachedLevel(n)' = UncachedLevel(n)
  BY RecordSetsLevel
<1>5. /\ Override = [n \in {m \in Names : Recorded(m)} |-> UncachedLevel(n)]
      /\ Override' = [n \in {m \in Names : Recorded(m)'} |-> UncachedLevel(n)']
  BY DEF Override, UncachedLevel
<1>6. Override' = [n \in DOMAIN Override \cup {name} |->
                     IF n = name THEN level ELSE Override[n]]
  BY <1>3, <1>4, <1>5
<1> QED BY <1>6 DEF Registry!SetOne, RecordLevel, NoReply

(***************************************************************************)
(* Every step of the list and cache is a step of the registry, or changes  *)
(* nothing a caller can see.                                               *)
(***************************************************************************)
LEMMA NextMapped ==
  ASSUME OneAddressPerTag, LevelsFitCache, CoherentInv, Next
  PROVE  Registry!Next \/ UNCHANGED <<s_log_default_level, Override, reply>>
<1>1. ASSUME UNCHANGED registry
      PROVE  UNCHANGED <<s_log_default_level, Override>>
  BY <1>1 DEF registry, Override, Recorded, FirstRecord
<1>2. ASSUME NEW p \in TagPointers, NEW level \in Levels, log_level_set(p, level)
      PROVE  Registry!Set(p, level)
  <2>1. CASE Text[p] = Wildcard
    <3>1. SetDefaultLevel(level) /\ reply' = NoReply
      BY <1>2, <2>1 DEF log_level_set
    <3>2. Override' = [name \in {} |-> level]
      BY <3>1 DEF SetDefaultLevel, Override, Recorded
    <3> QED BY <2>1, <3>1, <3>2
            DEF Registry!Set, Registry!SetAll, SetDefaultLevel, NoReply
  <2>2. CASE Text[p] # Wildcard /\ SetTagLevel(Text[p], level)
    BY <1>2, <2>2, SetOneMapped
    DEF log_level_set, SetTagLevel, Registry!Set, CoherentInv, Names
  <2>3. CASE Text[p] # Wildcard /\ AllocationFails(Text[p])
    <3>1. Text[p] \notin DOMAIN Override
      BY <2>3 DEF AllocationFails, Override
    <3> QED BY <1>1, <1>2, <2>3, <3>1
            DEF log_level_set, AllocationFails, Registry!Set, Registry!SetNothing, NoReply
  <2> QED BY <1>2, <2>1, <2>2, <2>3 DEF log_level_set
<1>3. ASSUME NEW p \in TagPointers, NEW level \in Levels, is_tag_level_visible(level, p)
      PROVE  \/ Registry!Ask(p, level) \/ Registry!Refuse(p, level)
             \/ UNCHANGED <<s_log_default_level, Override, reply>>
  <2>1. CASE LockTimesOut(p, level)
    BY <1>1, <2>1 DEF LockTimesOut, Registry!Refuse
  <2>2. CASE LookupAborts(p)
    BY <1>1, <2>2 DEF LookupAborts
  <2>3. CASE UNCHANGED registry /\ (CacheHit(p, level) \/ CacheMiss(p, level))
    <3>1. Registry!Effective(Text[p]) = UncachedLevel(Text[p])
      BY EffectiveIsUncached DEF Names
    <3>2. Answer(p, level, UncachedLevel(Text[p]))
      <4>1. CASE CacheHit(p, level)
        <5>1. PICK i \in FirstOf(CachedAt(p)) : Answer(p, level, s_log_cache[i].level)
          BY <4>1 DEF CacheHit
        <5>2. i \in Live /\ s_log_cache[i].tag = p
          BY DEF FirstOf, CachedAt
        <5> QED BY <1>3, <5>1, <5>2
                DEF is_tag_level_visible, CoherentInv, CacheCoherent
      <4>2. CASE CacheMiss(p, level)
        BY <4>2 DEF CacheMiss
      <4> QED BY <2>3, <4>1, <4>2
    <3> QED BY <1>1, <2>3, <3>1, <3>2 DEF Registry!Ask, Answer
  <2> QED BY <1>3, <2>1, <2>2, <2>3 DEF is_tag_level_visible
<1> QED BY <1>2, <1>3 DEF Next, Registry!Next

(***************************************************************************)
(* The cache cannot be seen: under the same conditions the list and the    *)
(* cache together behave like the plain registry of levels by tag string.  *)
(***************************************************************************)
THEOREM RegistryImplemented ==
  OneAddressPerTag /\ LevelsFitCache => (Spec => ImplementsRegistry)
<1> SUFFICES ASSUME OneAddressPerTag, LevelsFitCache PROVE Spec => ImplementsRegistry
  OBVIOUS
<1>1. Init => CoherentInv
  BY InitBase DEF Init, CoherentInv, CacheCoherent, Live
<1>2. Init => Registry!Init
  BY DEF Init, Registry!Init, Override, Recorded, NoReply
<1>3. CoherentInv /\ [Next]_vars
        => [Registry!Next]_<<s_log_default_level, Override, reply>>
  <2>1. CASE UNCHANGED vars
    BY <2>1 DEF vars, registry, Override, Recorded, FirstRecord
  <2> QED BY <2>1, NextMapped
<1> QED BY <1>1, <1>2, <1>3, NextCoherent, PTL
        DEF Spec, ImplementsRegistry, Registry!Spec

-----------------------------------------------------------------------------
(* The cache implements the replacement by age. *)

LiveEntries == {s_log_cache[i] : i \in Live}
TagsOf(entries) == {e.tag : e \in entries}

(***************************************************************************)
(* What the refinement mapping says of the live entries: their tags, and   *)
(* the pairs of tags in the order of the generations.                      *)
(***************************************************************************)
EntriesMapped ==
  /\ CachedTags = TagsOf(LiveEntries)
  /\ \A x : x \in OlderTags <=>
       \E e, f \in LiveEntries : x = <<e.tag, f.tag>> /\ e.generation < f.generation

(***************************************************************************)
(* The refinement mapping speaks of entries, not of the slots they are in. *)
(***************************************************************************)
LEMMA MappingOfEntries == EntriesMapped
<1>1. CachedTags = TagsOf(LiveEntries)
  BY DEF CachedTags, TagsOf, LiveEntries
<1>2. ASSUME NEW x, x \in OlderTags
      PROVE  \E e, f \in LiveEntries : x = <<e.tag, f.tag>> /\ e.generation < f.generation
  <2>1. PICK i \in Live, j \in Live :
          /\ x = <<s_log_cache[i].tag, s_log_cache[j].tag>>
          /\ s_log_cache[i].generation < s_log_cache[j].generation
    BY <1>2 DEF OlderTags
  <2> QED BY <2>1 DEF LiveEntries
<1>3. ASSUME NEW i \in Live, NEW j \in Live,
             s_log_cache[i].generation < s_log_cache[j].generation
      PROVE  <<s_log_cache[i].tag, s_log_cache[j].tag>> \in OlderTags
  <2>1. <<i, j>> \in Live \X Live
    OBVIOUS
  <2> QED BY <1>3, <2>1 DEF OlderTags
<1>4. ASSUME NEW e \in LiveEntries, NEW f \in LiveEntries, e.generation < f.generation
      PROVE  <<e.tag, f.tag>> \in OlderTags
  BY <1>3, <1>4 DEF LiveEntries
<1> QED BY <1>1, <1>2, <1>4 DEF EntriesMapped

(***************************************************************************)
(* When the live entries are the kept ones and one that is younger than    *)
(* all of these, the order of the tags is the one RecencyCache asks for.   *)
(***************************************************************************)
LEMMA YoungestMapped ==
  ASSUME NEW kept \in SUBSET LiveEntries, NEW entry,
         LiveEntries' = kept \cup {entry},
         \A e, f \in LiveEntries : e.tag = f.tag => e = f,
         entry.generation \in Int,
         \A e \in kept : e.generation \in Int /\ e.generation < entry.generation
  PROVE  /\ CachedTags' = TagsOf(kept) \cup {entry.tag}
         /\ OlderTags' = Recency!WithYoungest(TagsOf(kept), entry.tag)
<1>1. EntriesMapped /\ EntriesMapped'
  BY MappingOfEntries, PTL
<1>2. CachedTags' = TagsOf(kept) \cup {entry.tag}
  BY <1>1 DEF EntriesMapped, TagsOf
<1>3. ASSUME NEW x, x \in OlderTags'
      PROVE  x \in Recency!WithYoungest(TagsOf(kept), entry.tag)
  <2>1. PICK e \in kept \cup {entry}, f \in kept \cup {entry} :
          x = <<e.tag, f.tag>> /\ e.generation < f.generation
    BY <1>1, <1>3 DEF EntriesMapped
  <2>2. e \in kept
    BY <2>1
  <2>3. CASE f \in kept
    <3>1. x \in OlderTags
      BY <1>1, <2>1, <2>2, <2>3 DEF EntriesMapped
    <3>2. x \in TagsOf(kept) \X TagsOf(kept)
      BY <2>1, <2>2, <2>3 DEF TagsOf
    <3> QED BY <3>1, <3>2 DEF Recency!WithYoungest
  <2>4. CASE f = entry
    BY <2>1, <2>2, <2>4 DEF Recency!WithYoungest, TagsOf
  <2> QED BY <2>3, <2>4
<1>4. ASSUME NEW x, x \in Recency!WithYoungest(TagsOf(kept), entry.tag)
      PROVE  x \in OlderTags'
  <2>1. CASE x \in OlderTags /\ x \in TagsOf(kept) \X TagsOf(kept)
    <3>1. PICK e \in LiveEntries, f \in LiveEntries :
            x = <<e.tag, f.tag>> /\ e.generation < f.generation
      BY <1>1, <2>1 DEF EntriesMapped
    <3>2. PICK g \in kept, h \in kept : x = <<g.tag, h.tag>>
      BY <2>1 DEF TagsOf
    <3>3. e = g /\ f = h
      BY <3>1, <3>2
    <3> QED BY <1>1, <3>1, <3>2, <3>3 DEF EntriesMapped
  <2>2. CASE x \in TagsOf(kept) \X {entry.tag}
    <3>1. PICK g \in kept : x = <<g.tag, entry.tag>>
      BY <2>2 DEF TagsOf
    <3> QED BY <1>1, <3>1 DEF EntriesMapped
  <2> QED BY <1>4, <2>1, <2>2 DEF Recency!WithYoungest
<1> QED BY <1>2, <1>3, <1>4

(***************************************************************************)
(* No two live slots hold one tag, so the cached tags count the live slots *)
(* and the cache is full when RecencyCache says so.                        *)
(***************************************************************************)
LEMMA FullMapped ==
  ASSUME BaseInv
  PROVE  Recency!Full <=> CacheFull
<1> DEFINE tagOf == [i \in Live |-> s_log_cache[i].tag]
           n == s_log_cache_entry_count
<1>1. n \in Nat
  BY CacheSizeAssumption DEF BaseInv, TypeOK
<1>2. IsFiniteSet(Live) /\ Cardinality(Live) = n
  BY <1>1, FS_Interval DEF Live
<1>3. tagOf \in Surjection(Live, CachedTags)
  BY DEF Surjection, CachedTags
<1>4. tagOf \in Injection(Live, CachedTags)
  BY DEF Injection, IsInjective, CachedTags, BaseInv, CachedOnce
<1> HIDE DEF tagOf
<1>5. Cardinality(CachedTags) = n
  BY <1>2, <1>3, <1>4, FS_Surjection
<1>6. Recency!Cardinality(CachedTags) = Cardinality(CachedTags)
  BY DEF Recency!Cardinality, Cardinality
<1> QED BY <1>5, <1>6 DEF Recency!Full, CacheFull

(***************************************************************************)
(* Placing a new entry at a slot of the full heap keeps all entries but    *)
(* the one that was there, wherever the bubbling moves them.               *)
(***************************************************************************)
LEMMA PlaceNewestEntries ==
  ASSUME BaseInv, CacheFull, NEW index \in Slots, NEW entry \in CacheEntry,
         PlaceNewest(index, entry), UNCHANGED s_log_cache_entry_count
  PROVE  LiveEntries' = (LiveEntries \ {s_log_cache[index]}) \cup {entry}
<1>1. TypeOK /\ Live = Slots /\ Live' = Slots
  BY LiveSlots DEF BaseInv, Live
<1>2. PICK source \in [Slots -> Slots] :
        /\ \A i, j \in Slots : source[i] = source[j] => i = j
        /\ s_log_cache' =
             [i \in Slots |-> IF source[i] = index THEN entry
                                                   ELSE s_log_cache[source[i]]]
  BY <1>1, PlaceNewestPermutes
<1>3. \A j \in Slots : \E i \in Slots : source[i] = j
  <2>1. IsFiniteSet(Slots)
    BY CacheSizeAssumption, FS_Interval DEF Slots
  <2>2. source \in Injection(Slots, Slots)
    BY <1>2 DEF Injection, IsInjective
  <2>3. source \in Surjection(Slots, Slots)
    BY <2>1, <2>2, FS_Injection
  <2> QED BY <2>3 DEF Surjection
<1>4. \A i \in Slots \ {index} : s_log_cache[i] # s_log_cache[index]
  BY <1>1 DEF BaseInv, CachedOnce
<1>5. \A i \in Slots : s_log_cache'[i] \in (LiveEntries \ {s_log_cache[index]}) \cup {entry}
  BY <1>1, <1>2, <1>4 DEF LiveEntries
<1>6. ASSUME NEW j \in Slots, j # index
      PROVE  \E i \in Slots : s_log_cache'[i] = s_log_cache[j]
  BY <1>2, <1>3, <1>6
<1>7. \E i \in Slots : s_log_cache'[i] = entry
  BY <1>2, <1>3
<1> QED BY <1>1, <1>5, <1>6, <1>7 DEF LiveEntries

(***************************************************************************)
(* A renewal or a replacement, in the terms of RecencyCache: the tag of    *)
(* the slot goes and the one of the entry becomes the youngest.            *)
(***************************************************************************)
LEMMA PlaceNewestMapped ==
  ASSUME HeapInv, CacheFull, NEW index \in Slots, NEW entry \in CacheEntry,
         entry.generation = s_log_cache_max_generation,
         PlaceNewest(index, entry), UNCHANGED s_log_cache_entry_count
  PROVE  LET others == CachedTags \ {s_log_cache[index].tag}
         IN  /\ CachedTags' = others \cup {entry.tag}
             /\ OlderTags' = Recency!WithYoungest(others, entry.tag)
<1> DEFINE kept == LiveEntries \ {s_log_cache[index]}
<1>1. BaseInv /\ TypeOK /\ Live = Slots /\ s_log_cache \in [Slots -> CacheEntry]
  BY LiveSlots DEF HeapInv, BaseInv, TypeOK
<1>2. LiveEntries' = kept \cup {entry}
  BY <1>1, PlaceNewestEntries
<1>3. \A e, f \in LiveEntries : e.tag = f.tag => e = f
  BY <1>1 DEF LiveEntries, BaseInv, CachedOnce
<1>4. \A e \in LiveEntries : e.generation \in Int /\ e.generation < entry.generation
  <2>1. \A i \in Slots : s_log_cache[i].generation \in Int
    BY <1>1 DEF CacheEntry
  <2> QED BY <1>1, <2>1 DEF LiveEntries, HeapInv, LiveBelowMax
<1>5. s_log_cache[index] \in LiveEntries /\ entry.generation \in Int
  BY <1>1 DEF LiveEntries, CacheEntry
<1>6. TagsOf(kept) = CachedTags \ {s_log_cache[index].tag}
  <2>1. CachedTags = TagsOf(LiveEntries)
    BY MappingOfEntries DEF EntriesMapped
  <2> QED BY <1>3, <1>5, <2>1 DEF TagsOf
<1> HIDE DEF kept
<1>7. kept \in SUBSET LiveEntries
  BY DEF kept
<1>8. /\ CachedTags' = TagsOf(kept) \cup {entry.tag}
      /\ OlderTags' = Recency!WithYoungest(TagsOf(kept), entry.tag)
  BY <1>2, <1>3, <1>4, <1>5, <1>7, YoungestMapped
<1> QED BY <1>6, <1>8

(***************************************************************************)
(* A hit renews the tag in a full cache and changes nothing in another.    *)
(***************************************************************************)
LEMMA CacheHitMapped ==
  ASSUME GenerationsFit, HeapInv, NEW p \in TagPointers, NEW level, CacheHit(p, level)
  PROVE  Recency!Renew(p) \/ UNCHANGED <<CachedTags, OlderTags>>
<1>1. PICK i \in FirstOf(CachedAt(p)) :
        /\ IF CacheFull
           THEN /\ PlaceNewest(i, [s_log_cache[i] EXCEPT !.generation = NewGeneration])
                /\ TakeGeneration
           ELSE UNCHANGED <<s_log_cache, s_log_cache_max_generation>>
        /\ UNCHANGED s_log_cache_entry_count
  BY DEF CacheHit
<1>2. /\ BaseInv /\ TypeOK /\ i \in Live /\ i \in Slots
      /\ s_log_cache[i] \in CacheEntry /\ s_log_cache[i].tag = p
  BY <1>1, LiveSlots DEF FirstOf, CachedAt, HeapInv, BaseInv, TypeOK
<1>3. CASE CacheFull
  <2> DEFINE entry == [s_log_cache[i] EXCEPT !.generation = NewGeneration]
  <2>1. PlaceNewest(i, entry) /\ TakeGeneration
    BY <1>1, <1>3
  <2>2. /\ entry \in CacheEntry /\ entry.generation = s_log_cache_max_generation
        /\ entry.tag = p
    BY <1>2, <2>1, CountersBase, GenerationUncut DEF CacheEntry
  <2> HIDE DEF entry
  <2>3. /\ CachedTags' = (CachedTags \ {p}) \cup {p}
        /\ OlderTags' = Recency!WithYoungest(CachedTags \ {p}, p)
    BY <1>1, <1>2, <1>3, <2>1, <2>2, PlaceNewestMapped
  <2>4. p \in CachedTags
    BY <1>2 DEF CachedTags
  <2> QED BY <1>2, <1>3, <2>3, <2>4, FullMapped DEF Recency!Renew
<1>4. CASE ~CacheFull
  BY <1>1, <1>4 DEF CachedTags, OlderTags, Live
<1> QED BY <1>3, <1>4

(***************************************************************************)
(* A miss fills a slot while there is one; then it gives the tag the place *)
(* of the oldest, which RootOldest finds in slot 0.                        *)
(***************************************************************************)
LEMMA CacheMissMapped ==
  ASSUME GenerationsFit, HeapInv, NEW p \in TagPointers, NEW level, CacheMiss(p, level)
  PROVE  Recency!Fill(p) \/ Recency!Replace(p)
<1> DEFINE stored == UncachedLevel(Text[p]) % LevelModulus
           entry == [tag |-> p, level |-> stored, generation |-> NewGeneration]
<1>1. /\ TakeGeneration
      /\ IF CacheFull
         THEN PlaceNewest(0, entry) /\ UNCHANGED s_log_cache_entry_count
         ELSE /\ s_log_cache' = [s_log_cache EXCEPT ![s_log_cache_entry_count] = entry]
              /\ s_log_cache_entry_count' = s_log_cache_entry_count + 1
  BY DEF CacheMiss, AddToCache
<1>2. /\ BaseInv /\ TypeOK /\ s_log_cache \in [Slots -> CacheEntry]
      /\ \A i \in Slots : s_log_cache[i].generation \in Int
      /\ s_log_cache_max_generation \in Nat
  BY WidthAssumption DEF HeapInv, BaseInv, TypeOK, CacheEntry
<1>3. /\ entry \in CacheEntry /\ entry.tag = p
      /\ entry.generation = s_log_cache_max_generation
  <2>1. stored \in 0 .. LevelModulus - 1
    BY <1>2, UncachedLevelType, LevelsAreIntegers, FieldsFit
  <2> QED BY <1>1, <1>2, <2>1, CountersBase, GenerationUncut DEF CacheEntry
<1> HIDE DEF entry
<1>4. p \notin CachedTags
  BY DEF CacheMiss, CachedAt, CachedTags
<1>5. CASE CacheFull
  <2> DEFINE victim == s_log_cache[0].tag
  <2>1. 0 \in Slots /\ Live = Slots
    BY <1>2, <1>5, LiveSlots, TreeShape
  <2>2. /\ CachedTags' = (CachedTags \ {victim}) \cup {p}
        /\ OlderTags' = Recency!WithYoungest(CachedTags \ {victim}, p)
    BY <1>1, <1>3, <1>5, <2>1, PlaceNewestMapped
  <2>3. victim \in CachedTags
    BY <2>1 DEF CachedTags
  <2>4. ASSUME NEW other \in CachedTags \ {victim}
        PROVE  <<victim, other>> \in OlderTags
    <3>1. PICK i \in Live : other = s_log_cache[i].tag
      BY DEF CachedTags
    <3>2. s_log_cache[0].generation < s_log_cache[i].generation
      BY <2>4, <3>1, RootOldest DEF HeapOrdered
    <3>3. s_log_cache[0] \in LiveEntries /\ s_log_cache[i] \in LiveEntries
      BY <2>1 DEF LiveEntries
    <3> QED BY <3>1, <3>2, <3>3, MappingOfEntries DEF EntriesMapped
  <2> HIDE DEF victim
  <2> QED BY <1>2, <1>4, <1>5, <2>2, <2>3, <2>4, FullMapped DEF Recency!Replace
<1>6. CASE ~CacheFull
  <2> DEFINE n == s_log_cache_entry_count
  <2>1. n \in Slots /\ n \notin Live /\ Live' = Live \cup {n} /\ Live \subseteq Slots
    BY <1>1, <1>2, <1>6, CacheSizeAssumption, LiveSlots
    DEF TypeOK, CacheFull, Live, Slots
  <2>2. s_log_cache'[n] = entry /\ \A i \in Live : s_log_cache'[i] = s_log_cache[i]
    BY <1>1, <1>2, <1>6, <2>1
  <2>3. LiveEntries' = LiveEntries \cup {entry}
    BY <2>1, <2>2 DEF LiveEntries
  <2>4. \A e, f \in LiveEntries : e.tag = f.tag => e = f
    BY <1>2 DEF LiveEntries, BaseInv, CachedOnce
  <2>5. \A e \in LiveEntries : e.generation \in Int /\ e.generation < entry.generation
    BY <1>2, <1>3, <2>1 DEF LiveEntries, HeapInv, LiveBelowMax
  <2>6. CachedTags = TagsOf(LiveEntries)
    BY MappingOfEntries DEF EntriesMapped
  <2>7. /\ CachedTags' = TagsOf(LiveEntries) \cup {entry.tag}
        /\ OlderTags' = Recency!WithYoungest(TagsOf(LiveEntries), entry.tag)
    BY <1>2, <1>3, <2>3, <2>4, <2>5, YoungestMapped
  <2> QED BY <1>2, <1>3, <1>4, <1>6, <2>6, <2>7, FullMapped DEF Recency!Fill
<1> QED BY <1>5, <1>6

(***************************************************************************)
(* Every step of the cache is a step of RecencyCache or shows nothing of   *)
(* it.                                                                     *)
(***************************************************************************)
LEMMA NextRecency ==
  ASSUME GenerationsFit, HeapInv, [Next]_vars
  PROVE  Recency!Next \/ UNCHANGED <<CachedTags, OlderTags>>
<1>1. ASSUME UNCHANGED <<s_log_cache, s_log_cache_entry_count>>
      PROVE  UNCHANGED <<CachedTags, OlderTags>>
  BY <1>1 DEF CachedTags, OlderTags, Live
<1>2. ASSUME NEW p \in TagPointers, NEW level \in Levels, log_level_set(p, level)
      PROVE  Recency!Clear \/ UNCHANGED <<CachedTags, OlderTags>>
  <2>1. CASE SetDefaultLevel(level)
    <3>1. Live' = {}
      BY <2>1 DEF SetDefaultLevel, Live
    <3> QED BY <3>1 DEF CachedTags, OlderTags, Recency!Clear
  <2>2. CASE SetTagLevel(Text[p], level)
    <3>1. Live' = Live /\ Live \subseteq Slots
      BY <2>2, LiveSlots DEF SetTagLevel, RefreshCache, Live, HeapInv, BaseInv
    <3>2. \A i \in Slots : /\ s_log_cache'[i].generation = s_log_cache[i].generation
                           /\ s_log_cache'[i].tag = s_log_cache[i].tag
      <4>1. \A i \in Slots : s_log_cache[i] \in CacheEntry
        BY DEF HeapInv, BaseInv, TypeOK
      <4>2. \A i \in Slots :
              LET set == [s_log_cache[i] EXCEPT !.level = level % LevelModulus]
              IN  set.generation = s_log_cache[i].generation /\ set.tag = s_log_cache[i].tag
        BY <4>1 DEF CacheEntry
      <4> QED BY <2>2, <4>2 DEF SetTagLevel, RefreshCache
    <3> QED BY <3>1, <3>2 DEF CachedTags, OlderTags
  <2>3. CASE AllocationFails(Text[p])
    BY <1>1, <2>3 DEF AllocationFails, cacheVars
  <2> QED BY <1>2, <2>1, <2>2, <2>3 DEF log_level_set
<1>3. ASSUME NEW p \in TagPointers, NEW level \in Levels, is_tag_level_visible(level, p)
      PROVE  \/ Recency!Fill(p) \/ Recency!Renew(p) \/ Recency!Replace(p)
             \/ UNCHANGED <<CachedTags, OlderTags>>
  <2>1. CASE LockTimesOut(p, level)
    BY <1>1, <2>1 DEF LockTimesOut, cacheVars
  <2>2. CASE LookupAborts(p)
    BY <1>1, <2>2 DEF LookupAborts, cacheVars
  <2>3. CASE CacheHit(p, level)
    BY <2>3, CacheHitMapped
  <2>4. CASE CacheMiss(p, level)
    BY <2>4, CacheMissMapped
  <2> QED BY <1>3, <2>1, <2>2, <2>3, <2>4 DEF is_tag_level_visible
<1>4. CASE UNCHANGED vars
  BY <1>1, <1>4 DEF vars, cacheVars
<1> QED BY <1>2, <1>3, <1>4 DEF Next, Recency!Next

(***************************************************************************)
(* While the generation field does not wrap, the heap in the array is the  *)
(* cache of RecencyCache: it holds the tags a list in order of age would,  *)
(* and gives up the oldest one.                                            *)
(***************************************************************************)
THEOREM RecencyImplemented == GenerationsFit => (Spec => ImplementsRecency)
<1> SUFFICES ASSUME GenerationsFit PROVE Spec => ImplementsRecency
  OBVIOUS
<1>1. Init => Recency!Init
  BY DEF Init, Recency!Init, CachedTags, OlderTags, Live
<1>2. HeapInv /\ [Next]_vars => [Recency!Next]_<<CachedTags, OlderTags>>
  BY NextRecency
<1> QED BY <1>1, <1>2, InitHeap, NextHeap, PTL
        DEF Spec, ImplementsRecency, Recency!Spec
=============================================================================
