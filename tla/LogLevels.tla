------------------------------ MODULE LogLevels ------------------------------
(***************************************************************************)
(* The level registry and the tag cache of lib/logger/src/log.c.           *)
(*                                                                         *)
(* log_level_set records a level per tag string in the list s_log_tags;    *)
(* is_tag_level_visible answers from a cache keyed by the ADDRESS of the   *)
(* tag, a binary min-heap ordered by generation, and fills it from the     *)
(* list on a miss.  Each operation is one step: the code runs it between   *)
(* log_impl_lock and log_impl_unlock.                                      *)
(***************************************************************************)
EXTENDS Integers, Sequences, FiniteSets

CONSTANTS
  TagPointers,         \* the addresses callers pass as `const char *tag`
  Text,                \* Text[p]: the string stored at address p, never changed
  Wildcard,            \* the string "*"
  NULL,                \* the address in a slot of the zero-initialised array
  Levels,              \* the uint8_t levels callers pass
  DEFAULT_LOG_LEVEL,
  CONFIG_LOG_TAG_CACHE_SIZE,
  LevelModulus,        \* 2^3 in the code: cached_tag_entry_t.level
  GenerationModulus,   \* 2^29 in the code: cached_tag_entry_t.generation
  CounterModulus,      \* 2^32 in the code: the uint32_t counters
  MaxGeneration,       \* exploration bound on s_log_cache_max_generation
  MayTimeOut           \* the port's log_impl_lock_timeout can return false

(***************************************************************************)
(* log_config.h asks for a cache of 2^n - 1 entries; an odd number is what *)
(* heap_bubble_down needs (every inner node has two children).             *)
(***************************************************************************)
ASSUME CacheSizeAssumption ==
  CONFIG_LOG_TAG_CACHE_SIZE \in Nat /\ CONFIG_LOG_TAG_CACHE_SIZE % 2 = 1

ASSUME TagAssumption ==
  /\ NULL \notin TagPointers
  /\ Text = [p \in TagPointers |-> Text[p]]

ASSUME LevelAssumption ==
  /\ Levels \subseteq 0 .. 255
  /\ DEFAULT_LOG_LEVEL \in Levels

ASSUME WidthAssumption ==
  /\ LevelModulus \in Nat \ {0}
  /\ GenerationModulus \in Nat \ {0}
  /\ CounterModulus \in Nat \ {0}
  /\ MaxGeneration \in Nat
  /\ MayTimeOut \in BOOLEAN

VARIABLES
  s_log_default_level,
  s_log_tags,                  \* the SLIST, head first, of [tag, level]
  s_log_cache,                 \* slot -> [tag, level, generation]
  s_log_cache_max_generation,
  s_log_cache_entry_count,
  s_log_cache_misses,
  reply,                       \* the last call's answer (its return value)
  aborted                      \* an assert failed: the program is gone

registry == <<s_log_default_level, s_log_tags>>
cacheVars == <<s_log_cache, s_log_cache_max_generation,
               s_log_cache_entry_count, s_log_cache_misses>>
vars == <<registry, cacheVars, reply, aborted>>

Names == {Text[p] : p \in TagPointers}
Slots == 0 .. CONFIG_LOG_TAG_CACHE_SIZE - 1
TagEntry == [tag : Names \ {Wildcard}, level : Levels]
CacheEntry == [tag : TagPointers \cup {NULL},
               level : 0 .. LevelModulus - 1,
               generation : 0 .. GenerationModulus - 1]
NoReply == [tag |-> NULL]
Replies == {NoReply} \cup
           [tag : TagPointers, level : Levels, visible : BOOLEAN]

TypeOK ==
  /\ s_log_default_level \in Levels
  /\ s_log_tags \in Seq(TagEntry)
  /\ s_log_cache \in [Slots -> CacheEntry]
  /\ s_log_cache_max_generation \in 0 .. CounterModulus - 1
  /\ s_log_cache_entry_count \in 0 .. CONFIG_LOG_TAG_CACHE_SIZE
  /\ s_log_cache_misses \in 0 .. CounterModulus - 1
  /\ reply \in Replies
  /\ aborted \in BOOLEAN

Init ==
  /\ s_log_default_level = DEFAULT_LOG_LEVEL
  /\ s_log_tags = << >>
  /\ s_log_cache = [i \in Slots |-> [tag |-> NULL, level |-> 0, generation |-> 0]]
  /\ s_log_cache_max_generation = 0
  /\ s_log_cache_entry_count = 0
  /\ s_log_cache_misses = 0
  /\ reply = NoReply
  /\ aborted = FALSE

-----------------------------------------------------------------------------
(* The list of levels by tag string. *)

Recorded(name) == \E k \in DOMAIN s_log_tags : s_log_tags[k].tag = name

\* The first entry SLIST_FOREACH meets with this string.
FirstRecord(name) ==
  CHOOSE k \in DOMAIN s_log_tags :
    /\ s_log_tags[k].tag = name
    /\ \A j \in 1 .. k - 1 : s_log_tags[j].tag # name

\* get_uncached_log_level, and the default when it finds nothing.
UncachedLevel(name) ==
  IF Recorded(name) THEN s_log_tags[FirstRecord(name)].level
                    ELSE s_log_default_level

-----------------------------------------------------------------------------
(* The cache: a binary min-heap on generation, once it is full. *)

Live == 0 .. s_log_cache_entry_count - 1
CacheFull == s_log_cache_entry_count = CONFIG_LOG_TAG_CACHE_SIZE
Parent(i) == (i - 1) \div 2

\* A search of the live slots for one of the slots in `found` looks at these.
Scanned(found) == {i \in Live : \A j \in found : i <= j}
\* ... and stops at this one (no slot when there is nothing to find).
FirstOf(found) == {i \in found : \A j \in found : i <= j}

\* The assert both searches make on each slot they look at.
OrderAssert(found) ==
  \A i \in Scanned(found) \ {0} :
    s_log_cache[Parent(i)].generation < s_log_cache[i].generation

\* Mutant of CachedAt: the search begins at slot 1.
CachedPastRoot(p) == {i \in Live \ {0} : s_log_cache[i].tag = p}

CachedAt(p) == {i \in Live : s_log_cache[i].tag = p}
CachedAs(name) == {i \in Live : Text[s_log_cache[i].tag] = name}

\* Mutant of NextDown: the comparison of the children is reversed.
YoungerChild(cache, i) ==
  IF cache[2 * i + 1].generation < cache[2 * i + 2].generation
  THEN 2 * i + 2 ELSE 2 * i + 1

\* The child heap_bubble_down swaps slot i with.
NextDown(cache, i) ==
  IF cache[2 * i + 1].generation < cache[2 * i + 2].generation
  THEN 2 * i + 1 ELSE 2 * i + 2

\* Mutant of InnerSlots: the loop of heap_bubble_down ends one slot early.
InnerSlotsButLast == 0 .. (CONFIG_LOG_TAG_CACHE_SIZE \div 2) - 2

\* The slots the loop goes on from; the others are leaves.
InnerSlots == 0 .. (CONFIG_LOG_TAG_CACHE_SIZE \div 2) - 1

\* `path` is the set of slots the loop of heap_bubble_down(index) visits: it
\* goes on from an inner slot to a child, and ends at a leaf.
IsBubblePath(cache, index, path) ==
  /\ index \in path
  /\ \A i \in path \cap InnerSlots : NextDown(cache, i) \in path
  /\ \A i \in path \ {index} :
       i > index /\ Parent(i) \in path /\ i = NextDown(cache, Parent(i))
  /\ \A leaf \in path \ InnerSlots : \A i \in path : i <= leaf

\* The swaps move each entry on the path one slot up and the entry that was
\* at `index` to the leaf.
BubbledDown(cache, index, path) ==
  [i \in Slots |-> IF i \notin path THEN cache[i]
                   ELSE IF i \in InnerSlots THEN cache[NextDown(cache, i)]
                   ELSE cache[index]]

\* Write `entry` to a slot of the full heap and call heap_bubble_down on it.
PlaceNewest(index, entry) ==
  LET written == [s_log_cache EXCEPT ![index] = entry]
  IN  \E path \in SUBSET Slots :
        /\ IsBubblePath(written, index, path)
        /\ s_log_cache' = BubbledDown(written, index, path)

\* s_log_cache_max_generation++, as the 29-bit field keeps it.
NewGeneration == s_log_cache_max_generation % GenerationModulus

TakeGeneration ==
  /\ s_log_cache_max_generation < MaxGeneration
  /\ s_log_cache_max_generation' =
       (s_log_cache_max_generation + 1) % CounterModulus

-----------------------------------------------------------------------------
(* log_level_set *)

\* Mutant of SetDefaultLevel: the cache keeps its entries.
SetDefaultKeepingCache(level) ==
  /\ s_log_default_level' = level
  /\ s_log_tags' = << >>
  /\ s_log_cache_max_generation' = 0
  /\ s_log_cache_misses' = 0
  /\ UNCHANGED <<s_log_cache, s_log_cache_entry_count, aborted>>

\* Mutant of SetDefaultLevel: the list keeps its entries.
SetDefaultKeepingTags(level) ==
  /\ s_log_default_level' = level
  /\ s_log_cache_entry_count' = 0
  /\ s_log_cache_max_generation' = 0
  /\ s_log_cache_misses' = 0
  /\ UNCHANGED <<s_log_tags, s_log_cache, aborted>>

\* The wildcard: a new default, and clear_log_level_list.
SetDefaultLevel(level) ==
  /\ s_log_default_level' = level
  /\ s_log_tags' = << >>
  /\ s_log_cache_entry_count' = 0
  /\ s_log_cache_max_generation' = 0
  /\ s_log_cache_misses' = 0
  /\ UNCHANGED <<s_log_cache, aborted>>

\* Mutant of RecordLevel: the list is not searched before the insertion.
RecordUnsearched(name, level) ==
  /\ s_log_tags' = <<[tag |-> name, level |-> level]>> \o s_log_tags
  /\ UNCHANGED s_log_default_level

RecordLevel(name, level) ==
  /\ s_log_tags' = IF Recorded(name)
                   THEN [s_log_tags EXCEPT ![FirstRecord(name)].level = level]
                   ELSE <<[tag |-> name, level |-> level]>> \o s_log_tags
  /\ UNCHANGED s_log_default_level

\* Mutants of RefreshCache: the cache is left alone, or emptied.
RefreshNothing(name, level) == UNCHANGED <<cacheVars, aborted>>

RefreshByEmptying(name, level) ==
  /\ s_log_cache_entry_count' = 0
  /\ UNCHANGED <<s_log_cache, s_log_cache_max_generation, s_log_cache_misses,
                 aborted>>

\* Update the first cached entry with this string, unless an assert fails.
RefreshCache(name, level) ==
  LET found == CachedAs(name)
  IN  /\ aborted' = ~OrderAssert(found)
      /\ s_log_cache' =
           [i \in Slots |->
              IF i \in FirstOf(found) /\ OrderAssert(found)
              THEN [s_log_cache[i] EXCEPT !.level = level % LevelModulus]
              ELSE s_log_cache[i]]
      /\ UNCHANGED <<s_log_cache_max_generation, s_log_cache_entry_count,
                     s_log_cache_misses>>

SetTagLevel(name, level) ==
  RecordLevel(name, level) /\ RefreshCache(name, level)

\* malloc returned NULL for the new entry: the call returns early.
AllocationFails(name) ==
  ~Recorded(name) /\ UNCHANGED <<registry, cacheVars, aborted>>

log_level_set(p, level) ==
  /\ ~aborted
  /\ reply' = NoReply
  /\ IF Text[p] = Wildcard
     THEN SetDefaultLevel(level)
     ELSE SetTagLevel(Text[p], level) \/ AllocationFails(Text[p])

-----------------------------------------------------------------------------
(* is_tag_level_visible *)

Answer(p, level, level_for_tag) ==
  reply' = [tag |-> p, level |-> level, visible |-> level <= level_for_tag]

\* get_cached_log_level finds p: only a full cache renews the generation.
CacheHit(p, level) ==
  \E i \in FirstOf(CachedAt(p)) :
    /\ Answer(p, level, s_log_cache[i].level)
    /\ IF CacheFull
       THEN /\ PlaceNewest(i, [s_log_cache[i] EXCEPT !.generation = NewGeneration])
            /\ TakeGeneration
       ELSE UNCHANGED <<s_log_cache, s_log_cache_max_generation>>
    /\ UNCHANGED <<s_log_cache_entry_count, s_log_cache_misses>>

\* Mutant of AddToCache: the test for a full cache is missing.
AppendAlways(p, level_for_tag) ==
  /\ TakeGeneration
  /\ s_log_cache_entry_count' = s_log_cache_entry_count + 1
  /\ s_log_cache' =
       [s_log_cache EXCEPT ![s_log_cache_entry_count % CONFIG_LOG_TAG_CACHE_SIZE] =
          [tag |-> p, level |-> level_for_tag % LevelModulus,
           generation |-> NewGeneration]]

\* Mutant of AddToCache: a full cache gives up its last slot.
ReplaceLastSlot(p, level_for_tag) ==
  LET slot == IF CacheFull THEN s_log_cache_entry_count - 1
                           ELSE s_log_cache_entry_count
  IN  /\ TakeGeneration
      /\ s_log_cache_entry_count' = slot + 1
      /\ s_log_cache' =
           [s_log_cache EXCEPT ![slot] =
              [tag |-> p, level |-> level_for_tag % LevelModulus,
               generation |-> NewGeneration]]

\* add_to_cache: append, or replace the oldest entry, the root of the heap.
AddToCache(p, level_for_tag) ==
  LET entry == [tag |-> p, level |-> level_for_tag % LevelModulus,
                generation |-> NewGeneration]
  IN  /\ TakeGeneration
      /\ IF CacheFull
         THEN /\ PlaceNewest(0, entry)
              /\ UNCHANGED s_log_cache_entry_count
         ELSE /\ s_log_cache' =
                   [s_log_cache EXCEPT ![s_log_cache_entry_count] = entry]
              /\ s_log_cache_entry_count' = s_log_cache_entry_count + 1

CacheMiss(p, level) ==
  /\ CachedAt(p) = {}
  /\ Answer(p, level, UncachedLevel(Text[p]))
  /\ AddToCache(p, UncachedLevel(Text[p]))
  /\ s_log_cache_misses' = (s_log_cache_misses + 1) % CounterModulus

LookupAborts(p) ==
  /\ ~OrderAssert(CachedAt(p))
  /\ aborted' = TRUE
  /\ UNCHANGED <<registry, cacheVars, reply>>

\* log_impl_lock_timeout gave up: the message is reported as not visible.
LockTimesOut(p, level) ==
  /\ MayTimeOut
  /\ reply' = [tag |-> p, level |-> level, visible |-> FALSE]
  /\ UNCHANGED <<registry, cacheVars, aborted>>

is_tag_level_visible(level, p) ==
  /\ ~aborted
  /\ \/ LockTimesOut(p, level)
     \/ LookupAborts(p)
     \/ /\ OrderAssert(CachedAt(p))
        /\ CacheHit(p, level) \/ CacheMiss(p, level)
        /\ UNCHANGED <<registry, aborted>>

Next ==
  \E p \in TagPointers, level \in Levels :
    log_level_set(p, level) \/ is_tag_level_visible(level, p)

Spec == Init /\ [][Next]_vars

-----------------------------------------------------------------------------
(* What the properties below need of the constants. *)

\* No two addresses hold the same tag (one `static const char* TAG` each).
OneAddressPerTag ==
  \A p, q \in TagPointers : Text[p] = Text[q] => p = q

\* Every level fits the three bits the cache has for it (LOG_* are 0 .. 5).
LevelsFitCache == \A level \in Levels : level < LevelModulus

\* The generation field never wraps: fewer than 2^29 since the last reset.
GenerationsFit ==
  MaxGeneration <= GenerationModulus /\ MaxGeneration < CounterModulus

-----------------------------------------------------------------------------
(* Properties *)

(***************************************************************************)
(* A tag string is in the list at most once, however often log_level_set   *)
(* is called: the list is bounded by the number of tags, and the entry     *)
(* found first is the only one.  "*" is never an entry.                    *)
(***************************************************************************)
TagsDistinct ==
  \A j, k \in DOMAIN s_log_tags : s_log_tags[j].tag = s_log_tags[k].tag => j = k

(***************************************************************************)
(* An address occupies at most one live slot, so no slot is wasted and the *)
(* search by address has one answer, through every eviction and reset.     *)
(***************************************************************************)
CachedOnce ==
  \A i, j \in Live : s_log_cache[i].tag = s_log_cache[j].tag => i = j

(***************************************************************************)
(* The live slots are a strict min-heap on generation, the condition of    *)
(* the asserts in log_level_set and get_cached_log_level, and the root is  *)
(* older than every other live slot, which is what makes replacing slot 0  *)
(* right.  It needs GenerationsFit.                                        *)
(***************************************************************************)
HeapOrdered ==
  \A i \in Live \ {0} :
    /\ s_log_cache[Parent(i)].generation < s_log_cache[i].generation
    /\ s_log_cache[0].generation < s_log_cache[i].generation

(***************************************************************************)
(* No assert of the built-in checks ever fails (log.c:171 and log.c:257):  *)
(* the logger never brings the program down.                               *)
(***************************************************************************)
AssertsHold == ~aborted

(***************************************************************************)
(* A cached level is never stale: every live slot holds the level a walk   *)
(* of the list would find for the string at its address, whatever sets,    *)
(* failed sets, resets and evictions came before.  It needs                *)
(* OneAddressPerTag and LevelsFitCache, and no bound on generations.       *)
(***************************************************************************)
CacheCoherent ==
  ~aborted =>
    \A i \in Live :
      s_log_cache[i].level = UncachedLevel(Text[s_log_cache[i].tag])

(***************************************************************************)
(* The caching is effective (log.c:21-24): no address is missed twice      *)
(* while the cache has room.  Since the last reset, every one of the first *)
(* CONFIG_LOG_TAG_CACHE_SIZE misses has filled a slot that is still live,  *)
(* so tags that fit the cache stop missing, whatever levels are set.       *)
(***************************************************************************)
WorkingSetStaysCached ==
  s_log_cache_misses <= CONFIG_LOG_TAG_CACHE_SIZE =>
    s_log_cache_misses = s_log_cache_entry_count

(***************************************************************************)
(* The answer of the last is_tag_level_visible is the one the levels in    *)
(* force give for the tag's string.                                        *)
(***************************************************************************)
AnswersCurrentLevel ==
  reply # NoReply =>
    (reply.visible <=> reply.level <= UncachedLevel(Text[reply.tag]))

(***************************************************************************)
(* The list and the cache together answer like the plain registry of       *)
(* levels by tag string: the cache cannot be seen from outside.            *)
(***************************************************************************)
Override ==
  [name \in {n \in Names : Recorded(n)} |-> s_log_tags[FirstRecord(name)].level]

Registry == INSTANCE LevelRegistry WITH
  defaultLevel <- s_log_default_level, override <- Override

ImplementsRegistry == Registry!Spec

(***************************************************************************)
(* The heap in the array replaces tags in order of age: every insertion    *)
(* into a full cache evicts the oldest one.  It needs GenerationsFit.      *)
(***************************************************************************)
CachedTags == {s_log_cache[i].tag : i \in Live}
OlderTags ==
  {<<s_log_cache[pair[1]].tag, s_log_cache[pair[2]].tag>> :
     pair \in {ij \in Live \X Live :
                s_log_cache[ij[1]].generation < s_log_cache[ij[2]].generation}}

Recency == INSTANCE RecencyCache WITH
  Tags <- TagPointers, Capacity <- CONFIG_LOG_TAG_CACHE_SIZE,
  cached <- CachedTags, older <- OlderTags

ImplementsRecency == Recency!Spec
=============================================================================
