----------------------------- MODULE TagListProofs -----------------------------
(***************************************************************************)
(* Theorems about TagList, for any number of tasks, of blocks of memory,   *)
(* of tags and of levels.                                                  *)
(***************************************************************************)
EXTENDS TagList, FiniteSetTheorems, RecursionTheorems

Last == Cardinality(Nodes)

-----------------------------------------------------------------------------
(* The inductive invariant of the heap *)

Typed == TypeOK /\ call \in [Tasks -> Calls]

\* Whoever is in a call has the lock.
OneCall == \A t \in Tasks : call[t] # NoCall <=> holder = t

\* The list ends, visits no block twice, and has one entry for a tag.
ListOK ==
  /\ Entry[Last] = NULL
  /\ \A k \in 0 .. Last : Entry[k] \in Nodes \cup {NULL}
  /\ \A i, j \in 0 .. Last : Entry[i] \in Nodes /\ Entry[i] = Entry[j] => i = j
  /\ \A n \in Listed :
       n \in allocated /\ node[n].tag \in Tags \ {Wildcard} /\ node[n].level \in Levels
  /\ \A m, n \in Listed : node[m].tag = node[n].tag => m = n

\* A walk stands on an entry behind others that have not its tag.
Walked(tag, it) ==
  \E k \in 0 .. Last :
    it = Entry[k] /\ \A j \in 0 .. k - 1 : Entry[j] \in Nodes /\ node[Entry[j]].tag # tag

Absent(tag) == \A n \in Listed : node[n].tag # tag

\* What a call has done so far, by its stage.
Progress(op, at, tag, level, it, new_entry) ==
  /\ at \in {"default", "clear", "remove", "free"} => op = "set" /\ tag = Wildcard
  /\ at \in {"walk", "fill", "link", "insert"} => (op = "set" => tag # Wildcard)
  /\ at \in {"fill", "link", "insert"} => op = "set" /\ new_entry \in Nodes /\ Absent(tag)
  /\ at = "remove" => it = slh_first /\ it \in Nodes
  /\ at = "free" => it \in Nodes
  /\ at = "walk" => Walked(tag, it)
  /\ at \in {"link", "insert"} => node[new_entry].tag = tag /\ node[new_entry].level = level
  /\ at = "insert" => node[new_entry].sle_next = slh_first

CallOK(t) ==
  call[t] # NoCall =>
    Progress(call[t].op, call[t].at, call[t].tag, call[t].level, call[t].it, call[t].new_entry)

HeapInv == Typed /\ OneCall /\ ListOK /\ (\A t \in Tasks : CallOK(t)) /\ NothingLeaks

-----------------------------------------------------------------------------
(* The inductive invariant of the levels *)

\* The function is the one the entries of the list say.
Agrees(levelOf) ==
  /\ DOMAIN levelOf = {node[n].tag : n \in Listed}
  /\ \A n \in Listed : levelOf[node[n].tag] = node[n].level

With(levelOf, name, level) ==
  [n \in DOMAIN levelOf \cup {name} |-> IF n = name THEN level ELSE levelOf[n]]

\* Since the lock was taken nothing has changed.
Kept == committed.defaultLevel = s_log_default_level /\ Agrees(committed.override)

\* What a call has made of the levels that were in force when it began.
Serves(op, at, tag, level, level_for_tag) ==
  /\ op = "get" \/ at \in {"default", "walk", "fill", "link", "insert"} => Kept
  /\ op = "get" /\ at = "unlock" =>
       level_for_tag = IF tag \in DOMAIN committed.override
                       THEN committed.override[tag] ELSE committed.defaultLevel
  /\ at \in {"clear", "remove", "free"} => s_log_default_level = level
  /\ op = "set" /\ at = "unlock" =>
       IF tag = Wildcard THEN s_log_default_level = level /\ Listed = {}
       ELSE \/ Kept /\ Absent(tag)
            \/ /\ committed.defaultLevel = s_log_default_level
               /\ Agrees(With(committed.override, tag, level))

ServesCall(t) ==
  call[t] # NoCall =>
    Serves(call[t].op, call[t].at, call[t].tag, call[t].level, call[t].level_for_tag)

LevelsInv ==
  /\ HeapInv
  /\ committed = [defaultLevel |-> committed.defaultLevel, override |-> committed.override]
  /\ committed.override = [n \in DOMAIN committed.override |-> committed.override[n]]
  /\ holder = NoTask => Kept
  /\ \A t \in Tasks : ServesCall(t)

-----------------------------------------------------------------------------
(* The list as a whole *)

Values == Nodes \cup {NULL, Junk}

\* What the recursive definition of Entry says.
EntryRuns ==
  /\ Entry \in [0 .. Last -> Values]
  /\ Entry[0] = slh_first
  /\ \A k \in 1 .. Last :
       Entry[k] = IF Entry[k - 1] \in Nodes THEN node[Entry[k - 1]].sle_next ELSE NULL

(***************************************************************************)
(* Last is the number of blocks: a walk of more steps would meet one of    *)
(* them twice.                                                             *)
(***************************************************************************)
LEMMA LastIs == Last \in Nat /\ \A k \in 0 .. Last : k # Last => k + 1 \in 1 .. Last
<1>1. Last \in Nat
  BY TagListAssumption, FS_CardinalityType DEF Last
<1> QED BY <1>1

(***************************************************************************)
(* The entries, one step after the other.                                  *)
(***************************************************************************)
LEMMA EntryIs == TypeOK => EntryRuns
<1> SUFFICES ASSUME TypeOK PROVE EntryRuns
  OBVIOUS
<1> DEFINE B == Last
           After(e) == IF e \in Nodes THEN node[e].sle_next ELSE NULL
           h == [x \in Nat \X Values |-> After(x[2])]
<1>1. B \in Nat
  BY LastIs
<1>2. slh_first \in Values /\ \A e \in Values : After(e) \in Values
  BY DEF TypeOK, Values
<1>3. h \in [Nat \X Values -> Values] /\ \A k \in Nat, e \in Values : h[<<k, e>>] = After(e)
  <2> HIDE DEF After
  <2> QED BY <1>2
<1> HIDE DEF B, h
<1>4. PICK f \in [0 .. B -> Values] : f[0] = slh_first /\ \A k \in 1 .. B : f[k] = h[<<k, f[k - 1]>>]
  <2>1. Recursion(B, Values, slh_first, h)
    BY <1>1, <1>2, <1>3, RecursionIs
  <2> QED BY <2>1 DEF Recursion
<1>5. /\ \A k \in 0 .. B : k = 0 \/ k \in 1 .. B
      /\ \A k \in 1 .. B : k # 0 /\ k \in Nat /\ k \in 0 .. B /\ k - 1 \in 0 .. B
      /\ 0 \in 0 .. B
  BY <1>1
<1>6. \A k \in 1 .. B : f[k] = After(f[k - 1])
  <2> HIDE DEF After
  <2> QED BY <1>3, <1>4, <1>5
<1> DEFINE Solves(g) ==
      g = [k \in 0 .. B |-> IF k = 0 THEN slh_first
                            ELSE IF g[k - 1] \in Nodes THEN node[g[k - 1]].sle_next ELSE NULL]
<1>7. Solves(f)
  <2>1. ASSUME NEW k \in 0 .. B
        PROVE  f[k] = IF k = 0 THEN slh_first
                      ELSE IF f[k - 1] \in Nodes THEN node[f[k - 1]].sle_next ELSE NULL
    BY <1>4, <1>5, <1>6
  <2> QED BY <1>4, <2>1
<1> DEFINE e == CHOOSE g : Solves(g)
<1>8. Entry = e
  BY DEF Entry, B, Last
<1>9. Solves(e)
  <2> HIDE DEF Solves
  <2> QED BY <1>7
<1> HIDE DEF e
<1>10. /\ e[0] = slh_first /\ DOMAIN e = 0 .. B /\ e = [k \in 0 .. B |-> e[k]]
       /\ \A k \in 1 .. B : e[k] = After(e[k - 1])
  BY <1>5, <1>9
<1>11. \A k \in 0 .. B : e[k] \in Values
  <2> DEFINE P == {k \in 0 .. B : e[k] \in Values}
  <2>1. 0 \in P
    BY <1>2, <1>5, <1>10
  <2>2. \A k \in 0 .. B : k # B /\ k \in P => k + 1 \in P
    <3>1. \A k \in 0 .. B : k # B => k + 1 \in 1 .. B /\ (k + 1) - 1 = k
      BY <1>1
    <3> HIDE DEF After
    <3> QED BY <1>2, <1>5, <1>10, <3>1
  <2>3. \A k \in 0 .. B : k \in P
    <3> HIDE DEF P
    <3> QED BY <1>1, <2>1, <2>2, UpTo
  <2> QED BY <2>3
<1>12. e \in [0 .. B -> Values]
  BY <1>10, <1>11
<1> QED BY <1>8, <1>10, <1>12 DEF EntryRuns, B

(***************************************************************************)
(* An entry that is in the list has its place there.                       *)
(***************************************************************************)
LEMMA ListedIs ==
  /\ \A n : n \in Listed <=> n \in Nodes /\ \E k \in 0 .. Last : Entry[k] = n
  /\ Listed \subseteq Nodes
BY DEF Listed, Last

(***************************************************************************)
(* Behind the end of the list there is nothing.                            *)
(***************************************************************************)
LEMMA AfterEnd ==
  ASSUME TypeOK, NEW i \in 0 .. Last, NEW j \in 0 .. Last, i <= j, Entry[i] = NULL
  PROVE  Entry[j] = NULL
<1>1. Last \in Nat /\ EntryRuns /\ NULL \notin Nodes
  BY LastIs, EntryIs, TagListAssumption
<1> DEFINE P == {k \in 0 .. Last : i <= k => Entry[k] = NULL}
<1>2. 0 \in P
  BY <1>1
<1>3. ASSUME NEW k \in 0 .. Last, k # Last, k \in P
      PROVE  k + 1 \in P
  <2>1. k + 1 \in 1 .. Last /\ (k + 1) - 1 = k /\ k + 1 \in 0 .. Last
    BY <1>1, <1>3
  <2>2. CASE i <= k
    BY <1>1, <1>3, <2>1, <2>2 DEF EntryRuns
  <2>3. CASE i = k + 1
    BY <2>1, <2>3
  <2>4. i <= k + 1 => i <= k \/ i = k + 1
    BY <1>1
  <2> QED BY <2>1, <2>2, <2>3, <2>4
<1>4. \A k \in 0 .. Last : k \in P
  <2> HIDE DEF P
  <2> QED BY <1>1, <1>2, <1>3, UpTo
<1> QED BY <1>4

\* The walk of the next state.
EntryStays == TypeOK' => EntryRuns'

(***************************************************************************)
(* The same of the next state.                                             *)
(***************************************************************************)
LEMMA EntryIsNext == EntryStays
<1>1. (TypeOK => EntryRuns)'
  BY EntryIs, PTL
<1> QED BY <1>1 DEF EntryStays

(***************************************************************************)
(* The list stays the same when neither the head nor the link of one of    *)
(* its entries is written.                                                 *)
(***************************************************************************)
LEMMA ListStays ==
  ASSUME TypeOK, TypeOK', slh_first' = slh_first,
         \A n \in Listed : node'[n].sle_next = node[n].sle_next
  PROVE  (\A k \in 0 .. Last : Entry'[k] = Entry[k]) /\ Listed' = Listed
<1>1. Last \in Nat /\ EntryRuns /\ EntryRuns'
  BY LastIs, EntryIs, EntryIsNext DEF EntryStays
<1> DEFINE P == {k \in 0 .. Last : Entry'[k] = Entry[k]}
<1>2. 0 \in P
  BY <1>1 DEF EntryRuns
<1>3. ASSUME NEW k \in 0 .. Last, k # Last, k \in P
      PROVE  k + 1 \in P
  <2>1. k + 1 \in 1 .. Last /\ (k + 1) - 1 = k /\ k + 1 \in 0 .. Last
    BY <1>1, <1>3
  <2>2. Entry[k] \in Nodes => Entry[k] \in Listed
    BY ListedIs
  <2> QED BY <1>1, <1>3, <2>1, <2>2 DEF EntryRuns
<1>4. \A k \in 0 .. Last : k \in P
  <2> HIDE DEF P
  <2> QED BY <1>1, <1>2, <1>3, UpTo
<1>5. \A k \in 0 .. Last : Entry'[k] = Entry[k]
  BY <1>4
<1> QED BY <1>5 DEF Listed, Last

(***************************************************************************)
(* SLIST_REMOVE_HEAD: every entry moves one place up.                      *)
(***************************************************************************)
LEMMA ListPops ==
  ASSUME TypeOK, TypeOK', ListOK, slh_first \in Nodes,
         slh_first' = node[slh_first].sle_next, node' = node
  PROVE  /\ Last \in Nat \ {0} /\ Entry[0] = slh_first
         /\ \A k \in 0 .. Last : k # Last => Entry'[k] = Entry[k + 1]
         /\ Entry'[Last] = NULL
         /\ Listed' = Listed \ {slh_first}
<1>1. Last \in Nat /\ EntryRuns /\ EntryRuns' /\ NULL \notin Nodes
  BY LastIs, EntryIs, EntryIsNext, TagListAssumption DEF EntryStays
<1>2. Last # 0 /\ Entry[0] = slh_first
  <2>1. Entry[0] = slh_first /\ Entry[Last] = NULL
    BY <1>1 DEF EntryRuns, ListOK
  <2> QED BY <1>1, <2>1
<1> DEFINE P == {k \in 0 .. Last : k # Last => Entry'[k] = Entry[k + 1]}
<1>3. 0 \in P
  <2>1. 0 + 1 \in 1 .. Last /\ (0 + 1) - 1 = 0
    BY <1>1, <1>2
  <2> QED BY <1>1, <1>2, <2>1 DEF EntryRuns
<1>4. ASSUME NEW k \in 0 .. Last, k # Last, k \in P
      PROVE  k + 1 \in P
  <2>1. /\ k + 1 \in 1 .. Last /\ (k + 1) - 1 = k /\ k + 1 \in 0 .. Last
        /\ k + 1 # Last => (k + 1) + 1 \in 1 .. Last /\ ((k + 1) + 1) - 1 = k + 1
    BY <1>1, <1>4
  <2>2. Entry'[k] = Entry[k + 1]
    BY <1>4
  <2>3. k + 1 # Last => Entry'[k + 1] = Entry[(k + 1) + 1]
    BY <1>1, <2>1, <2>2 DEF EntryRuns
  <2> QED BY <2>1, <2>3
<1>5. \A k \in 0 .. Last : k # Last => Entry'[k] = Entry[k + 1]
  <2>1. \A k \in 0 .. Last : k \in P
    <3> HIDE DEF P
    <3> QED BY <1>1, <1>3, <1>4, UpTo
  <2> QED BY <2>1
<1>6. Entry'[Last] = NULL
  <2>1. Last \in 1 .. Last /\ Last - 1 \in 0 .. Last /\ Last - 1 # Last /\ (Last - 1) + 1 = Last
    BY <1>1, <1>2
  <2>2. Entry'[Last - 1] = NULL
    BY <1>5, <2>1 DEF ListOK
  <2> QED BY <1>1, <2>1, <2>2 DEF EntryRuns
<1>7. Listed' = Listed \ {slh_first}
  <2>1. ASSUME NEW n
        PROVE  n \in Listed' <=> n \in Nodes /\ \E k \in 0 .. Last : Entry'[k] = n
    BY DEF Listed, Last
  <2>2. ASSUME NEW n \in Nodes, NEW k \in 0 .. Last, Entry'[k] = n
        PROVE  n \in Listed /\ n # slh_first
    <3>1. k # Last /\ Entry[k + 1] = n
      BY <1>1, <1>5, <1>6, <2>2
    <3>2. k + 1 \in 0 .. Last /\ 0 \in 0 .. Last /\ k + 1 # 0
      BY <1>1, <3>1
    <3> QED BY <1>2, <3>1, <3>2, ListedIs DEF ListOK
  <2>3. ASSUME NEW n \in Listed, n # slh_first
        PROVE  n \in Nodes /\ \E k \in 0 .. Last : Entry'[k] = n
    <3>1. PICK i \in 0 .. Last : Entry[i] = n
      BY ListedIs
    <3>2. i - 1 \in 0 .. Last /\ i - 1 # Last /\ (i - 1) + 1 = i
      BY <1>1, <1>2, <2>3, <3>1
    <3> QED BY <1>5, <3>1, <3>2, ListedIs
  <2> QED BY <2>1, <2>2, <2>3
<1> QED BY <1>1, <1>2, <1>5, <1>6, <1>7

(***************************************************************************)
(* A block that is not in the list leaves a place free at its end.         *)
(***************************************************************************)
LEMMA ListHasRoom ==
  ASSUME TypeOK, ListOK, NEW n \in Nodes, n \notin Listed
  PROVE  Last \in Nat \ {0} /\ Entry[Last - 1] = NULL
<1>1. Last \in Nat /\ IsFiniteSet(Nodes) /\ NULL \notin Nodes
  BY LastIs, TagListAssumption
<1>2. IsFiniteSet(Nodes \ {n}) /\ Cardinality(Nodes \ {n}) = Last - 1
  BY <1>1, FS_RemoveElement DEF Last
<1>3. Last # 0
  BY <1>1, FS_EmptySet DEF Last
<1>4. ASSUME Entry[Last - 1] # NULL
      PROVE  FALSE
  <2> DEFINE I == 0 .. Last - 1
             f == [k \in I |-> Entry[k]]
  <2>1. \A k \in I : k \in 0 .. Last /\ k <= Last - 1 /\ Last - 1 \in 0 .. Last
    BY <1>1, <1>3
  <2>2. \A k \in I : Entry[k] \in Nodes \ {n}
    <3> SUFFICES ASSUME NEW k \in I PROVE Entry[k] \in Nodes \ {n}
      OBVIOUS
    <3>1. Entry[k] # NULL
      BY <1>4, <2>1, AfterEnd
    <3> QED BY <2>1, <3>1, ListedIs DEF ListOK
  <2>3. \A i, j \in I : Entry[i] = Entry[j] => i = j
    BY <2>1, <2>2 DEF ListOK
  <2>4. f \in Injection(I, Nodes \ {n})
    BY <2>2, <2>3 DEF Injection, IsInjective
  <2>5. Cardinality(I) <= Last - 1
    <3> HIDE DEF f, I
    <3> QED BY <1>2, <2>4, FS_Injection
  <2>6. Cardinality(I) = Last
    <3>1. 0 \in Int /\ Last - 1 \in Int /\ ~(0 > Last - 1) /\ (Last - 1) - 0 + 1 = Last
      BY <1>1, <1>3
    <3> QED BY <3>1, FS_Interval
  <2> QED BY <1>1, <2>5, <2>6
<1> QED BY <1>1, <1>3, <1>4

(***************************************************************************)
(* SLIST_INSERT_HEAD: the new entry is the first, the others follow it.    *)
(***************************************************************************)
LEMMA ListGrows ==
  ASSUME TypeOK, TypeOK', ListOK, NEW n \in Nodes, n \notin Listed,
         slh_first' = n, node[n].sle_next = slh_first, node' = node
  PROVE  /\ Last \in Nat \ {0} /\ Entry'[0] = n
         /\ \A k \in 0 .. Last : k # Last => Entry'[k + 1] = Entry[k]
         /\ Entry'[Last] = NULL
         /\ Listed' = Listed \cup {n}
<1>1. Last \in Nat \ {0} /\ EntryRuns /\ EntryRuns' /\ NULL \notin Nodes /\ Entry[Last - 1] = NULL
  BY LastIs, EntryIs, EntryIsNext, TagListAssumption, ListHasRoom DEF EntryStays
<1>2. Entry'[0] = n
  BY <1>1 DEF EntryRuns
<1> DEFINE P == {k \in 0 .. Last : k # Last => Entry'[k + 1] = Entry[k]}
<1>3. 0 \in P
  <2>1. 0 + 1 \in 1 .. Last /\ (0 + 1) - 1 = 0
    BY <1>1
  <2> QED BY <1>1, <1>2, <2>1 DEF EntryRuns
<1>4. ASSUME NEW k \in 0 .. Last, k # Last, k \in P
      PROVE  k + 1 \in P
  <2>1. /\ k + 1 \in 1 .. Last /\ (k + 1) - 1 = k /\ k + 1 \in 0 .. Last
        /\ k + 1 # Last => (k + 1) + 1 \in 1 .. Last /\ ((k + 1) + 1) - 1 = k + 1
    BY <1>1, <1>4
  <2>2. Entry'[k + 1] = Entry[k]
    BY <1>4
  <2>3. k + 1 # Last => Entry'[(k + 1) + 1] = Entry[k + 1]
    BY <1>1, <2>1, <2>2 DEF EntryRuns
  <2> QED BY <2>1, <2>3
<1>5. \A k \in 0 .. Last : k # Last => Entry'[k + 1] = Entry[k]
  <2>1. \A k \in 0 .. Last : k \in P
    <3> HIDE DEF P
    <3> QED BY <1>1, <1>3, <1>4, UpTo
  <2> QED BY <2>1
<1>6. Entry'[Last] = NULL
  <2>1. Last - 1 \in 0 .. Last /\ Last - 1 # Last /\ (Last - 1) + 1 = Last
    BY <1>1
  <2> QED BY <1>1, <1>5, <2>1
<1>7. Listed' = Listed \cup {n}
  <2>1. ASSUME NEW m
        PROVE  m \in Listed' <=> m \in Nodes /\ \E k \in 0 .. Last : Entry'[k] = m
    BY DEF Listed, Last
  <2>2. ASSUME NEW m \in Nodes, NEW k \in 0 .. Last, Entry'[k] = m
        PROVE  m = n \/ m \in Listed
    <3>1. CASE k = 0
      BY <1>2, <2>2, <3>1
    <3>2. CASE k # 0
      <4>1. k - 1 \in 0 .. Last /\ k - 1 # Last /\ (k - 1) + 1 = k
        BY <1>1, <3>2
      <4> QED BY <1>5, <2>2, <4>1, ListedIs
    <3> QED BY <3>1, <3>2
  <2>3. ASSUME NEW m \in Listed
        PROVE  m \in Nodes /\ \E k \in 0 .. Last : Entry'[k] = m
    <3>1. PICK i \in 0 .. Last : Entry[i] = m
      BY ListedIs
    <3>2. m \in Nodes /\ i # Last
      BY <1>1, <3>1, ListedIs DEF ListOK
    <3>3. i + 1 \in 0 .. Last
      BY <1>1, <3>2
    <3> QED BY <1>5, <3>1, <3>2, <3>3
  <2>4. 0 \in 0 .. Last
    BY <1>1
  <2> QED BY <1>2, <2>1, <2>2, <2>3, <2>4
<1> QED BY <1>1, <1>2, <1>5, <1>6, <1>7

(***************************************************************************)
(* The invariants of the list do not see a change elsewhere, nor another   *)
(* level in an entry.                                                      *)
(***************************************************************************)
LEMMA ListKept ==
  ASSUME TypeOK, TypeOK', ListOK, slh_first' = slh_first,
         \A n \in Listed : /\ node'[n].sle_next = node[n].sle_next /\ node'[n].tag = node[n].tag
                           /\ node'[n].level \in Levels /\ n \in allocated'
  PROVE  /\ ListOK' /\ Listed' = Listed
         /\ \A tag : Absent(tag)' <=> Absent(tag)
         /\ \A tag, it : Walked(tag, it) => Walked(tag, it)'
<1>1. (\A k \in 0 .. Last : Entry'[k] = Entry[k]) /\ Listed' = Listed
  BY ListStays
<1>2. Last \in Nat /\ Last' = Last /\ Last \in 0 .. Last
  BY LastIs DEF Last
<1>3. ListOK'
  <2>1. /\ Entry'[Last] = NULL
        /\ \A k \in 0 .. Last : Entry'[k] \in Nodes \cup {NULL}
        /\ \A i, j \in 0 .. Last : Entry'[i] \in Nodes /\ Entry'[i] = Entry'[j] => i = j
    BY <1>1, <1>2 DEF ListOK
  <2>2. /\ \A n \in Listed :
             n \in allocated' /\ node'[n].tag \in Tags \ {Wildcard} /\ node'[n].level \in Levels
        /\ \A m, n \in Listed : node'[m].tag = node'[n].tag => m = n
    BY DEF ListOK
  <2> QED BY <1>1, <1>2, <2>1, <2>2 DEF ListOK
<1>4. \A tag : Absent(tag)' <=> Absent(tag)
  BY <1>1 DEF Absent
<1>5. ASSUME NEW tag, NEW it, Walked(tag, it)
      PROVE  Walked(tag, it)'
  <2>1. PICK k \in 0 .. Last :
          it = Entry[k] /\ \A j \in 0 .. k - 1 : Entry[j] \in Nodes /\ node[Entry[j]].tag # tag
    BY <1>5 DEF Walked
  <2>2. \A j \in 0 .. k - 1 : j \in 0 .. Last
    BY <1>2
  <2>3. \A j \in 0 .. k - 1 : Entry'[j] \in Nodes /\ node'[Entry'[j]].tag # tag
    BY <1>1, <2>1, <2>2, ListedIs
  <2>4. it = Entry'[k]
    BY <1>1, <2>1
  <2> QED BY <1>2, <2>3, <2>4 DEF Walked
<1> QED BY <1>1, <1>3, <1>4, <1>5

(***************************************************************************)
(* What a walk has found when it stands on an entry with the tag, and what *)
(* it knows when it is at the end.                                         *)
(***************************************************************************)
LEMMA WalkIs ==
  ASSUME TypeOK, ListOK, NEW tag, NEW it, Walked(tag, it)
  PROVE  /\ it \in Listed \cup {NULL}
         /\ it = NULL => Absent(tag)
         /\ it # NULL /\ node[it].tag # tag => Walked(tag, node[it].sle_next)
<1>1. PICK k \in 0 .. Last :
        it = Entry[k] /\ \A j \in 0 .. k - 1 : Entry[j] \in Nodes /\ node[Entry[j]].tag # tag
  BY DEF Walked
<1>2. Last \in Nat /\ EntryRuns /\ NULL \notin Nodes
  BY LastIs, EntryIs, TagListAssumption
<1>3. it \in Listed \cup {NULL}
  BY <1>1, ListedIs DEF ListOK
<1>4. ASSUME it = NULL
      PROVE  Absent(tag)
  <2> SUFFICES ASSUME NEW n \in Listed PROVE node[n].tag # tag
    BY DEF Absent
  <2>1. PICK i \in 0 .. Last : Entry[i] = n /\ n \in Nodes
    BY ListedIs
  <2>2. i \in 0 .. k - 1
    <3>1. ~(k <= i)
      BY <1>1, <1>2, <1>4, <2>1, AfterEnd
    <3> QED BY <1>2, <3>1
  <2> QED BY <1>1, <2>1, <2>2
<1>5. ASSUME it # NULL, node[it].tag # tag
      PROVE  Walked(tag, node[it].sle_next)
  <2>1. it \in Nodes /\ Entry[k] = it /\ k # Last
    BY <1>1, <1>2, <1>3, <1>5, ListedIs DEF ListOK
  <2>2. k + 1 \in 1 .. Last /\ (k + 1) - 1 = k /\ k + 1 \in 0 .. Last
    BY <1>2, <2>1
  <2>3. Entry[k + 1] = node[it].sle_next
    BY <1>2, <2>1, <2>2 DEF EntryRuns
  <2>4. \A j \in 0 .. (k + 1) - 1 : j \in 0 .. k - 1 \/ j = k
    BY <1>2
  <2>5. \A j \in 0 .. (k + 1) - 1 : Entry[j] \in Nodes /\ node[Entry[j]].tag # tag
    BY <1>1, <1>5, <2>1, <2>4
  <2> QED BY <2>2, <2>3, <2>5 DEF Walked
<1> QED BY <1>3, <1>4, <1>5

-----------------------------------------------------------------------------
(* The heap *)

InCall ==
  [op : {"set", "get"}, at : Stages, tag : Tags, level : Levels,
   it : Nodes \cup {NULL, Junk}, new_entry : Nodes \cup {Junk},
   level_for_tag : Levels \cup {Junk}]

\* The call of t goes on, at another stage and with other locals.
Turns(t, at, it, new_entry, level_for_tag) ==
  /\ call' \in [Tasks -> Calls] /\ call'[t] \in InCall /\ call'[t] # NoCall
  /\ call'[t].op = call[t].op /\ call'[t].tag = call[t].tag /\ call'[t].level = call[t].level
  /\ call'[t].at = at /\ call'[t].it = it /\ call'[t].new_entry = new_entry
  /\ call'[t].level_for_tag = level_for_tag
  /\ \A u \in Tasks : u # t => call'[u] = call[u]

(***************************************************************************)
(* A call has its locals, and no call has no stage of one.                 *)
(***************************************************************************)
LEMMA CallsAre ==
  /\ Calls = {NoCall} \cup InCall /\ NoCall.at = "idle"
  /\ \A c \in InCall :
       /\ c # NoCall /\ c.at \in Stages /\ c.op \in {"set", "get"} /\ c.tag \in Tags
       /\ c.level \in Levels /\ c.it \in Nodes \cup {NULL, Junk}
       /\ c.new_entry \in Nodes \cup {Junk} /\ c.level_for_tag \in Levels \cup {Junk}
<1>1. Calls = {NoCall} \cup InCall /\ NoCall.at = "idle"
  BY DEF Calls, InCall, NoCall
<1>2. \A c \in InCall :
        /\ c.at \in Stages /\ c.op \in {"set", "get"} /\ c.tag \in Tags
        /\ c.level \in Levels /\ c.it \in Nodes \cup {NULL, Junk}
        /\ c.new_entry \in Nodes \cup {Junk} /\ c.level_for_tag \in Levels \cup {Junk}
  BY DEF InCall
<1>3. "idle" \notin Stages
  BY DEF Stages
<1> QED BY <1>1, <1>2, <1>3

(***************************************************************************)
(* The assignments to the locals of a call.                                *)
(***************************************************************************)
LEMMA TurnsAre ==
  ASSUME Typed, NEW t \in Tasks, call[t] # NoCall, NEW s \in Stages
  PROVE  /\ GoesTo(t, s) => Turns(t, s, call[t].it, call[t].new_entry, call[t].level_for_tag)
         /\ \A e \in Nodes \cup {NULL, Junk} :
              /\ call' = [call EXCEPT ![t].it = e] =>
                   Turns(t, call[t].at, e, call[t].new_entry, call[t].level_for_tag)
              /\ call' = [call EXCEPT ![t].it = e, ![t].at = s] =>
                   Turns(t, s, e, call[t].new_entry, call[t].level_for_tag)
         /\ \A n \in Nodes : call' = [call EXCEPT ![t].new_entry = n, ![t].at = s] =>
              Turns(t, s, call[t].it, n, call[t].level_for_tag)
         /\ \A l \in Levels : call' = [call EXCEPT ![t].level_for_tag = l, ![t].at = s] =>
              Turns(t, s, call[t].it, call[t].new_entry, l)
<1>1. call \in [Tasks -> Calls] /\ call[t] \in InCall /\ InCall \subseteq Calls
  BY CallsAre DEF Typed
<1> DEFINE c == call[t]
<1>2. \A d \in InCall : d # NoCall
  BY CallsAre
<1>3. ASSUME NEW d \in InCall, call' = [call EXCEPT ![t] = d]
      PROVE  /\ call' \in [Tasks -> Calls] /\ call'[t] = d /\ call'[t] \in InCall
             /\ call'[t] # NoCall /\ \A u \in Tasks : u # t => call'[u] = call[u]
  BY <1>1, <1>2, <1>3
<1>4. ASSUME GoesTo(t, s)
      PROVE  Turns(t, s, c.it, c.new_entry, c.level_for_tag)
  <2> DEFINE d == [c EXCEPT !.at = s]
  <2>1. d \in InCall /\ call' = [call EXCEPT ![t] = d]
    BY <1>1, <1>4 DEF InCall, GoesTo
  <2>2. /\ d.op = c.op /\ d.tag = c.tag /\ d.level = c.level /\ d.at = s /\ d.it = c.it
        /\ d.new_entry = c.new_entry /\ d.level_for_tag = c.level_for_tag
    BY <1>1 DEF InCall
  <2> HIDE DEF d
  <2> QED BY <1>3, <2>1, <2>2 DEF Turns
<1>5. ASSUME NEW e \in Nodes \cup {NULL, Junk}, call' = [call EXCEPT ![t].it = e]
      PROVE  Turns(t, c.at, e, c.new_entry, c.level_for_tag)
  <2> DEFINE d == [c EXCEPT !.it = e]
  <2>1. d \in InCall /\ call' = [call EXCEPT ![t] = d]
    BY <1>1, <1>5 DEF InCall
  <2>2. /\ d.op = c.op /\ d.tag = c.tag /\ d.level = c.level /\ d.at = c.at /\ d.it = e
        /\ d.new_entry = c.new_entry /\ d.level_for_tag = c.level_for_tag
    BY <1>1 DEF InCall
  <2> HIDE DEF d
  <2> QED BY <1>3, <2>1, <2>2 DEF Turns
<1>6. ASSUME NEW e \in Nodes \cup {NULL, Junk}, call' = [call EXCEPT ![t].it = e, ![t].at = s]
      PROVE  Turns(t, s, e, c.new_entry, c.level_for_tag)
  <2> DEFINE d == [c EXCEPT !.it = e, !.at = s]
  <2>1. d \in InCall /\ call' = [call EXCEPT ![t] = d]
    BY <1>1, <1>6 DEF InCall
  <2>2. /\ d.op = c.op /\ d.tag = c.tag /\ d.level = c.level /\ d.at = s /\ d.it = e
        /\ d.new_entry = c.new_entry /\ d.level_for_tag = c.level_for_tag
    BY <1>1 DEF InCall
  <2> HIDE DEF d
  <2> QED BY <1>3, <2>1, <2>2 DEF Turns
<1>7. ASSUME NEW n \in Nodes, call' = [call EXCEPT ![t].new_entry = n, ![t].at = s]
      PROVE  Turns(t, s, c.it, n, c.level_for_tag)
  <2> DEFINE d == [c EXCEPT !.new_entry = n, !.at = s]
  <2>1. d \in InCall /\ call' = [call EXCEPT ![t] = d]
    BY <1>1, <1>7 DEF InCall
  <2>2. /\ d.op = c.op /\ d.tag = c.tag /\ d.level = c.level /\ d.at = s /\ d.it = c.it
        /\ d.new_entry = n /\ d.level_for_tag = c.level_for_tag
    BY <1>1 DEF InCall
  <2> HIDE DEF d
  <2> QED BY <1>3, <2>1, <2>2 DEF Turns
<1>8. ASSUME NEW l \in Levels, call' = [call EXCEPT ![t].level_for_tag = l, ![t].at = s]
      PROVE  Turns(t, s, c.it, c.new_entry, l)
  <2> DEFINE d == [c EXCEPT !.level_for_tag = l, !.at = s]
  <2>1. d \in InCall /\ call' = [call EXCEPT ![t] = d]
    BY <1>1, <1>8 DEF InCall
  <2>2. /\ d.op = c.op /\ d.tag = c.tag /\ d.level = c.level /\ d.at = s /\ d.it = c.it
        /\ d.new_entry = c.new_entry /\ d.level_for_tag = l
    BY <1>1 DEF InCall
  <2> HIDE DEF d
  <2> QED BY <1>3, <2>1, <2>2 DEF Turns
<1> QED BY <1>4, <1>5, <1>6, <1>7, <1>8

(***************************************************************************)
(* The list without its first entry.                                       *)
(***************************************************************************)
LEMMA PoppedIsOK ==
  ASSUME TypeOK, TypeOK', ListOK, slh_first \in Nodes,
         slh_first' = node[slh_first].sle_next, UNCHANGED <<node, allocated>>
  PROVE  ListOK'
<1>1. /\ Last \in Nat \ {0} /\ Last' = Last
      /\ \A k \in 0 .. Last : k # Last => Entry'[k] = Entry[k + 1]
      /\ Entry'[Last] = NULL /\ NULL \notin Nodes
      /\ Listed' = Listed \ {slh_first}
  BY ListPops, TagListAssumption DEF Last
<1>2. \A k \in 0 .. Last : k # Last => k + 1 \in 0 .. Last
  BY <1>1
<1>3. \A k \in 0 .. Last : Entry'[k] \in Nodes \cup {NULL}
  BY <1>1, <1>2 DEF ListOK
<1>4. ASSUME NEW i \in 0 .. Last, NEW j \in 0 .. Last, Entry'[i] \in Nodes, Entry'[i] = Entry'[j]
      PROVE  i = j
  <2>1. i # Last /\ j # Last
    BY <1>1, <1>4
  <2>2. i + 1 = j + 1
    BY <1>1, <1>2, <1>4, <2>1 DEF ListOK
  <2> QED BY <1>1, <2>2
<1>5. /\ \A n \in Listed' :
           n \in allocated' /\ node'[n].tag \in Tags \ {Wildcard} /\ node'[n].level \in Levels
      /\ \A m, n \in Listed' : node'[m].tag = node'[n].tag => m = n
  BY <1>1 DEF ListOK
<1> QED BY <1>1, <1>3, <1>4, <1>5 DEF ListOK

(***************************************************************************)
(* The list with a new first entry of a tag that had none.                 *)
(***************************************************************************)
LEMMA GrownIsOK ==
  ASSUME TypeOK, TypeOK', ListOK, NEW n \in Nodes, n \notin Listed, n \in allocated,
         node[n].tag \in Tags \ {Wildcard}, node[n].level \in Levels, Absent(node[n].tag),
         slh_first' = n, node[n].sle_next = slh_first, UNCHANGED <<node, allocated>>
  PROVE  ListOK'
<1>1. /\ Last \in Nat \ {0} /\ Last' = Last /\ Entry'[0] = n
      /\ \A k \in 0 .. Last : k # Last => Entry'[k + 1] = Entry[k]
      /\ Entry'[Last] = NULL /\ NULL \notin Nodes
      /\ Listed' = Listed \cup {n}
  BY ListGrows, TagListAssumption DEF Last
<1>2. \A k \in 0 .. Last : k # 0 => k - 1 \in 0 .. Last /\ k - 1 # Last /\ (k - 1) + 1 = k
  BY <1>1
<1>3. \A k \in 0 .. Last : k # 0 => Entry'[k] = Entry[k - 1]
  <2> SUFFICES ASSUME NEW k \in 0 .. Last, k # 0 PROVE Entry'[k] = Entry[k - 1]
    OBVIOUS
  <2>1. Entry'[(k - 1) + 1] = Entry[k - 1]
    BY <1>1, <1>2
  <2> QED BY <1>2, <2>1
<1>4. \A k \in 0 .. Last : Entry'[k] \in Nodes \cup {NULL}
  BY <1>1, <1>2, <1>3 DEF ListOK
<1>5. \A k \in 0 .. Last : k # 0 => Entry'[k] # n
  BY <1>2, <1>3, ListedIs
<1>6. ASSUME NEW i \in 0 .. Last, NEW j \in 0 .. Last, Entry'[i] \in Nodes, Entry'[i] = Entry'[j]
      PROVE  i = j
  <2>1. CASE i = 0 \/ j = 0
    BY <1>1, <1>5, <1>6, <2>1
  <2>2. CASE i # 0 /\ j # 0
    <3>1. i - 1 = j - 1
      BY <1>2, <1>3, <1>6, <2>2 DEF ListOK
    <3> QED BY <1>1, <3>1
  <2> QED BY <2>1, <2>2
<1>7. /\ \A m \in Listed' :
           m \in allocated' /\ node'[m].tag \in Tags \ {Wildcard} /\ node'[m].level \in Levels
      /\ \A m, o \in Listed' : node'[m].tag = node'[o].tag => m = o
  BY <1>1 DEF ListOK, Absent
<1> QED BY <1>1, <1>4, <1>6, <1>7 DEF ListOK

(***************************************************************************)
(* Only the call that has the lock has a block in its hands.               *)
(***************************************************************************)
LEMMA HandsAre ==
  ASSUME HeapInv, NEW t \in Tasks, call[t] # NoCall
  PROVE  /\ holder = t /\ \A u \in Tasks : u # t => call[u] = NoCall
         /\ allocated = Listed \cup InHand(t) /\ InHand(t) \cap Listed = {}
<1>1. holder = t /\ \A u \in Tasks : u # t => call[u] = NoCall
  BY DEF HeapInv, OneCall
<1>2. \A u \in Tasks : u # t => InHand(u) = {}
  BY <1>1 DEF InHand, NoCall, At
<1>3. UNION {InHand(u) : u \in Tasks} = InHand(t)
  BY <1>2
<1> QED BY <1>1, <1>3 DEF HeapInv, NothingLeaks

NodeType == [tag : Tags \cup {Junk}, level : Levels \cup {Junk}, sle_next : Nodes \cup {NULL, Junk}]

(***************************************************************************)
(* The types after a turn.                                                 *)
(***************************************************************************)
LEMMA TurnTypes ==
  ASSUME HeapInv, NEW t \in Tasks, NEW s, NEW e, NEW n, NEW l, Turns(t, s, e, n, l),
         slh_first' \in Nodes \cup {NULL}, node' \in [Nodes -> NodeType],
         allocated' \subseteq Nodes, s_log_default_level' \in Levels, holder' = holder,
         s = "unlock" /\ call[t].op = "get" => l \in Levels
  PROVE  Typed'
<1>1. ASSUME NEW u \in Tasks
      PROVE  /\ call'[u] \in Calls
             /\ call'[u].at = "unlock" /\ call'[u].op = "get" => call'[u].level_for_tag \in Levels
  <2>1. CASE u = t
    BY <2>1 DEF Turns
  <2>2. CASE u # t
    BY <2>2 DEF Turns, HeapInv, Typed, TypeOK, At
  <2> QED BY <2>1, <2>2
<1>2. call' \in [Tasks -> Calls] /\ holder' \in Tasks \cup {NoTask}
  BY DEF Turns, HeapInv, Typed, TypeOK
<1> QED BY <1>1, <1>2 DEF Typed, TypeOK, NodeType, At

(***************************************************************************)
(* A turn keeps the invariant of the heap if it keeps the list and what    *)
(* the call has in its hands.                                              *)
(***************************************************************************)
LEMMA TurnKeepsHeap ==
  ASSUME HeapInv, NEW t \in Tasks, call[t] # NoCall, NEW s, NEW e, NEW n, NEW l,
         Turns(t, s, e, n, l), Typed', holder' = holder, ListOK', CallOK(t)',
         allocated' = Listed' \cup InHand(t)', InHand(t)' \cap Listed' = {}
  PROVE  HeapInv'
<1>1. holder = t /\ \A u \in Tasks : u # t => call'[u] = NoCall
  BY HandsAre DEF Turns
<1>2. \A u \in Tasks : u # t => InHand(u)' = {} /\ CallOK(u)'
  BY <1>1 DEF InHand, NoCall, At, CallOK
<1>3. UNION {InHand(u)' : u \in Tasks} = InHand(t)'
  BY <1>2
<1>4. OneCall'
  BY <1>1 DEF OneCall, Turns
<1>5. NothingLeaks'
  BY <1>2, <1>3 DEF NothingLeaks
<1> QED BY <1>2, <1>4, <1>5 DEF HeapInv

\* A statement of a call that keeps the lock.
Works(t) ==
  \/ SetDefault(t) \/ ClearTest(t) \/ RemoveHead(t) \/ Free(t)
  \/ NextEntry(t) \/ UpdateLevel(t) \/ ReadLevel(t) \/ TakeDefault(t)
  \/ Allocate(t) \/ AllocationFails(t) \/ Fill(t) \/ LinkNext(t) \/ InsertHead(t)

(***************************************************************************)
(* Every statement of a call keeps the heap.                               *)
(***************************************************************************)
LEMMA WorksKeepHeap ==
  ASSUME HeapInv, NEW t \in Tasks, Works(t)
  PROVE  HeapInv' /\ call[t] # NoCall
<1> DEFINE c == call[t]
<1>1. c # NoCall
  <2>1. c.at \in {"default", "clear", "remove", "free", "walk", "fill", "link", "insert"}
    BY DEF Works, SetDefault, ClearTest, RemoveHead, Free, NextEntry, UpdateLevel, ReadLevel,
           TakeDefault, Allocate, AllocationFails, Fill, LinkNext, InsertHead, Meets, At
  <2> QED BY <2>1, CallsAre
<1>2. call[t] # NoCall
  BY <1>1
<1>3. /\ Typed /\ TypeOK /\ ListOK /\ NULL \notin Nodes /\ Junk \notin Nodes \cup {NULL}
      /\ holder = t /\ \A u \in Tasks : u # t => call[u] = NoCall
      /\ allocated = Listed \cup InHand(t) /\ InHand(t) \cap Listed = {}
  BY <1>1, HandsAre, TagListAssumption DEF HeapInv, Typed
<1>4. /\ c \in InCall /\ c.at \in Stages /\ c.op \in {"set", "get"} /\ c.tag \in Tags
      /\ c.level \in Levels /\ c.it \in Nodes \cup {NULL, Junk}
      /\ c.new_entry \in Nodes \cup {Junk} /\ c.level_for_tag \in Levels \cup {Junk}
  BY <1>1, <1>3, CallsAre DEF Typed
<1>5. Progress(c.op, c.at, c.tag, c.level, c.it, c.new_entry)
  BY <1>1 DEF HeapInv, CallOK
<1>6. /\ slh_first \in Nodes \cup {NULL} /\ node \in [Nodes -> NodeType] /\ allocated \subseteq Nodes
      /\ s_log_default_level \in Levels /\ Listed \subseteq Nodes
      /\ \A n \in Nodes : /\ node[n].tag \in Tags \cup {Junk} /\ node[n].level \in Levels \cup {Junk}
                          /\ node[n].sle_next \in Nodes \cup {NULL, Junk}
  BY <1>3, ListedIs DEF TypeOK, NodeType
<1>7. \A s \in Stages : GoesTo(t, s) => Turns(t, s, c.it, c.new_entry, c.level_for_tag)
  BY <1>1, <1>3, TurnsAre
<1>8. {"default", "clear", "remove", "free", "walk", "fill", "link", "insert", "unlock"} = Stages
  BY DEF Stages
<1>9. ASSUME NEW n \in Nodes
      PROVE  /\ n \in Listed => n \in allocated /\ node[n].level \in Levels
             /\ n \in Listed => node[n].tag \in Tags \ {Wildcard}
  BY <1>3 DEF ListOK
\* A turn that writes neither the list nor the heap.
<1>10. ASSUME NEW s \in Stages, NEW e, NEW n, NEW l, Turns(t, s, e, n, l),
             UNCHANGED <<slh_first, node, allocated, holder>>,
             s_log_default_level' \in Levels, s = "unlock" /\ c.op = "get" => l \in Levels,
             Progress(c.op, s, c.tag, c.level, e, n),
             InHand(t)' = InHand(t)
      PROVE  HeapInv'
  <2>1. Typed'
    BY <1>3, <1>6, <1>10, TurnTypes DEF HeapInv
  <2>2. /\ ListOK' /\ Listed' = Listed
        /\ \A tag : Absent(tag)' <=> Absent(tag)
        /\ \A tag, it : Walked(tag, it) => Walked(tag, it)'
    BY <1>3, <1>6, <1>9, <1>10, <2>1, ListKept DEF Typed
  <2>3. CallOK(t)'
    BY <1>10, <2>2 DEF CallOK, Progress, Turns
  <2> HIDE DEF c
  <2> QED BY <1>2, <1>3, <1>10, <2>1, <2>2, <2>3, TurnKeepsHeap
<1>11. CASE SetDefault(t)
  <2>1. /\ c.at = "default" /\ s_log_default_level' = c.level /\ GoesTo(t, "clear")
        /\ UNCHANGED <<slh_first, node, allocated, holder>>
    BY <1>11 DEF SetDefault, At, heapVars
  <2>2. Turns(t, "clear", c.it, c.new_entry, c.level_for_tag)
    BY <1>7, <1>8, <2>1
  <2>3. Progress(c.op, "clear", c.tag, c.level, c.it, c.new_entry)
    BY <1>5, <2>1 DEF Progress
  <2>4. InHand(t)' = InHand(t)
    BY <2>1, <2>2 DEF InHand, At, Turns
  <2> QED BY <1>2, <1>4, <1>8, <1>10, <2>1, <2>2, <2>3, <2>4
<1>12. CASE ClearTest(t)
  <2> DEFINE s == IF slh_first = NULL THEN "unlock" ELSE "remove"
  <2>1. /\ c.at = "clear" /\ call' = [call EXCEPT ![t].it = slh_first, ![t].at = s]
        /\ UNCHANGED <<slh_first, node, allocated, holder, s_log_default_level>>
    BY <1>12 DEF ClearTest, At, heapVars
  <2>2. s \in Stages /\ s \in {"unlock", "remove"} /\ (s = "remove" => slh_first \in Nodes)
    BY <1>6, <1>8
  <2> HIDE DEF s
  <2>3. Turns(t, s, slh_first, c.new_entry, c.level_for_tag)
    BY <1>1, <1>3, <1>6, <2>1, <2>2, TurnsAre
  <2>4. c.op = "set" /\ c.tag = Wildcard
    BY <1>5, <2>1 DEF Progress
  <2>5. Progress(c.op, s, c.tag, c.level, slh_first, c.new_entry)
    BY <2>2, <2>4 DEF Progress
  <2>6. InHand(t)' = InHand(t)
    BY <2>1, <2>2, <2>3 DEF InHand, At, Turns
  <2> QED BY <1>2, <1>6, <1>8, <1>10, <2>1, <2>2, <2>3, <2>4, <2>5, <2>6
<1>13. CASE RemoveHead(t)
  <2>1. /\ c.at = "remove" /\ slh_first' = node[slh_first].sle_next /\ GoesTo(t, "free")
        /\ UNCHANGED <<node, allocated, holder, s_log_default_level>>
    BY <1>13 DEF RemoveHead, At
  <2>2. c.it = slh_first /\ slh_first \in Nodes /\ c.op = "set" /\ c.tag = Wildcard
    BY <1>5, <2>1 DEF Progress
  <2>3. Turns(t, "free", c.it, c.new_entry, c.level_for_tag)
    BY <1>7, <1>8, <2>1
  <2>4. slh_first' \in Nodes \cup {NULL} /\ slh_first \in Listed
    <3>1. EntryRuns /\ Last \in Nat /\ Entry[0] = slh_first /\ Entry[Last] = NULL
      BY <1>3, EntryIs, LastIs DEF EntryRuns, ListOK
    <3>2. Last # 0 /\ 0 \in 0 .. Last
      BY <1>3, <2>2, <3>1
    <3>3. 1 \in 1 .. Last /\ 1 \in 0 .. Last /\ 1 - 1 = 0
      BY <3>1, <3>2
    <3>4. Entry[1] = node[slh_first].sle_next
      BY <2>2, <3>1, <3>3 DEF EntryRuns
    <3> QED BY <1>3, <2>1, <2>2, <3>1, <3>2, <3>3, <3>4, ListedIs DEF ListOK
  <2>5. Typed'
    BY <1>3, <1>6, <2>1, <2>3, <2>4, TurnTypes DEF HeapInv
  <2>6. ListOK' /\ Listed' = Listed \ {slh_first}
    BY <1>3, <2>1, <2>2, <2>5, PoppedIsOK, ListPops DEF Typed
  <2>7. InHand(t) = {} /\ InHand(t)' = {slh_first}
    BY <2>1, <2>2, <2>3 DEF InHand, At, Turns
  <2>8. CallOK(t)'
    BY <2>2, <2>3 DEF CallOK, Progress, Turns
  <2>9. allocated' = Listed' \cup InHand(t)' /\ InHand(t)' \cap Listed' = {}
    BY <1>3, <2>1, <2>4, <2>6, <2>7
  <2> HIDE DEF c
  <2> QED BY <1>2, <1>3, <2>1, <2>3, <2>5, <2>6, <2>8, <2>9, TurnKeepsHeap
<1>14. CASE Free(t)
  <2>1. /\ c.at = "free" /\ allocated' = allocated \ {c.it} /\ GoesTo(t, "clear")
        /\ node' = [node EXCEPT ![c.it] = JunkNode]
        /\ UNCHANGED <<slh_first, holder, s_log_default_level>>
    BY <1>14 DEF Free, At
  <2>2. c.it \in Nodes /\ c.op = "set" /\ c.tag = Wildcard
    BY <1>5, <2>1 DEF Progress
  <2>3. Turns(t, "clear", c.it, c.new_entry, c.level_for_tag)
    BY <1>7, <1>8, <2>1
  <2>4. InHand(t) = {c.it} /\ InHand(t)' = {}
    BY <2>1, <2>2, <2>3 DEF InHand, At, Turns
  <2>5. allocated' \subseteq Nodes /\ allocated' = Listed /\ c.it \notin Listed
    BY <1>3, <1>6, <2>1, <2>4
  <2>6. node' \in [Nodes -> NodeType] /\ \A n \in Listed : node'[n] = node[n]
    <3>1. JunkNode \in NodeType
      BY DEF JunkNode, NodeType
    <3> HIDE DEF c
    <3> QED BY <1>6, <2>1, <2>2, <2>5, <3>1
  <2>7. Typed'
    BY <1>3, <1>6, <2>1, <2>3, <2>5, <2>6, TurnTypes DEF HeapInv
  <2>8. ListOK' /\ Listed' = Listed
    BY <1>3, <1>6, <1>9, <2>1, <2>5, <2>6, <2>7, ListKept DEF Typed
  <2>9. CallOK(t)'
    BY <2>2, <2>3 DEF CallOK, Progress, Turns
  <2>10. allocated' = Listed' \cup InHand(t)' /\ InHand(t)' \cap Listed' = {}
    BY <2>4, <2>5, <2>8
  <2> HIDE DEF c
  <2> QED BY <1>2, <1>3, <2>1, <2>3, <2>7, <2>8, <2>9, <2>10, TurnKeepsHeap
<1>15. CASE NextEntry(t)
  <2>1. /\ c.at = "walk" /\ c.it # NULL /\ node[c.it].tag # c.tag
        /\ call' = [call EXCEPT ![t].it = node[c.it].sle_next]
        /\ UNCHANGED <<slh_first, node, allocated, holder, s_log_default_level>>
    BY <1>15 DEF NextEntry, Meets, At, heapVars
  <2>2. Walked(c.tag, c.it)
    BY <1>5, <2>1 DEF Progress
  <2>3. c.it \in Nodes /\ Walked(c.tag, node[c.it].sle_next)
    BY <1>3, <1>6, <2>1, <2>2, WalkIs
  <2> DEFINE e == node[c.it].sle_next
  <2>4. Turns(t, "walk", e, c.new_entry, c.level_for_tag)
    <3>1. e \in Nodes \cup {NULL, Junk}
      BY <1>6, <2>3
    <3> HIDE DEF e
    <3>2. Turns(t, c.at, e, c.new_entry, c.level_for_tag)
      BY <1>1, <1>3, <1>4, <2>1, <3>1, TurnsAre DEF e
    <3> QED BY <2>1, <3>2
  <2> HIDE DEF e
  <2>5. Progress(c.op, "walk", c.tag, c.level, e, c.new_entry)
    BY <1>5, <2>1, <2>3 DEF Progress, e
  <2>6. InHand(t)' = InHand(t)
    BY <2>1, <2>4 DEF InHand, At, Turns
  <2> QED BY <1>2, <1>6, <1>8, <1>10, <2>1, <2>4, <2>5, <2>6
<1>16. CASE UpdateLevel(t)
  <2>1. /\ c.at = "walk" /\ c.it # NULL /\ node[c.it].tag = c.tag /\ c.op = "set"
        /\ node' = [node EXCEPT ![c.it].level = c.level] /\ GoesTo(t, "unlock")
        /\ UNCHANGED <<slh_first, allocated, holder, s_log_default_level>>
    BY <1>16 DEF UpdateLevel, Meets, At
  <2>2. c.it \in Listed
    BY <1>3, <1>5, <2>1, WalkIs DEF Progress
  <2>3. Turns(t, "unlock", c.it, c.new_entry, c.level_for_tag)
    BY <1>7, <1>8, <2>1
  <2>4. /\ node' \in [Nodes -> NodeType]
        /\ \A n \in Nodes : /\ node'[n].sle_next = node[n].sle_next /\ node'[n].tag = node[n].tag
                            /\ node'[n].level = IF n = c.it THEN c.level ELSE node[n].level
    <3>1. c.it \in Nodes /\ c.level \in Levels
      BY <1>4, <1>6, <2>2
    <3> HIDE DEF c
    <3> QED BY <1>6, <2>1, <3>1 DEF NodeType
  <2>5. Typed'
    BY <1>3, <1>6, <2>1, <2>3, <2>4, TurnTypes DEF HeapInv
  <2>6. ListOK' /\ Listed' = Listed
    BY <1>3, <1>4, <1>6, <1>9, <2>1, <2>4, <2>5, ListKept DEF Typed
  <2>7. InHand(t) = {} /\ InHand(t)' = {}
    BY <2>1, <2>3 DEF InHand, At, Turns
  <2>8. CallOK(t)'
    BY <2>3 DEF CallOK, Progress, Turns
  <2> HIDE DEF c
  <2> QED BY <1>2, <1>3, <2>1, <2>3, <2>5, <2>6, <2>7, <2>8, TurnKeepsHeap
<1>17. CASE ReadLevel(t)
  <2> DEFINE l == node[c.it].level
  <2>1. /\ c.at = "walk" /\ c.it # NULL /\ c.op = "get"
        /\ call' = [call EXCEPT ![t].level_for_tag = l, ![t].at = "unlock"]
        /\ UNCHANGED <<slh_first, node, allocated, holder, s_log_default_level>>
    BY <1>17 DEF ReadLevel, Meets, At, heapVars
  <2>2. l \in Levels
    BY <1>3, <1>5, <1>6, <1>9, <2>1, WalkIs DEF Progress
  <2> HIDE DEF l
  <2>3. Turns(t, "unlock", c.it, c.new_entry, l)
    BY <1>1, <1>3, <1>8, <2>1, <2>2, TurnsAre
  <2>4. Progress(c.op, "unlock", c.tag, c.level, c.it, c.new_entry)
    BY DEF Progress
  <2>5. InHand(t)' = InHand(t)
    BY <2>1, <2>3 DEF InHand, At, Turns
  <2> QED BY <1>2, <1>6, <1>8, <1>10, <2>1, <2>2, <2>3, <2>4, <2>5
<1>18. CASE TakeDefault(t)
  <2>1. /\ c.at = "walk"
        /\ call' = [call EXCEPT ![t].level_for_tag = s_log_default_level, ![t].at = "unlock"]
        /\ UNCHANGED <<slh_first, node, allocated, holder, s_log_default_level>>
    BY <1>18 DEF TakeDefault, At, heapVars
  <2>2. Turns(t, "unlock", c.it, c.new_entry, s_log_default_level)
    BY <1>1, <1>3, <1>6, <1>8, <2>1, TurnsAre
  <2>3. Progress(c.op, "unlock", c.tag, c.level, c.it, c.new_entry)
    BY DEF Progress
  <2>4. InHand(t)' = InHand(t)
    BY <2>1, <2>2 DEF InHand, At, Turns
  <2> QED BY <1>2, <1>6, <1>8, <1>10, <2>1, <2>2, <2>3, <2>4
<1>19. CASE AllocationFails(t)
  <2>1. /\ c.at = "walk" /\ c.op = "set" /\ GoesTo(t, "unlock")
        /\ UNCHANGED <<slh_first, node, allocated, holder, s_log_default_level>>
    BY <1>19 DEF AllocationFails, At, heapVars
  <2>2. Turns(t, "unlock", c.it, c.new_entry, c.level_for_tag)
    BY <1>7, <1>8, <2>1
  <2>3. Progress(c.op, "unlock", c.tag, c.level, c.it, c.new_entry)
    BY DEF Progress
  <2>4. InHand(t)' = InHand(t)
    BY <2>1, <2>2 DEF InHand, At, Turns
  <2> QED BY <1>2, <1>6, <1>8, <1>10, <2>1, <2>2, <2>3, <2>4
<1>20. CASE Allocate(t)
  <2>1. PICK n \in Nodes \ allocated :
          allocated' = allocated \cup {n} /\ call' = [call EXCEPT ![t].new_entry = n, ![t].at = "fill"]
    BY <1>20 DEF Allocate
  <2>2. /\ c.at = "walk" /\ c.it = NULL /\ c.op = "set"
        /\ UNCHANGED <<slh_first, node, holder, s_log_default_level>>
    BY <1>20 DEF Allocate, At
  <2>3. n \in Nodes /\ n \notin Listed /\ c.tag # Wildcard /\ Absent(c.tag)
    BY <1>3, <1>5, <2>1, <2>2, WalkIs DEF Progress
  <2>4. Turns(t, "fill", c.it, n, c.level_for_tag)
    BY <1>1, <1>3, <1>8, <2>1, <2>3, TurnsAre
  <2>5. Typed'
    <3>1. allocated' \subseteq Nodes
      BY <1>6, <2>1, <2>3
    <3> QED BY <1>3, <1>6, <2>2, <2>4, <3>1, TurnTypes DEF HeapInv
  <2>6. ListOK' /\ Listed' = Listed /\ Absent(c.tag)'
    <3>1. \A m \in Listed : /\ node'[m].sle_next = node[m].sle_next /\ node'[m].tag = node[m].tag
                            /\ node'[m].level \in Levels /\ m \in allocated'
      BY <1>6, <1>9, <2>1, <2>2
    <3>2. /\ ListOK' /\ Listed' = Listed
      BY <1>3, <2>2, <2>5, <3>1, ListKept DEF Typed
    <3>3. \A m \in Listed' : node'[m].tag # c.tag
      BY <2>2, <2>3, <3>2 DEF Absent
    <3> QED BY <2>4, <3>2, <3>3 DEF Absent, Turns
  <2>7. InHand(t) = {} /\ InHand(t)' = {n}
    BY <2>2, <2>3, <2>4 DEF InHand, At, Turns
  <2>8. CallOK(t)'
    BY <2>2, <2>3, <2>4, <2>6 DEF CallOK, Progress, Turns
  <2>9. allocated' = Listed' \cup InHand(t)' /\ InHand(t)' \cap Listed' = {}
    BY <1>3, <2>1, <2>3, <2>6, <2>7
  <2> HIDE DEF c
  <2> QED BY <1>2, <1>3, <2>2, <2>4, <2>5, <2>6, <2>8, <2>9, TurnKeepsHeap
\* The new entry is written while it is in the hands of the call.
<1>21. ASSUME NEW s \in {"link", "insert"}, c.at \in {"fill", "link"},
              Turns(t, s, c.it, c.new_entry, c.level_for_tag),
              UNCHANGED <<slh_first, allocated, holder, s_log_default_level>>,
              node' \in [Nodes -> NodeType], \A m \in Nodes : m # c.new_entry => node'[m] = node[m],
              node'[c.new_entry].tag = c.tag, node'[c.new_entry].level = c.level,
              s = "insert" => node'[c.new_entry].sle_next = slh_first
       PROVE  HeapInv'
  <2>1. c.op = "set" /\ c.new_entry \in Nodes /\ c.tag # Wildcard /\ Absent(c.tag)
    BY <1>5, <1>21 DEF Progress
  <2>2. InHand(t) = {c.new_entry} /\ InHand(t)' = {c.new_entry}
    BY <1>21, <2>1 DEF InHand, At, Turns
  <2>3. c.new_entry \notin Listed
    BY <1>3, <2>2
  <2>4. Typed'
    BY <1>3, <1>6, <1>21, TurnTypes DEF HeapInv
  <2>5. /\ ListOK' /\ Listed' = Listed
    <3>1. \A m \in Listed : /\ node'[m].sle_next = node[m].sle_next /\ node'[m].tag = node[m].tag
                            /\ node'[m].level \in Levels /\ m \in allocated'
      BY <1>6, <1>9, <1>21, <2>3
    <3> QED BY <1>3, <1>21, <2>4, <3>1, ListKept DEF Typed
  <2>6. \A m \in Listed' : node'[m].tag # c.tag
    BY <1>6, <1>21, <2>1, <2>3, <2>5 DEF Absent
  <2>7. CallOK(t)'
    BY <1>21, <2>1, <2>6 DEF CallOK, Progress, Turns, Absent
  <2>8. allocated' = Listed' \cup InHand(t)' /\ InHand(t)' \cap Listed' = {}
    BY <1>3, <1>21, <2>2, <2>5
  <2> HIDE DEF c
  <2> QED BY <1>2, <1>3, <1>21, <2>4, <2>5, <2>7, <2>8, TurnKeepsHeap
<1>22. CASE Fill(t)
  <2>1. /\ c.at = "fill" /\ GoesTo(t, "link")
        /\ node' = [node EXCEPT ![c.new_entry].level = c.level, ![c.new_entry].tag = c.tag]
        /\ UNCHANGED <<slh_first, allocated, holder, s_log_default_level>>
    BY <1>22 DEF Fill, At
  <2>2. c.new_entry \in Nodes
    BY <1>5, <2>1 DEF Progress
  <2>3. Turns(t, "link", c.it, c.new_entry, c.level_for_tag)
    BY <1>7, <1>8, <2>1
  <2>4. /\ node' \in [Nodes -> NodeType] /\ \A m \in Nodes : m # c.new_entry => node'[m] = node[m]
        /\ node'[c.new_entry].tag = c.tag /\ node'[c.new_entry].level = c.level
    <3> HIDE DEF c
    <3> QED BY <1>4, <1>6, <2>1, <2>2 DEF NodeType
  <2> HIDE DEF c
  <2> QED BY <1>2, <1>21, <2>1, <2>3, <2>4
<1>23. CASE LinkNext(t)
  <2>1. /\ c.at = "link" /\ GoesTo(t, "insert")
        /\ node' = [node EXCEPT ![c.new_entry].sle_next = slh_first]
        /\ UNCHANGED <<slh_first, allocated, holder, s_log_default_level>>
    BY <1>23 DEF LinkNext, At
  <2>2. c.new_entry \in Nodes /\ node[c.new_entry].tag = c.tag /\ node[c.new_entry].level = c.level
    BY <1>5, <2>1 DEF Progress
  <2>3. Turns(t, "insert", c.it, c.new_entry, c.level_for_tag)
    BY <1>7, <1>8, <2>1
  <2>4. /\ node' \in [Nodes -> NodeType] /\ \A m \in Nodes : m # c.new_entry => node'[m] = node[m]
        /\ node'[c.new_entry].tag = c.tag /\ node'[c.new_entry].level = c.level
        /\ node'[c.new_entry].sle_next = slh_first
    <3> HIDE DEF c
    <3> QED BY <1>4, <1>6, <2>1, <2>2 DEF NodeType
  <2> HIDE DEF c
  <2> QED BY <1>2, <1>21, <2>1, <2>3, <2>4
<1>24. CASE InsertHead(t)
  <2>1. /\ c.at = "insert" /\ slh_first' = c.new_entry /\ GoesTo(t, "unlock")
        /\ UNCHANGED <<node, allocated, holder, s_log_default_level>>
    BY <1>24 DEF InsertHead, At
  <2> DEFINE n == c.new_entry
  <2>2. /\ n \in Nodes /\ node[n].tag = c.tag /\ node[n].level = c.level
        /\ node[n].sle_next = slh_first /\ c.op = "set" /\ c.tag # Wildcard /\ Absent(c.tag)
    BY <1>5, <2>1 DEF Progress
  <2>3. Turns(t, "unlock", c.it, n, c.level_for_tag)
    BY <1>7, <1>8, <2>1
  <2>4. Typed'
    BY <1>3, <1>6, <2>1, <2>2, <2>3, TurnTypes DEF HeapInv
  <2>5. InHand(t) = {n} /\ InHand(t)' = {}
    BY <2>1, <2>2, <2>3 DEF InHand, At, Turns
  <2>6. n \notin Listed /\ n \in allocated
    BY <1>3, <2>5
  <2>7. ListOK' /\ Listed' = Listed \cup {n}
    <3> HIDE DEF n, c
    <3>1. slh_first' = n /\ node[n].tag \in Tags \ {Wildcard} /\ node[n].level \in Levels /\ Absent(node[n].tag)
      BY <1>4, <2>1, <2>2 DEF n
    <3> QED BY <1>3, <2>1, <2>2, <2>4, <2>6, <3>1, GrownIsOK, ListGrows DEF Typed
  <2>8. CallOK(t)'
    BY <2>3 DEF CallOK, Progress, Turns
  <2>9. allocated' = Listed' \cup InHand(t)' /\ InHand(t)' \cap Listed' = {}
    BY <1>3, <2>1, <2>5, <2>7
  <2> HIDE DEF c, n
  <2> QED BY <1>2, <1>3, <2>1, <2>3, <2>4, <2>7, <2>8, <2>9, TurnKeepsHeap
<1>25. HeapInv'
  BY <1>11, <1>12, <1>13, <1>14, <1>15, <1>16, <1>17, <1>18, <1>19, <1>20, <1>22, <1>23, <1>24 DEF Works
<1> QED BY <1>1, <1>25

(***************************************************************************)
(* A list without a head has no entry.                                     *)
(***************************************************************************)
LEMMA EmptyIs ==
  ASSUME TypeOK, slh_first = NULL
  PROVE  (\A k \in 0 .. Last : Entry[k] = NULL) /\ Listed = {} /\ ListOK
<1>1. Last \in Nat /\ EntryRuns /\ NULL \notin Nodes
  BY LastIs, EntryIs, TagListAssumption
<1>2. 0 \in 0 .. Last /\ Last \in 0 .. Last /\ Entry[0] = NULL /\ \A k \in 0 .. Last : 0 <= k
  BY <1>1 DEF EntryRuns
<1>3. \A k \in 0 .. Last : Entry[k] = NULL
  BY <1>2, AfterEnd
<1>4. Listed = {}
  BY <1>1, <1>3, ListedIs
<1> QED BY <1>1, <1>2, <1>3, <1>4 DEF ListOK

(***************************************************************************)
(* The lock is taken, or not, and given back: the list stays as it is.     *)
(***************************************************************************)
LEMMA LockKeepsHeap ==
  ASSUME HeapInv, NEW t \in Tasks, Enter(t) \/ LockTimesOut(t) \/ Unlock(t)
  PROVE  HeapInv'
<1>1. /\ Typed /\ TypeOK /\ ListOK /\ NoTask \notin Tasks /\ Calls = {NoCall} \cup InCall
      /\ call \in [Tasks -> Calls]
      /\ UNCHANGED <<slh_first, node, allocated, s_log_default_level>>
  BY TagListAssumption, CallsAre DEF HeapInv, Typed, Enter, LockTimesOut, Unlock, heapVars
<1>2. \A n \in Listed : /\ node'[n].sle_next = node[n].sle_next /\ node'[n].tag = node[n].tag
                        /\ node'[n].level \in Levels /\ n \in allocated'
  BY <1>1 DEF ListOK
<1>3. ASSUME Typed'
      PROVE  /\ ListOK' /\ Listed' = Listed
             /\ \A tag : Absent(tag)' <=> Absent(tag)
             /\ \A tag, it : Walked(tag, it) => Walked(tag, it)'
  BY <1>1, <1>2, <1>3, ListKept DEF Typed
<1>4. \A u \in Tasks : call[u] = NoCall => InHand(u) = {}
  BY CallsAre DEF InHand, At
<1>5. CASE Enter(t)
  <2>1. PICK op \in {"set", "get"}, tag \in Tags, level \in Levels :
          call' = [call EXCEPT ![t] =
                     [op |-> op, tag |-> tag, level |-> level,
                      at |-> IF op = "set" /\ tag = Wildcard THEN "default" ELSE "walk",
                      it |-> IF op = "set" /\ tag = Wildcard THEN Junk ELSE slh_first,
                      new_entry |-> Junk, level_for_tag |-> Junk]]
    BY <1>5 DEF Enter
  <2>2. call[t] = NoCall /\ holder = NoTask /\ holder' = t
    BY <1>5 DEF Enter, Lock!Acquire
  <2> DEFINE all == op = "set" /\ tag = Wildcard
             c == [op |-> op, tag |-> tag, level |-> level,
                   at |-> IF all THEN "default" ELSE "walk",
                   it |-> IF all THEN Junk ELSE slh_first,
                   new_entry |-> Junk, level_for_tag |-> Junk]
  <2>3. /\ c \in InCall /\ c.op = op /\ c.tag = tag /\ c.level = level
        /\ c.at = IF all THEN "default" ELSE "walk"
        /\ ~all => c.it = slh_first
    BY <1>1 DEF InCall, TypeOK, Stages
  <2>4. call' = [call EXCEPT ![t] = c]
    BY <2>1
  <2> HIDE DEF c
  <2>5. /\ call' \in [Tasks -> Calls] /\ call'[t] = c /\ c # NoCall
        /\ \A u \in Tasks : u # t => call'[u] = call[u]
    BY <1>1, <2>3, <2>4, CallsAre
  <2>6. \A u \in Tasks : call[u] = NoCall
    BY <1>1, <2>2 DEF HeapInv, OneCall
  <2>7. Typed'
    <3>1. \A u \in Tasks : call'[u].at # "unlock"
      BY <2>3, <2>5, <2>6, CallsAre
    <3> QED BY <1>1, <2>2, <2>5, <3>1 DEF Typed, TypeOK, At
  <2>8. OneCall'
    BY <1>1, <2>2, <2>5, <2>6 DEF OneCall
  <2>9. \A u \in Tasks : InHand(u) = {} /\ InHand(u)' = {}
    <3>1. \A u \in Tasks : call'[u].at \notin {"fill", "link", "insert", "free"}
      BY <2>3, <2>5, <2>6, CallsAre
    <3> QED BY <1>4, <2>6, <3>1 DEF InHand, At
  <2>10. NothingLeaks'
    BY <1>1, <1>3, <2>7, <2>9 DEF HeapInv, NothingLeaks
  <2>11. Walked(tag, slh_first)'
    <3>1. EntryRuns /\ Last \in Nat
      BY <1>1, EntryIs, LastIs
    <3>2. 0 \in 0 .. Last /\ (\A j \in 0 .. 0 - 1 : FALSE) /\ Entry[0] = slh_first
      BY <3>1 DEF EntryRuns
    <3>3. Walked(tag, slh_first)
      BY <3>2 DEF Walked
    <3>4. \A x, it : Walked(x, it) => Walked(x, it)'
      BY <1>3, <2>7
    <3> DEFINE e == slh_first
    <3> HIDE DEF e
    <3> QED BY <1>1, <3>3, <3>4 DEF Walked
  <2>12. \A u \in Tasks : CallOK(u)'
    <3>1. CallOK(t)'
      BY <1>1, <2>3, <2>5, <2>11 DEF CallOK, Progress
    <3>2. \A u \in Tasks : u # t => CallOK(u)'
      BY <2>5, <2>6 DEF CallOK
    <3> QED BY <3>1, <3>2
  <2> QED BY <1>3, <2>7, <2>8, <2>10, <2>12 DEF HeapInv
<1>6. CASE LockTimesOut(t)
  <2>1. call' = call /\ holder' = holder
    BY <1>6 DEF LockTimesOut, Lock!Refused
  <2>2. Typed'
    BY <1>1, <2>1 DEF Typed, TypeOK, At
  <2>3. \A u \in Tasks : InHand(u)' = InHand(u) /\ CallOK(u)'
    BY <1>1, <1>3, <2>1, <2>2 DEF InHand, At, HeapInv, CallOK, Progress
  <2>4. NothingLeaks'
    BY <1>1, <1>3, <2>2, <2>3 DEF HeapInv, NothingLeaks
  <2> QED BY <1>3, <2>1, <2>2, <2>3, <2>4 DEF HeapInv, OneCall
<1>7. CASE Unlock(t)
  <2>1. call[t].at = "unlock" /\ holder = t /\ holder' = NoTask /\ call' = [call EXCEPT ![t] = NoCall]
    BY <1>7 DEF Unlock, At, Lock!Release
  <2>2. \A u \in Tasks : call'[u] = NoCall
    BY <1>1, <2>1 DEF HeapInv, OneCall
  <2>3. Typed'
    <3>1. call' \in [Tasks -> Calls]
      BY <1>1, <2>1
    <3> QED BY <1>1, <2>1, <2>2, <3>1, CallsAre DEF Typed, TypeOK, At
  <2>4. \A u \in Tasks : InHand(u) = {} /\ InHand(u)' = {}
    <3>1. \A u \in Tasks : call[u].at \in {"unlock", "idle"} /\ call'[u].at = "idle"
      BY <2>1, <2>2, CallsAre DEF HeapInv, OneCall
    <3> QED BY <3>1 DEF InHand, At
  <2>5. NothingLeaks'
    BY <1>1, <1>3, <2>3, <2>4 DEF HeapInv, NothingLeaks
  <2>6. \A u \in Tasks : CallOK(u)'
    BY <2>2 DEF CallOK
  <2>7. OneCall'
    BY <1>1, <2>1, <2>2 DEF OneCall
  <2> QED BY <1>3, <2>3, <2>5, <2>6, <2>7 DEF HeapInv
<1> QED BY <1>5, <1>6, <1>7

(***************************************************************************)
(* The invariant of the heap holds at all times.                           *)
(***************************************************************************)
LEMMA HeapInvInit == Init => HeapInv
<1> SUFFICES ASSUME Init PROVE HeapInv
  OBVIOUS
<1>1. /\ slh_first = NULL /\ node = [n \in Nodes |-> JunkNode] /\ allocated = {}
      /\ s_log_default_level = DEFAULT_LOG_LEVEL /\ holder = NoTask
      /\ call = [u \in Tasks |-> NoCall]
  BY DEF Init, Lock!Init
<1>2. JunkNode \in NodeType /\ NoCall \in Calls /\ NoCall.at = "idle"
  BY CallsAre DEF JunkNode, NodeType
<1>3. Typed
  BY <1>1, <1>2, TagListAssumption DEF Typed, TypeOK, NodeType, At
<1>4. ListOK /\ Listed = {}
  BY <1>1, <1>3, EmptyIs DEF Typed
<1>5. \A u \in Tasks : InHand(u) = {} /\ CallOK(u)
  BY <1>1, <1>2 DEF InHand, At, CallOK
<1>6. NothingLeaks
  BY <1>1, <1>4, <1>5 DEF NothingLeaks
<1>7. OneCall
  BY <1>1, TagListAssumption DEF OneCall
<1> QED BY <1>3, <1>4, <1>5, <1>6, <1>7 DEF HeapInv

(***************************************************************************)
(* Every step, of the call with the lock or of another task, keeps the     *)
(* invariant of the heap.                                                  *)
(***************************************************************************)
LEMMA HeapInvStep == ASSUME HeapInv, [Next]_vars PROVE HeapInv'
<1>1. CASE UNCHANGED vars
  <2>1. UNCHANGED <<slh_first, node, allocated, s_log_default_level, holder, call>>
    BY <1>1 DEF vars, heapVars
  <2>2. Typed'
    BY <2>1 DEF HeapInv, Typed, TypeOK, At
  <2>3. /\ ListOK' /\ Listed' = Listed
        /\ \A tag : Absent(tag)' <=> Absent(tag)
        /\ \A tag, it : Walked(tag, it) => Walked(tag, it)'
    BY <2>1, <2>2, ListKept DEF HeapInv, Typed, ListOK
  <2>4. \A u \in Tasks : InHand(u)' = InHand(u) /\ CallOK(u)'
    BY <2>1, <2>3 DEF InHand, At, HeapInv, CallOK, Progress
  <2>5. NothingLeaks'
    BY <2>1, <2>3, <2>4 DEF HeapInv, NothingLeaks
  <2> QED BY <2>1, <2>2, <2>3, <2>4, <2>5 DEF HeapInv, OneCall
<1>2. CASE Next
  <2>1. \E t \in Tasks : Works(t) \/ Enter(t) \/ LockTimesOut(t) \/ Unlock(t)
    BY <1>2 DEF Next, Step, Works
  <2> QED BY <2>1, WorksKeepHeap, LockKeepsHeap
<1> QED BY <1>1, <1>2

(***************************************************************************)
(* The invariant of the heap holds at all times.                           *)
(***************************************************************************)
LEMMA HeapInvHolds == Spec => []HeapInv
BY HeapInvInit, HeapInvStep, PTL DEF Spec

(***************************************************************************)
(* The types of the list, the blocks and the locals: among them that a     *)
(* lookup has read a level before it answers.                              *)
(***************************************************************************)
THEOREM TagListTypes == Spec => []TypeOK
<1>1. HeapInv => TypeOK
  BY DEF HeapInv, Typed
<1> QED BY HeapInvHolds, <1>1, PTL

(***************************************************************************)
(* No pointer of the list or of a walk dangles, for any number of tasks    *)
(* and of blocks.                                                          *)
(***************************************************************************)
THEOREM ListIsSafe == Spec => []MemorySafe
<1>1. HeapInv => MemorySafe
  <2> SUFFICES ASSUME HeapInv PROVE MemorySafe
    OBVIOUS
  <2>1. \A t \in Tasks : call[t].at = "walk" => call[t].it \in Listed \cup {NULL}
    <3> SUFFICES ASSUME NEW t \in Tasks, call[t].at = "walk"
                 PROVE  call[t].it \in Listed \cup {NULL}
      OBVIOUS
    <3>1. Walked(call[t].tag, call[t].it)
      BY CallsAre DEF HeapInv, CallOK, Progress
    <3> QED BY <3>1, WalkIs DEF HeapInv, Typed
  <2> QED BY <2>1 DEF HeapInv, ListOK, MemorySafe, At, Last
<1> QED BY HeapInvHolds, <1>1, PTL

(***************************************************************************)
(* Every block malloc gave out is in the list or in the hands of the call  *)
(* that has the lock.                                                      *)
(***************************************************************************)
THEOREM NoBlockIsLost == Spec => []NothingLeaks
<1>1. HeapInv => NothingLeaks
  BY DEF HeapInv
<1> QED BY HeapInvHolds, <1>1, PTL

-----------------------------------------------------------------------------
(* The levels *)

IsFunction(f) == f = [x \in DOMAIN f |-> f[x]]

(***************************************************************************)
(* A walk finds the one entry that has the tag.                            *)
(***************************************************************************)
LEMMA FoundIs ==
  ASSUME HeapInv, NEW n \in Listed
  PROVE  Found(node[n].tag) = n
<1> DEFINE tag == node[n].tag
           First(k) == /\ Entry[k] \in Nodes /\ node[Entry[k]].tag = tag
                       /\ \A j \in 0 .. k - 1 : node[Entry[j]].tag # tag
           f == CHOOSE k \in 0 .. Last : First(k)
<1>1. /\ Last \in Nat /\ EntryRuns /\ NULL \notin Nodes /\ TypeOK /\ ListOK
  BY LastIs, EntryIs, TagListAssumption DEF HeapInv, Typed
<1>2. PICK k \in 0 .. Last : Entry[k] = n /\ n \in Nodes
  BY ListedIs
<1>3. First(k)
  <2> SUFFICES ASSUME NEW j \in 0 .. k - 1 PROVE node[Entry[j]].tag # tag
    BY <1>2
  <2>1. j \in 0 .. Last /\ j <= k /\ j # k
    BY <1>1
  <2>2. Entry[j] # NULL
    BY <1>1, <1>2, <2>1, AfterEnd
  <2>3. Entry[j] \in Listed
    BY <1>1, <2>1, <2>2, ListedIs DEF ListOK
  <2> QED BY <1>1, <1>2, <2>1, <2>3 DEF ListOK
<1>4. f \in 0 .. Last /\ First(f)
  <2> HIDE DEF First
  <2> QED BY <1>3
<1>5. Found(tag) = Entry[f]
  BY DEF Found, Last
<1> HIDE DEF f
<1>6. Entry[f] \in Listed /\ node[Entry[f]].tag = node[n].tag
  BY <1>4, ListedIs
<1> QED BY <1>1, <1>5, <1>6 DEF ListOK

(***************************************************************************)
(* The levels in force are what the entries say.                           *)
(***************************************************************************)
LEMMA LevelsAre ==
  ASSUME HeapInv
  PROVE  /\ LevelsInForce = [defaultLevel |-> LevelsInForce.defaultLevel,
                             override |-> LevelsInForce.override]
         /\ LevelsInForce.defaultLevel = s_log_default_level
         /\ IsFunction(LevelsInForce.override) /\ Agrees(LevelsInForce.override)
<1> DEFINE o == [tag \in {node[n].tag : n \in Listed} |-> node[Found(tag)].level]
<1>1. LevelsInForce = [defaultLevel |-> s_log_default_level, override |-> o]
  BY DEF LevelsInForce
<1>2. IsFunction(o) /\ DOMAIN o = {node[n].tag : n \in Listed}
  BY DEF IsFunction
<1>3. \A n \in Listed : o[node[n].tag] = node[n].level
  BY FoundIs
<1> HIDE DEF o
<1> QED BY <1>1, <1>2, <1>3 DEF Agrees

(***************************************************************************)
(* One function agrees with the list.                                      *)
(***************************************************************************)
LEMMA OneAgrees ==
  ASSUME NEW f, NEW g, IsFunction(f), IsFunction(g), Agrees(f), Agrees(g)
  PROVE  f = g
<1>1. DOMAIN f = DOMAIN g
  BY DEF Agrees
<1>2. \A x \in DOMAIN f : f[x] = g[x]
  BY DEF Agrees
<1>3. f = [x \in DOMAIN f |-> f[x]] /\ g = [x \in DOMAIN f |-> g[x]]
  BY <1>1 DEF IsFunction
<1> QED BY <1>2, <1>3

(***************************************************************************)
(* The levels do not see a change elsewhere in the heap.                   *)
(***************************************************************************)
LEMMA AgreesStays ==
  ASSUME Listed' = Listed,
         \A n \in Listed : node'[n].tag = node[n].tag /\ node'[n].level = node[n].level
  PROVE  /\ \A f : Agrees(f)' <=> Agrees(f)
         /\ UNCHANGED <<committed, s_log_default_level>> => (Kept' <=> Kept)
         /\ \A tag : Absent(tag)' <=> Absent(tag)
<1>1. {node'[n].tag : n \in Listed'} = {node[n].tag : n \in Listed}
  <2>1. {node'[n].tag : n \in Listed} = {node[n].tag : n \in Listed}
    OBVIOUS
  <2> QED BY <2>1
<1>2. ASSUME NEW f
      PROVE  Agrees(f)' <=> Agrees(f)
  BY <1>1 DEF Agrees
<1>3. ASSUME UNCHANGED <<committed, s_log_default_level>>
      PROVE  Kept' <=> Kept
  <2>1. Agrees(committed.override)' <=> Agrees(committed.override)
    BY <1>1, <1>3 DEF Agrees
  <2> QED BY <1>3, <2>1 DEF Kept
<1>4. \A tag : Absent(tag)' <=> Absent(tag)
  BY DEF Absent
<1> QED BY <1>2, <1>3, <1>4

(***************************************************************************)
(* A turn keeps the levels if what the call makes of them is right.        *)
(***************************************************************************)
LEMMA TurnKeepsLevels ==
  ASSUME LevelsInv, HeapInv', NEW t \in Tasks, call[t] # NoCall,
         \A u \in Tasks : u # t => call'[u] = call[u],
         UNCHANGED <<committed, holder>>, ServesCall(t)'
  PROVE  LevelsInv'
<1>1. holder = t /\ holder' # NoTask /\ \A u \in Tasks : u # t => call'[u] = NoCall
  BY HandsAre, TagListAssumption DEF LevelsInv
<1>2. \A u \in Tasks : u # t => ServesCall(u)'
  BY <1>1 DEF ServesCall
<1> QED BY <1>1, <1>2 DEF LevelsInv

(***************************************************************************)
(* Every statement of a call keeps the levels.                             *)
(***************************************************************************)
LEMMA WorksKeepLevels ==
  ASSUME LevelsInv, NEW t \in Tasks, Works(t)
  PROVE  LevelsInv'
<1> DEFINE c == call[t]
<1>1. HeapInv /\ HeapInv' /\ call[t] # NoCall
  BY WorksKeepHeap DEF LevelsInv
<1>2. /\ Typed /\ TypeOK /\ TypeOK' /\ ListOK /\ NULL \notin Nodes
      /\ allocated = Listed \cup InHand(t) /\ InHand(t) \cap Listed = {}
      /\ Listed \subseteq Nodes
  BY <1>1, HandsAre, ListedIs, TagListAssumption DEF HeapInv, Typed
<1>3. /\ c \in InCall /\ c.at \in Stages /\ c.op \in {"set", "get"} /\ c.tag \in Tags
      /\ c.level \in Levels /\ c.it \in Nodes \cup {NULL, Junk}
      /\ c.new_entry \in Nodes \cup {Junk} /\ c.level_for_tag \in Levels \cup {Junk}
  BY <1>1, <1>2, CallsAre DEF Typed
<1>4. /\ Progress(c.op, c.at, c.tag, c.level, c.it, c.new_entry)
      /\ Serves(c.op, c.at, c.tag, c.level, c.level_for_tag)
  BY <1>1 DEF HeapInv, CallOK, LevelsInv, ServesCall
<1>5. /\ slh_first \in Nodes \cup {NULL} /\ node \in [Nodes -> NodeType]
      /\ s_log_default_level \in Levels
      /\ \A n \in Nodes : /\ node[n].tag \in Tags \cup {Junk} /\ node[n].level \in Levels \cup {Junk}
                          /\ node[n].sle_next \in Nodes \cup {NULL, Junk}
      /\ \A n \in Listed : n \in allocated /\ node[n].level \in Levels
  BY <1>2 DEF TypeOK, NodeType, ListOK
<1>6. \A s \in Stages : GoesTo(t, s) => Turns(t, s, c.it, c.new_entry, c.level_for_tag)
  BY <1>1, <1>2, TurnsAre
<1>7. /\ "default" \in Stages /\ "clear" \in Stages /\ "remove" \in Stages /\ "free" \in Stages
      /\ "walk" \in Stages /\ "fill" \in Stages /\ "link" \in Stages /\ "insert" \in Stages
      /\ "unlock" \in Stages
  BY DEF Stages
<1>8. UNCHANGED <<committed, holder>>
  BY DEF Works, SetDefault, ClearTest, RemoveHead, Free, NextEntry, UpdateLevel, ReadLevel,
         TakeDefault, Allocate, AllocationFails, Fill, LinkNext, InsertHead, specVars
\* A turn that leaves the entries as they are.
<1>9. ASSUME NEW s \in Stages, NEW e, NEW n, NEW l, Turns(t, s, e, n, l),
             slh_first' = slh_first, s_log_default_level' = s_log_default_level,
             \A m \in Listed : node'[m] = node[m] /\ m \in allocated',
             c.op = "get" \/ s \in {"default", "walk", "fill", "link", "insert"} => Kept,
             c.op = "get" /\ s = "unlock" =>
               l = IF c.tag \in DOMAIN committed.override
                   THEN committed.override[c.tag] ELSE committed.defaultLevel,
             s \in {"clear", "remove", "free"} => s_log_default_level = c.level,
             c.op = "set" /\ s = "unlock" =>
               IF c.tag = Wildcard THEN s_log_default_level = c.level /\ Listed = {}
                                   ELSE Kept /\ Absent(c.tag)
      PROVE  LevelsInv'
  <2>1. Listed' = Listed
    BY <1>2, <1>5, <1>9, ListKept
  <2>2. (Kept => Kept') /\ \A tag : Absent(tag)' <=> Absent(tag)
    BY <1>8, <1>9, <2>1, AgreesStays
  <2>3. /\ call'[t].op = c.op /\ call'[t].at = s /\ call'[t].tag = c.tag /\ call'[t].level = c.level
        /\ call'[t].level_for_tag = l /\ \A u \in Tasks : u # t => call'[u] = call[u]
    BY <1>9 DEF Turns
  <2>4. ServesCall(t)'
    BY <1>3, <1>8, <1>9, <2>1, <2>2, <2>3 DEF ServesCall, Serves
  <2> HIDE DEF c
  <2> QED BY <1>1, <1>8, <2>3, <2>4, TurnKeepsLevels
<1>10. CASE SetDefault(t)
  <2>1. /\ c.at = "default" /\ s_log_default_level' = c.level /\ GoesTo(t, "clear")
    BY <1>10 DEF SetDefault, At
  <2>2. Turns(t, "clear", c.it, c.new_entry, c.level_for_tag) /\ c.op = "set"
    BY <1>4, <1>6, <1>7, <2>1 DEF Progress
  <2>3. ServesCall(t)'
    BY <2>1, <2>2 DEF ServesCall, Serves, Turns
  <2> QED BY <1>1, <1>8, <2>2, <2>3, TurnKeepsLevels DEF Turns
<1>11. CASE ClearTest(t)
  <2> DEFINE s == IF slh_first = NULL THEN "unlock" ELSE "remove"
  <2>1. /\ c.at = "clear" /\ call' = [call EXCEPT ![t].it = slh_first, ![t].at = s]
        /\ UNCHANGED <<slh_first, node, allocated, s_log_default_level>>
    BY <1>11 DEF ClearTest, At, heapVars
  <2>2. s \in {"unlock", "remove"} /\ s \in Stages /\ (s = "unlock" => Listed = {})
    BY <1>2, <1>7, EmptyIs
  <2> HIDE DEF s
  <2>3. Turns(t, s, slh_first, c.new_entry, c.level_for_tag)
    BY <1>1, <1>2, <1>5, <2>1, <2>2, TurnsAre
  <2>4. c.op = "set" /\ c.tag = Wildcard /\ s_log_default_level = c.level
    BY <1>4, <2>1 DEF Progress, Serves
  <2>5. \A m \in Listed : node'[m] = node[m] /\ m \in allocated'
    BY <1>5, <2>1
  <2> HIDE DEF c
  <2> QED BY <1>9, <2>1, <2>2, <2>3, <2>4, <2>5
<1>12. ASSUME NEW s \in {"clear", "free"}, c.at \in {"remove", "free"},
              GoesTo(t, s), s_log_default_level' = s_log_default_level
       PROVE  LevelsInv'
  <2>1. Turns(t, s, c.it, c.new_entry, c.level_for_tag)
    BY <1>6, <1>7, <1>12
  <2>2. c.op = "set" /\ s_log_default_level = c.level
    BY <1>4, <1>12 DEF Progress, Serves
  <2>3. ServesCall(t)'
    BY <1>12, <2>1, <2>2 DEF ServesCall, Serves, Turns
  <2> QED BY <1>1, <1>8, <2>1, <2>3, TurnKeepsLevels DEF Turns
<1>13. CASE RemoveHead(t) \/ Free(t)
  BY <1>12, <1>13 DEF RemoveHead, Free, At
<1>14. CASE NextEntry(t)
  <2> DEFINE e == node[c.it].sle_next
  <2>1. /\ c.at = "walk" /\ c.it # NULL /\ call' = [call EXCEPT ![t].it = e]
        /\ UNCHANGED <<slh_first, node, allocated, s_log_default_level>>
    BY <1>14 DEF NextEntry, At, heapVars
  <2>2. c.it \in Nodes
    BY <1>2, <1>4, <2>1, WalkIs DEF Progress
  <2>3. e \in Nodes \cup {NULL, Junk}
    BY <1>5, <2>2
  <2> HIDE DEF e
  <2>4. Turns(t, "walk", e, c.new_entry, c.level_for_tag)
    <3>1. Turns(t, c.at, e, c.new_entry, c.level_for_tag)
      BY <1>1, <1>2, <1>3, <2>1, <2>3, TurnsAre
    <3> QED BY <2>1, <3>1
  <2>5. \A m \in Listed : node'[m] = node[m] /\ m \in allocated'
    BY <1>5, <2>1
  <2>6. Kept
    BY <1>4, <2>1 DEF Serves
  <2> HIDE DEF c
  <2> QED BY <1>7, <1>9, <2>1, <2>4, <2>5, <2>6
<1>15. CASE ReadLevel(t)
  <2> DEFINE l == node[c.it].level
  <2>1. /\ c.at = "walk" /\ c.it # NULL /\ node[c.it].tag = c.tag /\ c.op = "get"
        /\ call' = [call EXCEPT ![t].level_for_tag = l, ![t].at = "unlock"]
        /\ UNCHANGED <<slh_first, node, allocated, s_log_default_level>>
    BY <1>15 DEF ReadLevel, Meets, At, heapVars
  <2>2. c.it \in Listed /\ l \in Levels /\ Kept
    BY <1>2, <1>4, <1>5, <2>1, WalkIs DEF Progress, Serves
  <2>3. c.tag \in DOMAIN committed.override /\ committed.override[c.tag] = l
    BY <2>1, <2>2 DEF Kept, Agrees
  <2> HIDE DEF l
  <2>4. Turns(t, "unlock", c.it, c.new_entry, l)
    BY <1>1, <1>2, <1>7, <2>1, <2>2, TurnsAre
  <2>5. \A m \in Listed : node'[m] = node[m] /\ m \in allocated'
    BY <1>5, <2>1
  <2> HIDE DEF c
  <2> QED BY <1>7, <1>9, <2>1, <2>2, <2>3, <2>4, <2>5
<1>16. CASE TakeDefault(t)
  <2> DEFINE l == s_log_default_level
  <2>1. /\ c.at = "walk" /\ c.it = NULL /\ c.op = "get"
        /\ call' = [call EXCEPT ![t].level_for_tag = l, ![t].at = "unlock"]
        /\ UNCHANGED <<slh_first, node, allocated, s_log_default_level>>
    BY <1>16 DEF TakeDefault, At, heapVars
  <2>2. Absent(c.tag) /\ Kept
    BY <1>2, <1>4, <2>1, WalkIs DEF Progress, Serves
  <2>3. c.tag \notin DOMAIN committed.override /\ committed.defaultLevel = l
    BY <2>2 DEF Kept, Agrees, Absent
  <2>4. Turns(t, "unlock", c.it, c.new_entry, l)
    BY <1>1, <1>2, <1>5, <1>7, <2>1, TurnsAre
  <2>5. \A m \in Listed : node'[m] = node[m] /\ m \in allocated'
    BY <1>5, <2>1
  <2> HIDE DEF c
  <2> QED BY <1>7, <1>9, <2>1, <2>2, <2>3, <2>4, <2>5
<1>17. CASE AllocationFails(t)
  <2>1. /\ c.at = "walk" /\ c.it = NULL /\ c.op = "set" /\ GoesTo(t, "unlock")
        /\ UNCHANGED <<slh_first, node, allocated, s_log_default_level>>
    BY <1>17 DEF AllocationFails, At, heapVars
  <2>2. Absent(c.tag) /\ Kept /\ c.tag # Wildcard
    BY <1>2, <1>4, <2>1, WalkIs DEF Progress, Serves
  <2>3. Turns(t, "unlock", c.it, c.new_entry, c.level_for_tag)
    BY <1>6, <1>7, <2>1
  <2>4. \A m \in Listed : node'[m] = node[m] /\ m \in allocated'
    BY <1>5, <2>1
  <2> HIDE DEF c
  <2> QED BY <1>7, <1>9, <2>1, <2>2, <2>3, <2>4
<1>18. CASE Allocate(t)
  <2>1. PICK n \in Nodes \ allocated :
          allocated' = allocated \cup {n} /\ call' = [call EXCEPT ![t].new_entry = n, ![t].at = "fill"]
    BY <1>18 DEF Allocate
  <2>2. c.at = "walk" /\ c.op = "set" /\ UNCHANGED <<slh_first, node, s_log_default_level>>
    BY <1>18 DEF Allocate, At
  <2>3. Turns(t, "fill", c.it, n, c.level_for_tag)
    BY <1>1, <1>2, <1>7, <2>1, TurnsAre
  <2>4. \A m \in Listed : node'[m] = node[m] /\ m \in allocated'
    BY <1>5, <2>1, <2>2
  <2>5. Kept
    BY <1>4, <2>2 DEF Serves
  <2> HIDE DEF c
  <2> QED BY <1>7, <1>9, <2>2, <2>3, <2>4, <2>5
<1>19. CASE Fill(t) \/ LinkNext(t)
  <2> DEFINE s == IF c.at = "fill" THEN "link" ELSE "insert"
  <2>1. /\ c.at \in {"fill", "link"} /\ GoesTo(t, s)
        /\ \A m \in Nodes : m # c.new_entry => node'[m] = node[m]
        /\ UNCHANGED <<slh_first, allocated, s_log_default_level>>
    <3>1. CASE Fill(t)
      BY <1>5, <3>1 DEF Fill, At
    <3>2. CASE LinkNext(t)
      BY <1>5, <3>2 DEF LinkNext, At
    <3> QED BY <1>19, <3>1, <3>2
  <2>2. s \in Stages /\ s \in {"link", "insert"}
    BY <1>7
  <2> HIDE DEF s
  <2>3. Turns(t, s, c.it, c.new_entry, c.level_for_tag)
    BY <1>6, <2>1, <2>2
  <2>4. c.new_entry \notin Listed /\ Kept /\ c.op = "set"
    BY <1>2, <1>4, <2>1 DEF Progress, Serves, InHand
  <2>5. \A m \in Listed : node'[m] = node[m] /\ m \in allocated'
    BY <1>2, <1>5, <2>1, <2>4
  <2> HIDE DEF c
  <2> QED BY <1>7, <1>9, <2>1, <2>2, <2>3, <2>4, <2>5
\* The level of the tag is the one of the call.
<1>20. ASSUME c.op = "set", c.tag # Wildcard, GoesTo(t, "unlock"), Kept,
              s_log_default_level' = s_log_default_level,
              {node'[m].tag : m \in Listed'} = {node[m].tag : m \in Listed} \cup {c.tag},
              \A m \in Listed' : IF node'[m].tag = c.tag THEN node'[m].level = c.level
                                 ELSE m \in Listed /\ node'[m] = node[m]
       PROVE  LevelsInv'
  <2> DEFINE f == committed.override
             g == With(f, c.tag, c.level)
  <2>1. /\ DOMAIN f = {node[m].tag : m \in Listed}
        /\ \A m \in Listed : f[node[m].tag] = node[m].level
        /\ committed.defaultLevel = s_log_default_level
    BY <1>20 DEF Kept, Agrees
  <2>2. DOMAIN g = DOMAIN f \cup {c.tag}
        /\ \A x \in DOMAIN f \cup {c.tag} : g[x] = IF x = c.tag THEN c.level ELSE f[x]
    BY DEF With
  <2>3. Turns(t, "unlock", c.it, c.new_entry, c.level_for_tag)
    BY <1>6, <1>7, <1>20
  <2>4. With(committed'.override, call'[t].tag, call'[t].level) = g
    BY <1>8, <2>3 DEF Turns
  <2> HIDE DEF g
  <2>5. DOMAIN g = {node'[m].tag : m \in Listed'}
    BY <1>20, <2>1, <2>2
  <2>6. \A m \in Listed' : g[node'[m].tag] = node'[m].level
    <3> SUFFICES ASSUME NEW m \in Listed' PROVE g[node'[m].tag] = node'[m].level
      OBVIOUS
    <3>1. node'[m].tag \in DOMAIN f \cup {c.tag}
      BY <2>2, <2>5
    <3>2. CASE node'[m].tag = c.tag
      BY <1>20, <2>2, <3>1, <3>2
    <3>3. CASE node'[m].tag # c.tag
      BY <1>20, <2>1, <2>2, <3>1, <3>3
    <3> QED BY <3>2, <3>3
  <2>7. Agrees(With(committed.override, call[t].tag, call[t].level))'
    BY <2>4, <2>5, <2>6 DEF Agrees
  <2>8. committed'.defaultLevel = s_log_default_level'
    BY <1>8, <1>20, <2>1
  <2>9. ServesCall(t)'
    BY <1>20, <2>3, <2>7, <2>8 DEF ServesCall, Serves, Turns
  <2> QED BY <1>1, <1>8, <2>3, <2>9, TurnKeepsLevels DEF Turns
<1>21. CASE UpdateLevel(t)
  <2>1. /\ c.at = "walk" /\ c.it # NULL /\ node[c.it].tag = c.tag /\ c.op = "set"
        /\ node' = [node EXCEPT ![c.it].level = c.level] /\ GoesTo(t, "unlock")
        /\ UNCHANGED <<slh_first, allocated, s_log_default_level>>
    BY <1>21 DEF UpdateLevel, Meets, At
  <2>2. c.it \in Listed /\ c.tag # Wildcard /\ Kept
    BY <1>2, <1>4, <2>1, WalkIs DEF Progress, Serves
  <2>3. \A n \in Nodes : /\ node'[n].sle_next = node[n].sle_next /\ node'[n].tag = node[n].tag
                         /\ node'[n].level = IF n = c.it THEN c.level ELSE node[n].level
                         /\ n # c.it => node'[n] = node[n]
    <3>1. c.it \in Nodes
      BY <1>2, <2>2
    <3> HIDE DEF c
    <3> QED BY <1>5, <2>1, <3>1 DEF NodeType
  <2>4. Listed' = Listed
    BY <1>2, <1>3, <1>5, <2>1, <2>3, ListKept
  <2>5. {node'[m].tag : m \in Listed'} = {node[m].tag : m \in Listed} \cup {c.tag}
    <3>1. {node'[m].tag : m \in Listed} = {node[m].tag : m \in Listed}
      BY <1>2, <2>3
    <3>2. c.tag \in {node[m].tag : m \in Listed}
      BY <2>1, <2>2
    <3> QED BY <2>4, <3>1, <3>2
  <2>6. \A m \in Listed' : IF node'[m].tag = c.tag THEN node'[m].level = c.level
                           ELSE m \in Listed /\ node'[m] = node[m]
    BY <1>2, <2>1, <2>2, <2>3, <2>4 DEF ListOK
  <2> HIDE DEF c
  <2> QED BY <1>20, <2>1, <2>2, <2>5, <2>6
<1>22. CASE InsertHead(t)
  <2> DEFINE n == c.new_entry
  <2>1. /\ c.at = "insert" /\ slh_first' = n /\ GoesTo(t, "unlock")
        /\ UNCHANGED <<node, allocated, s_log_default_level>>
    BY <1>22 DEF InsertHead, At
  <2>2. /\ n \in Nodes /\ node[n].tag = c.tag /\ node[n].level = c.level
        /\ node[n].sle_next = slh_first /\ c.op = "set" /\ c.tag # Wildcard /\ Absent(c.tag) /\ Kept
    BY <1>4, <2>1 DEF Progress, Serves
  <2>3. n \notin Listed
    BY <1>2, <2>1, <2>2 DEF InHand
  <2>4. Listed' = Listed \cup {n}
    <3> HIDE DEF n
    <3> QED BY <1>2, <2>1, <2>2, <2>3, ListGrows
  <2> HIDE DEF n
  <2>5. {node'[m].tag : m \in Listed'} = {node[m].tag : m \in Listed} \cup {c.tag}
    BY <2>1, <2>2, <2>4
  <2>6. \A m \in Listed' : IF node'[m].tag = c.tag THEN node'[m].level = c.level
                           ELSE m \in Listed /\ node'[m] = node[m]
    BY <2>1, <2>2, <2>4 DEF Absent
  <2> HIDE DEF c
  <2> QED BY <1>20, <2>1, <2>2, <2>5, <2>6
<1> QED BY <1>10, <1>11, <1>13, <1>14, <1>15, <1>16, <1>17, <1>18, <1>19, <1>21, <1>22 DEF Works

\* What a step shows of the registry.
RegistryVars == <<committed.defaultLevel, committed.override, reply>>

(***************************************************************************)
(* A call that gets the lock finds the levels of the last release; one     *)
(* that does not gets a no.                                                *)
(***************************************************************************)
LEMMA EntryKeepsLevels ==
  ASSUME LevelsInv, NEW t \in Tasks, Enter(t) \/ LockTimesOut(t)
  PROVE  LevelsInv'
<1>1. HeapInv /\ HeapInv' /\ Listed \subseteq Nodes
  BY LockKeepsHeap, ListedIs DEF LevelsInv
<1>2. UNCHANGED <<slh_first, node, allocated, s_log_default_level, committed>>
  BY DEF Enter, LockTimesOut, heapVars, specVars
<1>3. Listed' = Listed
  BY <1>1, <1>2, ListKept DEF HeapInv, Typed, ListOK
<1>4. Kept' <=> Kept
  BY <1>2, <1>3, AgreesStays
<1>5. \A tag : Absent(tag)' <=> Absent(tag)
  BY <1>2, <1>3, AgreesStays
<1>6. CASE Enter(t)
  <2>1. PICK op \in {"set", "get"}, tag \in Tags, level \in Levels :
          call' = [call EXCEPT ![t] =
                     [op |-> op, tag |-> tag, level |-> level,
                      at |-> IF op = "set" /\ tag = Wildcard THEN "default" ELSE "walk",
                      it |-> IF op = "set" /\ tag = Wildcard THEN Junk ELSE slh_first,
                      new_entry |-> Junk, level_for_tag |-> Junk]]
    BY <1>6 DEF Enter
  <2>2. call[t] = NoCall /\ holder = NoTask /\ holder' = t
    BY <1>6 DEF Enter, Lock!Acquire
  <2>3. call'[t].at \in {"default", "walk"}
    BY <1>1, <2>1 DEF HeapInv, Typed
  <2>4. \A u \in Tasks : u # t => call'[u] = NoCall
    BY <1>1, <2>2, TagListAssumption DEF HeapInv, OneCall
  <2>5. Kept'
    BY <1>4, <2>2 DEF LevelsInv
  <2>6. ServesCall(t)'
    BY <2>3, <2>5 DEF ServesCall, Serves
  <2>7. \A u \in Tasks : u # t => ServesCall(u)'
    BY <2>4 DEF ServesCall
  <2> QED BY <1>1, <1>2, <2>5, <2>6, <2>7 DEF LevelsInv
<1>7. CASE LockTimesOut(t)
  <2>1. call' = call /\ holder' = holder
    BY <1>7 DEF LockTimesOut, Lock!Refused
  <2>2. ASSUME NEW u \in Tasks
        PROVE  ServesCall(u)'
    <3> DEFINE f == With(committed.override, call[u].tag, call[u].level)
    <3>1. \A g : Agrees(g)' <=> Agrees(g)
      BY <1>2, <1>3, AgreesStays
    <3>2. With(committed.override, call[u].tag, call[u].level)' = f
      BY <1>2, <2>1
    <3>3. Agrees(f)' <=> Agrees(f)
      <4>1. {node'[n].tag : n \in Listed'} = {node[n].tag : n \in Listed}
        BY <1>2, <1>3
      <4>2. f' = f
        BY <3>2
      <4> HIDE DEF f
      <4> QED BY <1>2, <1>3, <4>1, <4>2 DEF Agrees
    <3> QED BY <1>2, <1>3, <1>4, <1>5, <2>1, <3>3 DEF ServesCall, Serves, LevelsInv
  <2> QED BY <1>1, <1>2, <1>4, <2>1, <2>2 DEF LevelsInv
<1> QED BY <1>6, <1>7

(***************************************************************************)
(* The release makes the levels of the list the ones in force, and what it *)
(* has made of the former ones is a call of the registry.                  *)
(***************************************************************************)
LEMMA UnlockServes ==
  ASSUME LevelsInv, NEW t \in Tasks, Unlock(t)
  PROVE  LevelsInv' /\ Registry!Next
<1> DEFINE c == call[t]
           L == LevelsInForce
<1>1. HeapInv /\ HeapInv' /\ Listed \subseteq Nodes /\ Typed
  BY LockKeepsHeap, ListedIs DEF LevelsInv, HeapInv
<1>2. /\ c.at = "unlock" /\ holder = t /\ holder' = NoTask /\ committed' = L
      /\ call' = [call EXCEPT ![t] = NoCall]
      /\ UNCHANGED <<slh_first, node, allocated, s_log_default_level>>
      /\ reply' = IF c.op = "set" THEN [tag |-> NULL]
                  ELSE [tag |-> c.tag, level |-> c.level, visible |-> c.level <= c.level_for_tag]
  BY DEF Unlock, Lock!Release, At, heapVars
<1>3. /\ L = [defaultLevel |-> L.defaultLevel, override |-> L.override]
      /\ L.defaultLevel = s_log_default_level /\ IsFunction(L.override) /\ Agrees(L.override)
  BY <1>1, LevelsAre
<1> HIDE DEF L
<1>4. Listed' = Listed
  BY <1>1, <1>2, ListKept DEF HeapInv, Typed, ListOK
<1>5. LevelsInv'
  <2>1. Kept'
    <3>1. Agrees(committed.override)'
      <4>1. {node'[n].tag : n \in Listed'} = {node[n].tag : n \in Listed}
        BY <1>2, <1>4
      <4> QED BY <1>2, <1>3, <1>4, <4>1 DEF Agrees
    <3> QED BY <1>2, <1>3, <3>1 DEF Kept
  <2>2. \A u \in Tasks : call'[u] = NoCall
    BY <1>1, <1>2 DEF HeapInv, OneCall, Typed
  <2>3. \A u \in Tasks : ServesCall(u)'
    BY <2>2 DEF ServesCall
  <2> QED BY <1>1, <1>2, <1>3, <2>1, <2>3 DEF LevelsInv, IsFunction
<1>6. c # NoCall /\ c.op \in {"set", "get"} /\ c.tag \in Tags /\ c.level \in Levels
  BY <1>1, <1>2, CallsAre DEF Typed
<1>7. Serves(c.op, "unlock", c.tag, c.level, c.level_for_tag)
  BY <1>2, <1>6 DEF LevelsInv, ServesCall
<1>8. IsFunction(committed.override)
  BY DEF LevelsInv, IsFunction
<1>9. Kept => L.override = committed.override /\ L.defaultLevel = committed.defaultLevel
  BY <1>3, <1>8, OneAgrees DEF Kept
<1> HIDE DEF c
<1>10. CASE c.op = "get"
  <2>1. Kept
    BY <1>7, <1>10 DEF Serves
  <2>2. Registry!Ask(c.tag, c.level)
    BY <1>2, <1>6, <1>7, <1>9, <1>10, <2>1 DEF Serves, Registry!Ask, Registry!Effective
  <2> QED BY <1>5, <1>6, <2>2 DEF Registry!Next
<1>11. CASE c.op = "set" /\ c.tag = Wildcard
  <2>1. s_log_default_level = c.level /\ Listed = {}
    BY <1>7, <1>11 DEF Serves
  <2>2. L.override = [name \in {} |-> c.level]
    BY <1>3, <2>1 DEF Agrees, IsFunction
  <2>3. Registry!Set(c.tag, c.level)
    BY <1>2, <1>3, <1>6, <1>11, <2>1, <2>2 DEF Registry!Set, Registry!SetAll
  <2> QED BY <1>5, <1>6, <2>3 DEF Registry!Next
<1>12. CASE c.op = "set" /\ c.tag # Wildcard
  <2>1. CASE Kept /\ Absent(c.tag)
    <3>1. c.tag \notin DOMAIN committed.override
      BY <2>1 DEF Kept, Agrees, Absent
    <3>2. Registry!SetNothing(c.tag)
      BY <1>2, <1>9, <1>12, <2>1, <3>1 DEF Registry!SetNothing
    <3>3. Registry!Set(c.tag, c.level)
      BY <1>6, <1>12, <3>2 DEF Registry!Set
    <3> QED BY <1>5, <1>6, <3>3 DEF Registry!Next
  <2>2. CASE /\ committed.defaultLevel = s_log_default_level
             /\ Agrees(With(committed.override, c.tag, c.level))
    <3>1. IsFunction(With(committed.override, c.tag, c.level))
      BY DEF With, IsFunction
    <3>2. L.override = With(committed.override, c.tag, c.level)
      BY <1>3, <2>2, <3>1, OneAgrees
    <3>3. Registry!SetOne(c.tag, c.level)
      BY <1>2, <1>3, <1>12, <2>2, <3>2 DEF Registry!SetOne, With
    <3>4. Registry!Set(c.tag, c.level)
      BY <1>6, <1>12, <3>3 DEF Registry!Set
    <3> QED BY <1>5, <1>6, <3>4 DEF Registry!Next
  <2> QED BY <1>7, <1>12, <2>1, <2>2 DEF Serves
<1> QED BY <1>6, <1>10, <1>11, <1>12

(***************************************************************************)
(* The invariant of the levels holds at all times.                         *)
(***************************************************************************)
LEMMA LevelsInvInit == Init => LevelsInv /\ Registry!Init
<1> SUFFICES ASSUME Init PROVE LevelsInv /\ Registry!Init
  OBVIOUS
<1>1. HeapInv
  BY HeapInvInit
<1>2. /\ slh_first = NULL /\ s_log_default_level = DEFAULT_LOG_LEVEL /\ committed = LevelsInForce
      /\ call = [u \in Tasks |-> NoCall] /\ reply = [tag |-> NULL]
  BY DEF Init
<1>3. Listed = {}
  BY <1>1, <1>2, EmptyIs DEF HeapInv, Typed
<1>4. /\ committed = [defaultLevel |-> committed.defaultLevel, override |-> committed.override]
      /\ committed.defaultLevel = s_log_default_level
      /\ IsFunction(committed.override) /\ Agrees(committed.override)
  BY <1>1, <1>2, LevelsAre
<1>5. LevelsInv
  BY <1>1, <1>2, <1>4 DEF LevelsInv, Kept, IsFunction, ServesCall
<1>6. committed.override = [name \in {} |-> DEFAULT_LOG_LEVEL]
  BY <1>3, <1>4 DEF Agrees, IsFunction
<1> QED BY <1>2, <1>4, <1>5, <1>6 DEF Registry!Init

(***************************************************************************)
(* Every step keeps the invariant of the levels, and is a step of the      *)
(* registry when it releases the lock and a stutter of it otherwise.       *)
(***************************************************************************)
LEMMA LevelsInvStep ==
  ASSUME LevelsInv, [Next]_vars
  PROVE  LevelsInv' /\ [Registry!Next]_RegistryVars
<1>1. CASE UNCHANGED vars
  <2>1. UNCHANGED <<slh_first, node, allocated, s_log_default_level, holder, call, committed, reply>>
    BY <1>1 DEF vars, heapVars, specVars
  <2>2. HeapInv'
    BY <1>1, HeapInvStep DEF LevelsInv
  <2>3. Entry' = Entry
    BY <2>1 DEF Entry
  <2>4. Listed' = Listed
    BY <2>3 DEF Listed
  <2>5. UNCHANGED <<Kept, RegistryVars>> /\ \A u \in Tasks : ServesCall(u)' = ServesCall(u)
    BY <2>1, <2>4 DEF Kept, Agrees, ServesCall, Serves, Absent, RegistryVars
  <2> QED BY <2>1, <2>2, <2>5 DEF LevelsInv
<1>2. ASSUME NEW t \in Tasks, Works(t)
      PROVE  LevelsInv' /\ [Registry!Next]_RegistryVars
  <2>1. UNCHANGED RegistryVars
    BY <1>2 DEF Works, SetDefault, ClearTest, RemoveHead, Free, NextEntry, UpdateLevel, ReadLevel,
         TakeDefault, Allocate, AllocationFails, Fill, LinkNext, InsertHead, specVars, RegistryVars
  <2> QED BY <1>2, <2>1, WorksKeepLevels
<1>3. ASSUME NEW t \in Tasks, Enter(t)
      PROVE  LevelsInv' /\ [Registry!Next]_RegistryVars
  BY <1>3, EntryKeepsLevels DEF Enter, specVars, RegistryVars
<1>4. ASSUME NEW t \in Tasks, LockTimesOut(t)
      PROVE  LevelsInv' /\ [Registry!Next]_RegistryVars
  <2>1. PICK tag \in Tags, level \in Levels : reply' = [tag |-> tag, level |-> level, visible |-> FALSE]
    BY <1>4 DEF LockTimesOut
  <2>2. committed' = committed
    BY <1>4 DEF LockTimesOut
  <2>3. Registry!Refuse(tag, level)
    BY <2>1, <2>2 DEF Registry!Refuse
  <2> QED BY <1>4, <2>3, EntryKeepsLevels DEF Registry!Next
<1>5. ASSUME NEW t \in Tasks, Unlock(t)
      PROVE  LevelsInv' /\ [Registry!Next]_RegistryVars
  BY <1>5, UnlockServes
<1> QED BY <1>1, <1>2, <1>3, <1>4, <1>5 DEF Next, Step, Works

(***************************************************************************)
(* The statements on the pointers, seen at every release of the lock, are  *)
(* the calls of the registry of levels, for any number of tasks, blocks,   *)
(* tags and levels, and with failing allocations.                          *)
(***************************************************************************)
THEOREM ListServesRegistry == Spec => ImplementsRegistry
<1>1. Init => LevelsInv /\ Registry!Init
  BY LevelsInvInit
<1>2. LevelsInv /\ [Next]_vars => LevelsInv' /\ [Registry!Next]_<<committed.defaultLevel, committed.override, reply>>
  BY LevelsInvStep DEF RegistryVars
<1> QED BY <1>1, <1>2, PTL DEF Spec, ImplementsRegistry, Registry!Spec
=============================================================================
