----------------------------- MODULE RecencyCache -----------------------------
(***************************************************************************)
(* What the tag cache of log.c promises about replacement: it holds at     *)
(* most Capacity tags in an order of age; a full cache makes the tag it    *)
(* answers for the youngest, and gives the place of the OLDEST tag to a    *)
(* new one.  While it fills, the order is the order of arrival.            *)
(***************************************************************************)
EXTENDS Integers, FiniteSets

CONSTANTS Tags, Capacity

VARIABLES
  cached,   \* the tags in the cache
  older     \* the pairs of them, the older one first

Full == Cardinality(cached) = Capacity

\* The order when the tags in `kept` stay and `tag` becomes the youngest.
WithYoungest(kept, tag) ==
  (older \cap (kept \X kept)) \cup (kept \X {tag})

Init == cached = {} /\ older = {}

Clear == cached' = {} /\ older' = {}

Fill(tag) ==
  /\ tag \notin cached
  /\ ~Full
  /\ cached' = cached \cup {tag}
  /\ older' = WithYoungest(cached, tag)

Renew(tag) ==
  /\ tag \in cached
  /\ Full
  /\ cached' = cached
  /\ older' = WithYoungest(cached \ {tag}, tag)

Replace(tag) ==
  /\ tag \notin cached
  /\ Full
  /\ \E victim \in cached :
       /\ \A other \in cached \ {victim} : <<victim, other>> \in older
       /\ cached' = (cached \ {victim}) \cup {tag}
       /\ older' = WithYoungest(cached \ {victim}, tag)

Next ==
  \/ Clear
  \/ \E tag \in Tags : Fill(tag) \/ Renew(tag) \/ Replace(tag)

Spec == Init /\ [][Next]_<<cached, older>>
=============================================================================
