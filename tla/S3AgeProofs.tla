----------------------------- MODULE S3AgeProofs -----------------------------
(***************************************************************************)
(* How old the answers of an S3 source become. Its List stores again what  *)
(* getImpl found in the cache (s3/s3.go:633), and several Lists may do so  *)
(* one after the other with the same bucket. They do not keep it for ever: *)
(* a List looks the list up first, and what a List has stored again is     *)
(* found there. Only the Lists that were under way already go on, and they *)
(* end before that is forgotten, if no call takes as long as an entry is   *)
(* kept.                                                                   *)
(***************************************************************************)
EXTENDS SourcesProofs

(* The context of a call to S3 ends within the time an entry is kept: ten  *)
(* minutes (s3/s3.go:18).                                                  *)
ShortCalls == \A s \in Sources : s.kind = "S3Source" => s.Deadline <= DefaultCacheDuration

(* The Lists under way, and those of them that look at the cache.          *)
Lists(rec) == rec.at \notin {"idle", "done"} /\ rec.op = "LIST"
LooksUp(rec) == Lists(rec) /\ ~rec.ignore

Kept == DefaultCacheDuration
Oldest == 2 * Kept + 2 * source.Deadline

Listed(C, s) == \E f \in C : f.key.index = "listed" /\ f.key.scope = s

(* An entry that is kept for longer than it was at first is not forgotten  *)
(* before a List that finds it.                                            *)
AgesOfCache(C) ==
  /\ \A e \in C : e.key.index \in {"item", "listed"} => e.left + e.age <= Oldest
  /\ \A e \in C : e.key.index = "item" =>
       \/ e.left + e.age <= Kept
       \/ \E f \in C : /\ f.key.index = "listed" /\ f.key.scope = e.key.scope
                       /\ e.left <= f.left

(* A List that looks at the cache found nothing listed when it began: what *)
(* is listed now was stored since. Only that makes what it has got, or     *)
(* will get, older than what was there then.                               *)
AgesOfList(C, rec) ==
  /\ \A i \in rec.got : i.age <= Kept + rec.ticks \/ Listed(C, rec.r.scope)
  /\ \A e \in C : e.key.scope = rec.r.scope =>
       /\ e.key.index = "listed" => Kept <= e.left + rec.ticks
       /\ e.key.index = "item" => e.age <= Kept + source.Deadline + rec.ticks

AgesOfCall(C, rec) ==
  /\ \A i \in rec.answer.items : i.age <= Oldest
  /\ rec.op # "LIST" => rec.got = {}
  /\ Lists(rec) =>
       /\ rec.left \subseteq In(rec.r.scope)
       /\ rec.on \in Resources => rec.on.scope = rec.r.scope
       /\ \A i \in rec.got : i.of.scope = rec.r.scope
       /\ rec.ignore => \A i \in rec.got : i.age <= rec.ticks
  /\ LooksUp(rec) => AgesOfList(C, rec)

(* What one List has got another may find in the cache soon.               *)
AgesOfTwo(a, b) ==
  LooksUp(a) /\ Lists(b) /\ a.r.scope = b.r.scope =>
    \A i \in b.got : i.age <= Kept + source.Deadline + a.ticks

Ages(C, calls) ==
  /\ AgesOfCache(C)
  /\ \A c \in Callers : AgesOfCall(C, calls[c])
  /\ \A c, d \in Callers : AgesOfTwo(calls[c], calls[d])

AgesInv == source.kind = "S3Source" => Ages(cache, call)

LEMMA Times ==
  ASSUME Around, source.kind = "S3Source"
  PROVE  /\ cacheDuration = Kept /\ Lasts(source) = Kept
         /\ Kept \in Nat /\ source.Deadline \in Nat /\ Oldest \in Nat
         /\ ShortCalls => source.Deadline <= Kept
<1>1. source \in Sources /\ source.CacheDuration = 0
  BY FieldUnset DEF Around
<1>2. Kept \in Nat /\ source.Deadline \in Nat
  BY <1>1, SourceTypes, SourceCacheAssumption DEF Kept
<1> QED BY <1>1, <1>2 DEF cacheDuration, Lasts, Kept, Oldest, ShortCalls

(* The numbers in entries and items.                                       *)
LEMMA Numbers ==
  /\ \A e \in EntryType : e.left \in Nat /\ e.age \in Nat /\ e.key.scope \in OwnScopes
  /\ \A i \in ItemType : i.age \in Nat /\ i.of \in Resources
BY DEF EntryType, ItemType, KeyType

-----------------------------------------------------------------------------
(* Steps of the cache.                                                     *)

(* What may be stored, of which calls.                                     *)
StoredItem(C, e, calls) ==
  /\ e.left = Kept /\ e.age <= Kept + 2 * source.Deadline
  /\ \/ e.age = 0
     \/ \E f \in C : f.key.index = "listed" /\ f.key.scope = e.key.scope /\ f.left = Kept
  /\ \A c \in Callers : LooksUp(calls[c]) /\ calls[c].r.scope = e.key.scope =>
       e.age <= Kept + source.Deadline + calls[c].ticks

CacheMoves(C, D, calls) ==
  /\ \A f \in C : f.key.index = "listed" =>
       \E g \in D : g.key.index = "listed" /\ g.key.scope = f.key.scope /\ f.left <= g.left
  /\ \A e \in D : e.key.index = "listed" =>
       e \in C \/ (e.left = Kept /\ e.age <= Kept + 2 * source.Deadline)
  /\ \A e \in D : e.key.index = "item" => e \in C \/ StoredItem(D, e, calls)

LEMMA CacheMovesKeep ==
  ASSUME Around, source.kind = "S3Source", call \in [Callers -> CallType],
         NEW C \in SUBSET EntryType, NEW D \in SUBSET EntryType,
         Ages(C, call), CacheMoves(C, D, call)
  PROVE  Ages(D, call)
<1>1. Kept \in Nat /\ source.Deadline \in Nat
  BY Times
<1>2. ASSUME NEW e \in D, e.key.index \in {"item", "listed"}
      PROVE  e.left + e.age <= Oldest
  <2>1. e.left \in Nat /\ e.age \in Nat
    BY Numbers
  <2>2. e \in C \/ (e.left = Kept /\ e.age <= Kept + 2 * source.Deadline)
    BY <1>2 DEF CacheMoves, StoredItem
  <2>3. e \in C => e.left + e.age <= Oldest
    BY <1>2 DEF Ages, AgesOfCache
  <2> QED BY <1>1, <2>1, <2>2, <2>3 DEF Oldest
<1>3. ASSUME NEW e \in D, e.key.index = "item"
      PROVE  \/ e.left + e.age <= Kept
             \/ \E f \in D : /\ f.key.index = "listed" /\ f.key.scope = e.key.scope
                             /\ e.left <= f.left
  <2>1. e.left \in Nat /\ e.age \in Nat
    BY Numbers
  <2>2. CASE e \in C
    <3>1. CASE e.left + e.age <= Kept
      BY <3>1
    <3>2. CASE \E f \in C : /\ f.key.index = "listed" /\ f.key.scope = e.key.scope
                            /\ e.left <= f.left
      <4>1. PICK f \in C : /\ f.key.index = "listed" /\ f.key.scope = e.key.scope
                           /\ e.left <= f.left
        BY <3>2
      <4>2. PICK g \in D : /\ g.key.index = "listed" /\ g.key.scope = f.key.scope
                           /\ f.left <= g.left
        BY <4>1 DEF CacheMoves
      <4>3. f.left \in Nat /\ g.left \in Nat
        BY Numbers
      <4> QED BY <2>1, <4>1, <4>2, <4>3
    <3> QED BY <1>3, <2>2, <3>1, <3>2 DEF Ages, AgesOfCache
  <2>3. CASE StoredItem(D, e, call)
    BY <1>1, <2>1, <2>3 DEF StoredItem
  <2> QED BY <1>3, <2>2, <2>3 DEF CacheMoves
<1>4. ASSUME NEW c \in Callers, LooksUp(call[c])
      PROVE  AgesOfList(D, call[c])
  <2> DEFINE rec == call[c]
  <2>1. rec \in CallType /\ rec.ticks \in Nat
    BY CallFields
  <2>2. AgesOfList(C, rec)
    BY <1>4 DEF Ages, AgesOfCall
  <2>3. Listed(C, rec.r.scope) => Listed(D, rec.r.scope)
    BY DEF Listed, CacheMoves
  <2>4. ASSUME NEW e \in D, e.key.scope = rec.r.scope
        PROVE  /\ e.key.index = "listed" => Kept <= e.left + rec.ticks
               /\ e.key.index = "item" => e.age <= Kept + source.Deadline + rec.ticks
    <3>1. e.left \in Nat /\ e.age \in Nat
      BY Numbers
    <3>2. e \in C => /\ e.key.index = "listed" => Kept <= e.left + rec.ticks
                     /\ e.key.index = "item" => e.age <= Kept + source.Deadline + rec.ticks
      BY <2>2, <2>4 DEF AgesOfList
    <3>3. e \notin C /\ e.key.index = "listed" => e.left = Kept
      BY DEF CacheMoves
    <3>4. e \notin C /\ e.key.index = "item" => e.age <= Kept + source.Deadline + rec.ticks
      BY <1>4, <2>4 DEF CacheMoves, StoredItem
    <3> QED BY <1>1, <2>1, <3>1, <3>2, <3>3, <3>4
  <2> QED BY <2>2, <2>3, <2>4 DEF AgesOfList
<1>5. AgesOfCache(D)
  BY <1>2, <1>3 DEF AgesOfCache
<1>6. \A c \in Callers : AgesOfCall(D, call[c])
  BY <1>4 DEF Ages, AgesOfCall
<1> QED BY <1>5, <1>6 DEF Ages

(* Errors are no items; what was read just now is of no age.               *)
LEMMA ErrorsAreNoItems ==
  ASSUME NEW C \in SUBSET EntryType, NEW error, NEW key,
         key.index \in {"get-error", "list-error"}, \A e \in C : e.left \in Nat
  PROVE  CacheMoves(C, WithError(C, key, error, Kept), call)
<1> DEFINE e == ErrorEntry(key, error, Kept)
<1>1. e.key = key
  BY DEF ErrorEntry
<1> HIDE DEF e
<1>2. WithError(C, key, error, Kept) = {f \in C : f.key # key} \cup {e}
  BY <1>1 DEF WithError, Put, e
<1> QED BY <1>1, <1>2 DEF CacheMoves

LEMMA EntryOf ==
  ASSUME NEW item \in ItemType, NEW r \in Resources, item.of = r
  PROVE  LET e == ItemEntry(ItemKey(r), item, Kept)
             f == ItemEntry(ListedKey(r), item, Kept) IN
         /\ e.key = ItemKey(r) /\ e.key.index = "item" /\ e.key.scope = r.scope
         /\ e.left = Kept /\ e.age = item.age
         /\ f.key = ListedKey(r) /\ f.key.index = "listed" /\ f.key.scope = r.scope
         /\ f.left = Kept /\ f.age = item.age
BY DEF ItemEntry, ItemKey, ListedKey, Key

LEMMA ReadJustNow ==
  ASSUME Around, source.kind = "S3Source", call \in [Callers -> CallType],
         NEW C \in SUBSET EntryType, NEW item \in ItemType, item.age = 0
  PROVE  CacheMoves(C, WithItem(C, item, Kept), call)
<1> DEFINE e == ItemEntry(ItemKey(item.of), item, Kept)
<1>1. item.of \in Resources /\ Kept \in Nat /\ source.Deadline \in Nat
  BY Times, Numbers
<1>2. /\ e.key = ItemKey(item.of) /\ e.key.index = "item" /\ e.key.scope = item.of.scope
      /\ e.left = Kept /\ e.age = 0
  BY <1>1, EntryOf
<1> HIDE DEF e
<1>3. WithItem(C, item, Kept) = {f \in C : f.key # e.key} \cup {e}
  BY <1>2 DEF WithItem, Put, e
<1>4. StoredItem(WithItem(C, item, Kept), e, call)
  <2>1. \A c \in Callers : call[c].ticks \in Nat
    BY CallFields
  <2> QED BY <1>1, <1>2, <2>1 DEF StoredItem
<1>5. \A f \in C : f.left \in Nat
  BY Numbers
<1> DEFINE D == WithItem(C, item, Kept)
<1> HIDE DEF D
<1>6. \A f \in C : f.key.index = "listed" => f \in D /\ f.left <= f.left
  BY <1>2, <1>3, <1>5 DEF D
<1>7. \A f \in D : f.key.index \in {"item", "listed"} => f \in C \/ f = e
  BY <1>3 DEF D
<1>8. StoredItem(D, e, call)
  BY <1>4 DEF D
<1>9. CacheMoves(C, D, call)
  BY <1>2, <1>6, <1>7, <1>8 DEF CacheMoves
<1> QED BY <1>9 DEF D

(* What a List has got is found as old as it is, and listed.               *)
LEMMA StoredWithList ==
  ASSUME SourcesInv, source.kind = "S3Source", Ages(cache, call),
         NEW c \in Callers, Lists(call[c]), NEW item \in call[c].got
  PROVE  CacheMoves(cache, WithListed(cache, item, Kept), call)
<1> DEFINE e == ItemEntry(ItemKey(item.of), item, Kept)
           f == ItemEntry(ListedKey(item.of), item, Kept)
           D == WithListed(cache, item, Kept)
<1>1. /\ Around /\ cache \subseteq EntryType /\ call \in [Callers -> CallType]
      /\ \A g \in cache : g.left <= Kept /\ g.left \in Nat
  BY Times, Numbers DEF SourcesInv, CacheFits, EntryFits
<1>2. Kept \in Nat /\ source.Deadline \in Nat
  BY <1>1, Times
<1>3. /\ item \in ItemType /\ item.of \in Resources /\ item.age \in Nat
      /\ item.of.scope = call[c].r.scope
  <2>1. item \in ItemType
    BY <1>1, CallFields
  <2> QED BY <2>1, Numbers DEF Ages, AgesOfCall
<1>4. /\ e.key = ItemKey(item.of) /\ e.key.index = "item" /\ e.key.scope = item.of.scope
      /\ e.left = Kept /\ e.age = item.age
      /\ f.key = ListedKey(item.of) /\ f.key.index = "listed"
      /\ f.key.scope = item.of.scope /\ f.left = Kept /\ f.age = item.age
  BY <1>3, EntryOf
<1>5. D = {g \in cache : g.key # e.key /\ g.key # f.key} \cup {e, f}
  <2> HIDE DEF e, f
  <2>1. WithItem(cache, item, Kept) = {g \in cache : g.key # e.key} \cup {e}
    BY <1>4 DEF WithItem, Put, e
  <2>2. D = {g \in WithItem(cache, item, Kept) : g.key # f.key} \cup {f}
    BY <1>4 DEF WithListed, Put, f
  <2>3. e.key # f.key
    BY <1>4
  <2> HIDE DEF D
  <2> QED BY <2>1, <2>2, <2>3
<1> HIDE DEF e, f, D
<1>6. item.age <= Kept + 2 * source.Deadline
  <2>1. call[c].ticks \in Nat /\ call[c].ticks <= source.Deadline
    <3>1. call[c] \in CallType /\ call[c] # Idle
      BY <1>1 DEF Lists, Idle
    <3> QED BY <3>1, CallFields DEF Lists, SourcesInv, CallFits, UnderWay, Begun
  <2>2. CASE call[c].ignore
    BY <1>2, <1>3, <2>1, <2>2 DEF Ages, AgesOfCall
  <2>3. CASE ~call[c].ignore
    <3>1. AgesOfTwo(call[c], call[c])
      BY DEF Ages
    <3>2. item.age <= Kept + source.Deadline + call[c].ticks
      BY <2>3, <3>1 DEF AgesOfTwo, LooksUp
    <3> QED BY <1>2, <1>3, <2>1, <3>2
  <2> QED BY <2>2, <2>3
<1>7. \A d \in Callers : LooksUp(call[d]) /\ call[d].r.scope = item.of.scope =>
        item.age <= Kept + source.Deadline + call[d].ticks
  <2> SUFFICES ASSUME NEW d \in Callers, LooksUp(call[d]), call[d].r.scope = item.of.scope
               PROVE  item.age <= Kept + source.Deadline + call[d].ticks
    OBVIOUS
  <2>1. AgesOfTwo(call[d], call[c])
    BY DEF Ages
  <2> QED BY <1>3, <2>1 DEF AgesOfTwo
<1>8. StoredItem(D, e, call)
  BY <1>4, <1>5, <1>6, <1>7 DEF StoredItem
<1>9. ASSUME NEW g \in cache, g.key.index = "listed"
      PROVE  \E h \in D : /\ h.key.index = "listed" /\ h.key.scope = g.key.scope
                          /\ g.left <= h.left
  <2>1. CASE g.key = f.key
    BY <1>1, <1>4, <1>5, <2>1
  <2>2. CASE g.key # f.key
    <3>1. g \in D
      BY <1>4, <1>5, <1>9, <2>2
    <3> QED BY <1>1, <1>9, <3>1
  <2> QED BY <2>1, <2>2
<1>10. \A g \in D : g.key.index = "listed" =>
         g \in cache \/ (g.left = Kept /\ g.age <= Kept + 2 * source.Deadline)
  BY <1>4, <1>5, <1>6
<1>11. \A g \in D : g.key.index = "item" => g \in cache \/ StoredItem(D, g, call)
  BY <1>4, <1>5, <1>8
<1> QED BY <1>9, <1>10, <1>11 DEF CacheMoves, D

-----------------------------------------------------------------------------
(* Steps of a call.                                                        *)

Ends(new) ==
  /\ new.at \in {"idle", "done"} /\ new.got = {}
  /\ \A i \in new.answer.items : i.age <= Oldest

Starts(C, new) ==
  /\ new.answer.items = {} /\ new.got = {} /\ new.left = {}
  /\ new.op = "LIST" => new.on = Nothing
  /\ LooksUp(new) => ~Listed(C, new.r.scope)

(* It goes on, with what it had, read just now or found in the cache.      *)
GoesOnFrom(C, rec, new) ==
  /\ rec.at \notin {"idle", "done"} /\ new.at \notin {"idle", "done"}
  /\ new.op = rec.op /\ new.r = rec.r /\ new.ignore = rec.ignore /\ new.ticks = rec.ticks
  /\ new.answer.items = {}
  /\ new.op # "LIST" => new.got = {}
  /\ new.op = "LIST" =>
       /\ new.left \subseteq In(new.r.scope)
       /\ new.on \in Resources => new.on.scope = new.r.scope
       /\ \A i \in new.got :
            \/ i \in rec.got
            \/ i.of.scope = new.r.scope /\ i.age = 0
            \/ /\ i.of.scope = new.r.scope /\ ~new.ignore
               /\ \E e \in C : /\ e.key.index = "item" /\ e.key.scope = new.r.scope
                               /\ e.age = i.age

CallMoves(C, rec, new) == Ends(new) \/ Starts(C, new) \/ GoesOnFrom(C, rec, new)

LEMMA EndsKeeps ==
  ASSUME NEW C, NEW new, Ends(new)
  PROVE  /\ AgesOfCall(C, new)
         /\ \A rec : AgesOfTwo(new, rec) /\ AgesOfTwo(rec, new)
BY DEF Ends, AgesOfCall, AgesOfTwo, LooksUp, Lists

(* Nothing is listed when it starts: what other Lists have got is not yet  *)
(* older than an entry becomes, and neither is what is in the cache.       *)
LEMMA StartsKeeps ==
  ASSUME SourcesInv, source.kind = "S3Source",
         NEW C \in SUBSET EntryType, Ages(C, call), \A e \in C : e.left \in Nat,
         NEW new \in CallType, Starts(C, new)
  PROVE  /\ AgesOfCall(C, new) /\ AgesOfTwo(new, new)
         /\ \A d \in Callers : AgesOfTwo(new, call[d]) /\ AgesOfTwo(call[d], new)
<1>1. Kept \in Nat /\ source.Deadline \in Nat /\ new.ticks \in Nat
  BY Times, CallFields DEF SourcesInv
<1>2. ASSUME LooksUp(new), NEW e \in C, e.key.scope = new.r.scope
      PROVE  e.key.index # "listed"
             /\ (e.key.index = "item" => e.age <= Kept + source.Deadline + new.ticks)
  <2>1. \A f \in C : f.key.index = "listed" => f.key.scope # e.key.scope
    BY <1>2 DEF Starts, Listed
  <2>2. e.key.index = "item" => e.left + e.age <= Kept
    BY <2>1 DEF Ages, AgesOfCache
  <2>3. e.left \in Nat /\ e.age \in Nat
    BY Numbers
  <2> QED BY <1>1, <2>1, <2>2, <2>3
<1>3. AgesOfCall(C, new)
  <2>1. LooksUp(new) => AgesOfList(C, new)
    BY <1>2 DEF AgesOfList, Starts
  <2>2. Nothing \notin Resources
    BY NoResource
  <2> QED BY <2>1, <2>2 DEF AgesOfCall, Starts, Lists
<1>4. ASSUME NEW d \in Callers
      PROVE  AgesOfTwo(new, call[d])
  <2> SUFFICES ASSUME LooksUp(new), Lists(call[d]), new.r.scope = call[d].r.scope,
                      NEW i \in call[d].got
               PROVE  i.age <= Kept + source.Deadline + new.ticks
    BY DEF AgesOfTwo
  <2>1. call[d] \in CallType /\ i.age \in Nat
    <3>1. call[d] \in CallType
      BY DEF SourcesInv
    <3> QED BY <3>1, CallFields, Numbers
  <2>2. call[d].ticks \in Nat /\ call[d].ticks <= source.Deadline
    <3>1. call[d] # Idle
      BY DEF Lists, Idle
    <3> QED BY <2>1, <3>1, CallFields DEF Lists, SourcesInv, CallFits, UnderWay, Begun
  <2>3. CASE call[d].ignore
    <3>1. i.age <= call[d].ticks
      BY <2>3 DEF Ages, AgesOfCall
    <3> QED BY <1>1, <2>1, <2>2, <3>1
  <2>4. CASE ~call[d].ignore
    <3>1. i.age <= Kept + call[d].ticks \/ Listed(C, call[d].r.scope)
      BY <2>4 DEF Ages, AgesOfCall, AgesOfList, LooksUp
    <3>2. ~Listed(C, call[d].r.scope)
      BY DEF Starts
    <3> QED BY <1>1, <2>1, <2>2, <3>1, <3>2
  <2> QED BY <2>3, <2>4
<1>5. AgesOfTwo(new, new) /\ \A d \in Callers : AgesOfTwo(call[d], new)
  BY DEF AgesOfTwo, Starts
<1> QED BY <1>3, <1>4, <1>5

LEMMA GoesOnKeeps ==
  ASSUME SourcesInv, source.kind = "S3Source",
         NEW C \in SUBSET EntryType, Ages(C, call),
         NEW c \in Callers, NEW new \in CallType, GoesOnFrom(C, call[c], new)
  PROVE  /\ AgesOfCall(C, new) /\ AgesOfTwo(new, new)
         /\ \A d \in Callers : AgesOfTwo(new, call[d]) /\ AgesOfTwo(call[d], new)
<1> DEFINE rec == call[c]
<1>1. /\ Kept \in Nat /\ source.Deadline \in Nat /\ new.ticks \in Nat
      /\ \A d \in Callers : call[d] \in CallType /\ call[d].ticks \in Nat
      /\ new.got \subseteq ItemType /\ rec.got \subseteq ItemType
  BY Times, CallFields DEF SourcesInv
<1>2. Lists(new) => Lists(rec)
  BY DEF Lists, GoesOnFrom
<1>3. LooksUp(new) <=> LooksUp(rec)
  BY DEF LooksUp, Lists, GoesOnFrom
<1>4. AgesOfCall(C, rec)
  BY DEF Ages
<1>5. ASSUME NEW i \in new.got, Lists(new), new.ignore
      PROVE  i.age <= new.ticks
  BY <1>1, <1>2, <1>4, <1>5 DEF GoesOnFrom, AgesOfCall, Lists
<1>6. ASSUME NEW i \in new.got, LooksUp(new)
      PROVE  i.age <= Kept + new.ticks \/ Listed(C, new.r.scope)
  <2>1. CASE i \in rec.got
    BY <1>3, <1>4, <1>6, <2>1 DEF AgesOfCall, AgesOfList, GoesOnFrom
  <2>2. CASE i.age = 0
    BY <1>1, <2>2
  <2>3. ASSUME NEW e \in C, e.key.index = "item", e.key.scope = new.r.scope, e.age = i.age
        PROVE  i.age <= Kept + new.ticks \/ Listed(C, new.r.scope)
    <3>1. e.left \in Nat /\ e.age \in Nat
      BY Numbers
    <3>2. e.left + e.age <= Kept \/ Listed(C, new.r.scope)
      BY <2>3 DEF Ages, AgesOfCache, Listed
    <3> QED BY <1>1, <2>3, <3>1, <3>2
  <2> QED BY <1>6, <2>1, <2>2, <2>3 DEF GoesOnFrom, LooksUp, Lists
<1>7. AgesOfCall(C, new)
  <2>1. LooksUp(new) => AgesOfList(C, new)
    BY <1>3, <1>4, <1>6 DEF AgesOfCall, AgesOfList, GoesOnFrom
  <2>2. Lists(new) => \A i \in new.got : i.of.scope = new.r.scope
    BY <1>2, <1>4 DEF AgesOfCall, GoesOnFrom, Lists
  <2> QED BY <1>5, <2>1, <2>2 DEF AgesOfCall, GoesOnFrom, Lists
<1>8. ASSUME NEW d \in Callers
      PROVE  AgesOfTwo(new, call[d])
  <2>1. AgesOfTwo(rec, call[d])
    BY DEF Ages
  <2> QED BY <1>3, <2>1 DEF AgesOfTwo, GoesOnFrom
<1>9. ASSUME NEW a, LooksUp(a), a.r.scope = new.r.scope, a.ticks \in Nat, AgesOfList(C, a),
             AgesOfTwo(a, rec)
      PROVE  AgesOfTwo(a, new)
  <2> SUFFICES ASSUME Lists(new), NEW i \in new.got
               PROVE  i.age <= Kept + source.Deadline + a.ticks
    BY DEF AgesOfTwo
  <2>1. CASE i \in rec.got
    BY <1>2, <1>9, <2>1 DEF AgesOfTwo, GoesOnFrom
  <2>2. CASE i.age = 0
    BY <1>1, <1>9, <2>2
  <2>3. ASSUME NEW e \in C, e.key.index = "item", e.key.scope = new.r.scope, e.age = i.age
        PROVE  i.age <= Kept + source.Deadline + a.ticks
    BY <1>9, <2>3 DEF AgesOfList
  <2> QED BY <2>1, <2>2, <2>3 DEF GoesOnFrom, Lists
<1>10. ASSUME NEW d \in Callers
       PROVE  AgesOfTwo(call[d], new)
  <2> SUFFICES ASSUME LooksUp(call[d]), call[d].r.scope = new.r.scope
               PROVE  AgesOfTwo(call[d], new)
    BY DEF AgesOfTwo
  <2>1. AgesOfList(C, call[d]) /\ AgesOfTwo(call[d], rec)
    BY DEF Ages, AgesOfCall
  <2> QED BY <1>1, <1>9, <2>1
<1>11. AgesOfTwo(new, new)
  <2>1. AgesOfTwo(call[c], new)
    BY <1>10
  <2> QED BY <1>3, <2>1 DEF AgesOfTwo, GoesOnFrom
<1> QED BY <1>7, <1>8, <1>10, <1>11

LEMMA CallMovesKeep ==
  ASSUME SourcesInv, source.kind = "S3Source",
         NEW C \in SUBSET EntryType, Ages(C, call), \A e \in C : e.left \in Nat,
         NEW c \in Callers, NEW new \in CallType, Set(c, new), CallMoves(C, call[c], new)
  PROVE  Ages(C, call')
<1>1. /\ call'[c] = new
      /\ \A d \in Callers : d # c => call'[d] = call[d]
  BY SetOne DEF SourcesInv
<1>2. /\ AgesOfCall(C, new) /\ AgesOfTwo(new, new)
      /\ \A d \in Callers : AgesOfTwo(new, call[d]) /\ AgesOfTwo(call[d], new)
  BY EndsKeeps, StartsKeeps, GoesOnKeeps DEF CallMoves
<1>3. \A d \in Callers : AgesOfCall(C, call'[d])
  BY <1>1, <1>2 DEF Ages
<1>4. \A a, b \in Callers : AgesOfTwo(call'[a], call'[b])
  BY <1>1, <1>2 DEF Ages
<1> QED BY <1>3, <1>4 DEF Ages

(* A step of a source: what it stores, and what becomes of the call.       *)
AgesStep(c) ==
  /\ CacheMoves(cache, cache', call)
  /\ \E new \in CallType : Set(c, new) /\ CallMoves(cache', call[c], new)

LEMMA AgesStepKeeps ==
  ASSUME SourcesInv, SourcesInv', UNCHANGED source, source.kind = "S3Source",
         Ages(cache, call), NEW c \in Callers, AgesStep(c)
  PROVE  Ages(cache, call)'
<1>1. /\ Around /\ call \in [Callers -> CallType]
      /\ cache \in SUBSET EntryType /\ cache' \in SUBSET EntryType
  BY DEF SourcesInv, CacheFits
<1>2. Ages(cache', call)
  BY <1>1, CacheMovesKeep DEF AgesStep
<1>3. \A e \in cache' : e.left \in Nat
  BY <1>1, Numbers
<1>4. Ages(cache', call')
  BY <1>1, <1>2, <1>3, CallMovesKeep DEF AgesStep
<1>5. source' = source
  OBVIOUS
<1> QED BY <1>4, <1>5 DEF Ages, AgesOfCache, AgesOfCall, AgesOfList, AgesOfTwo, Oldest

LEMMA SameCache ==
  ASSUME cache' = cache, cache \in SUBSET EntryType
  PROVE  CacheMoves(cache, cache', call)
<1>1. \A e \in cache : e.left \in Nat
  BY Numbers
<1> QED BY <1>1 DEF CacheMoves

-----------------------------------------------------------------------------
(* The steps of the S3 source.                                             *)

LEMMA AfterBucketIs ==
  ASSUME NEW rec \in CallType, NEW answer \in AnswerType
  PROVE  LET after == S3!AfterBucket(rec, answer) IN
         /\ after \in CallType
         /\ rec.op # "LIST" => after = Done(rec, answer)
         /\ rec.op = "LIST" =>
              \/ after.at = "done" /\ after.got = {} /\ after.answer.items = {}
              \/ /\ after.at \in {"next", "again"} /\ after.op = rec.op /\ after.r = rec.r
                 /\ after.ignore = rec.ignore /\ after.ticks = rec.ticks
                 /\ after.answer = NoAnswer /\ after.on = Nothing
                 /\ after.got = rec.got \cup answer.items
                 /\ after.left = rec.left \/ after.left = Of(after.got)
<1> DEFINE all == rec.got \cup answer.items
           rest == [rec EXCEPT !.got = all, !.lacks = {}, !.on = Nothing, !.answer = NoAnswer]
           after == S3!AfterBucket(rec, answer)
           of == Of(all)
<1>1. /\ all \in SUBSET ItemType /\ of \in SUBSET Resources
      /\ NoAnswer \in AnswerType /\ Nothing \in Place
      /\ Items({}) \in AnswerType /\ Items({}).items = {}
  <2>1. all \in SUBSET ItemType
    BY CallFields DEF AnswerType
  <2> QED BY <2>1, IdleType, NoResource, AnswerTypes, Numbers DEF Of
<1>2. CASE rec.op # "LIST"
  <2>1. after = Done(rec, answer)
    BY <1>2, S3Names DEF S3!AfterBucket
  <2> QED BY <1>2, <2>1, DoneType
<1>3. CASE rec.op = "LIST"
  <2> HIDE DEF all, of
  <2>1. /\ rest \in CallType
        /\ rest.at = rec.at /\ rest.op = rec.op /\ rest.r = rec.r /\ rest.ignore = rec.ignore
        /\ rest.ticks = rec.ticks /\ rest.left = rec.left /\ rest.got = all
        /\ rest.on = Nothing /\ rest.answer = NoAnswer
    BY <1>1 DEF CallType
  <2>2. after = IF rest.left # {} THEN [rest EXCEPT !.at = "next"]
                ELSE IF rest.got = {} THEN Done(rest, Items({}))
                ELSE [rest EXCEPT !.at = "again", !.left = {i.of : i \in rest.got}]
    BY <1>3, <2>1, S3Names DEF S3!AfterBucket, all
  <2>3. {i.of : i \in rest.got} = of
    BY <2>1 DEF of, Of
  <2> HIDE DEF rest, after
  <2>4. CASE after = [rest EXCEPT !.at = "next"]
    BY <1>3, <2>1, <2>4 DEF CallType, Steps, after, all
  <2>5. CASE after = Done(rest, Items({}))
    BY SMTT(30), <1>1, <1>3, <2>1, <2>5, DoneType DEF after
  <2>6. CASE after = [rest EXCEPT !.at = "again", !.left = of]
    <3>1. /\ after \in CallType /\ after.at = "again" /\ after.left = of
          /\ after.op = rest.op /\ after.r = rest.r /\ after.ignore = rest.ignore
          /\ after.ticks = rest.ticks /\ after.answer = rest.answer
          /\ after.on = rest.on /\ after.got = rest.got
      BY <1>1, <2>1, <2>6 DEF CallType, Steps
    <3> QED BY <1>3, <2>1, <3>1 DEF after, all, of
  <2> QED BY <2>2, <2>3, <2>4, <2>5, <2>6
<1> QED BY <1>2, <1>3

(* After a bucket a call is answered with what is not too old, or goes on  *)
(* from where it was (old) with what it got.                               *)
LEMMA AfterBucketMoves ==
  ASSUME NEW C, NEW old, NEW rec \in CallType, NEW answer \in AnswerType,
         rec.op # "LIST" => \A i \in answer.items : i.age <= Oldest,
         rec.op = "LIST" =>
           /\ old.at \notin {"idle", "done"} /\ old.op = rec.op /\ old.r = rec.r
           /\ old.ignore = rec.ignore /\ old.ticks = rec.ticks /\ old.got = rec.got
           /\ rec.left \subseteq In(rec.r.scope)
           /\ \A i \in rec.got : i.of.scope = rec.r.scope
           /\ \A i \in answer.items :
                /\ i.of.scope = rec.r.scope
                /\ \/ i.age = 0
                   \/ ~rec.ignore /\ \E e \in C : /\ e.key.index = "item"
                                                  /\ e.key.scope = rec.r.scope
                                                  /\ e.age = i.age
  PROVE  /\ S3!AfterBucket(rec, answer) \in CallType
         /\ CallMoves(C, old, S3!AfterBucket(rec, answer))
<1> DEFINE after == S3!AfterBucket(rec, answer)
<1>1. /\ after \in CallType
      /\ rec.op # "LIST" => after = Done(rec, answer)
      /\ rec.op = "LIST" =>
           \/ after.at = "done" /\ after.got = {} /\ after.answer.items = {}
           \/ /\ after.at \in {"next", "again"} /\ after.op = rec.op /\ after.r = rec.r
              /\ after.ignore = rec.ignore /\ after.ticks = rec.ticks
              /\ after.answer = NoAnswer /\ after.on = Nothing
              /\ after.got = rec.got \cup answer.items
              /\ after.left = rec.left \/ after.left = Of(after.got)
  BY AfterBucketIs
<1> HIDE DEF after
<1>2. CASE rec.op # "LIST"
  <2>1. after.at = "done" /\ after.got = {} /\ after.answer = answer
    BY <1>1, <1>2, DoneType
  <2> QED BY <1>1, <1>2, <2>1 DEF CallMoves, Ends, after
<1>3. CASE rec.op = "LIST" /\ after.at = "done"
  BY <1>1, <1>3 DEF CallMoves, Ends, after
<1>4. CASE rec.op = "LIST" /\ after.at # "done"
  <2>1. after.answer.items = {} /\ after.on \notin Resources
    BY <1>1, <1>4, NoResource DEF NoAnswer
  <2>2. after.got \subseteq ItemType
    BY <1>1, CallFields
  <2>3. after.left \subseteq In(after.r.scope)
    <3>1. \A i \in after.got : i.of \in Resources /\ i.of.scope = after.r.scope
      BY <1>1, <1>4, <2>2, Numbers
    <3> QED BY <1>1, <1>4, <3>1 DEF Of, In
  <2>4. GoesOnFrom(C, old, after)
    BY <1>1, <1>4, <2>1, <2>3 DEF GoesOnFrom
  <2> QED BY <1>1, <2>4 DEF CallMoves, after
<1> QED BY <1>2, <1>3, <1>4

(* What is answered from the cache is as old as an entry.                  *)
LEMMA CachedAges ==
  ASSUME SourcesInv, source.kind = "S3Source", Ages(cache, call)
  PROVE  /\ \A r \in Resources, ignore \in BOOLEAN : GetHit(r, ignore) =>
              \A i \in GetCached(r).items :
                /\ i.of = r /\ i.age <= Oldest
                /\ \E e \in cache : /\ e.key.index = "item" /\ e.key.scope = r.scope
                                    /\ e.age = i.age
         /\ \A s \in OwnScopes, ignore \in BOOLEAN : ListHit(s, ignore) =>
              \A i \in ListCached(s).items : i.age <= Oldest
<1>1. cache \subseteq EntryType /\ Oldest \in Nat
  BY Times DEF SourcesInv, CacheFits
<1>2. \A e \in cache : e.key.index \in {"item", "listed"} => e.age <= Oldest
  <2> SUFFICES ASSUME NEW e \in cache, e.key.index \in {"item", "listed"}
               PROVE  e.age <= Oldest
    OBVIOUS
  <2>1. e.left \in Nat /\ e.age \in Nat
    BY <1>1, Numbers
  <2>2. e.left + e.age <= Oldest
    BY DEF Ages, AgesOfCache
  <2> QED BY <1>1, <2>1, <2>2
<1>3. \A error : Error(error).items = {}
  BY DEF Error, NoAnswer
<1>4. \A items : Items(items).items = items
  BY DEF Items, NoAnswer
<1>5. ASSUME NEW r \in Resources, NEW ignore \in BOOLEAN, GetHit(r, ignore),
             NEW i \in GetCached(r).items
      PROVE  /\ i.of = r /\ i.age <= Oldest
             /\ \E e \in cache : /\ e.key.index = "item" /\ e.key.scope = r.scope
                                 /\ e.age = i.age
  <2> DEFINE e == At(ItemKey(r))
  <2>1. ~Holds(GetErrorKey(r))
    BY <1>3, <1>5 DEF GetCached
  <2>2. Holds(ItemKey(r))
    BY <1>5, <2>1 DEF GetHit
  <2>3. e \in cache /\ e.key = ItemKey(r)
    BY <2>2, AtHeld
  <2>4. GetCached(r) = Items({Part(r, e.age, e.lacks)})
    BY <2>1 DEF GetCached
  <2> HIDE DEF e
  <2>5. i = Part(r, e.age, e.lacks)
    BY <1>4, <1>5, <2>4
  <2>6. i.of = r /\ i.age = e.age /\ e.key.index = "item" /\ e.key.scope = r.scope
    BY <2>3, <2>5 DEF Part, ItemKey, Key
  <2> QED BY <1>2, <2>3, <2>6
<1>6. ASSUME NEW s \in OwnScopes, NEW ignore \in BOOLEAN, ListHit(s, ignore),
             NEW i \in ListCached(s).items
      PROVE  i.age <= Oldest
  <2>1. ~Holds(ListErrorKey(s))
    BY <1>3, <1>6 DEF ListCached
  <2>2. i \in {Part([scope |-> s, name |-> e.key.name], e.age, e.lacks) : e \in ListedIn(s)}
    BY <1>4, <1>6, <2>1 DEF ListCached
  <2>3. PICK e \in ListedIn(s) : i = Part([scope |-> s, name |-> e.key.name], e.age, e.lacks)
    BY <2>2
  <2>4. i.age = e.age /\ e \in cache /\ e.key.index = "listed"
    BY <2>3 DEF Part, ListedIn
  <2> QED BY <1>2, <2>4
<1> QED BY <1>5, <1>6

(* What a List under way has, at any of its steps.                         *)
LEMMA OfOneScope ==
  ASSUME Ages(cache, call), NEW c \in Callers, Lists(call[c])
  PROVE  /\ call[c].left \subseteq In(call[c].r.scope)
         /\ call[c].on \in Resources => call[c].on.scope = call[c].r.scope
         /\ \A i \in call[c].got : i.of.scope = call[c].r.scope
BY DEF Ages, AgesOfCall

LEMMA NothingGot ==
  ASSUME Ages(cache, call), NEW c \in Callers, call[c].op # "LIST"
  PROVE  call[c].got = {}
BY DEF Ages, AgesOfCall

(* A call goes on with what it has got, on a bucket of its scope or none.  *)
LEMMA GoesOnWithSame ==
  ASSUME Ages(cache, call), NEW c \in Callers, call[c].at \notin {"idle", "done"},
         NEW C, NEW new, new.at \notin {"idle", "done"}, new.answer.items = {},
         new.op = call[c].op, new.r = call[c].r, new.ignore = call[c].ignore,
         new.ticks = call[c].ticks, new.got = call[c].got,
         new.op = "LIST" => /\ new.left \subseteq In(new.r.scope)
                            /\ new.on \in Resources => new.on.scope = new.r.scope
  PROVE  CallMoves(C, call[c], new)
BY NothingGot DEF CallMoves, GoesOnFrom

LEMMA CacheTyped == ASSUME SourcesInv PROVE cache \in SUBSET EntryType
BY DEF SourcesInv, CacheFits

LEMMA S3LookMoves ==
  ASSUME SourcesInv, source.kind = "S3Source", Ages(cache, call), NEW c \in Callers,
         NEW rec \in CallType, rec.answer = NoAnswer, NEW r \in Resources,
         rec.op # "LIST" => rec.got = {} /\ rec.left = {},
         rec.op = "LIST" =>
           /\ Lists(call[c]) /\ r.scope = rec.r.scope
           /\ rec.r = call[c].r /\ rec.ignore = call[c].ignore
           /\ rec.ticks = call[c].ticks /\ rec.got = call[c].got
           /\ rec.left \subseteq call[c].left,
         S3!Look(c, rec, r), cache' = cache
  PROVE  AgesStep(c)
<1> DEFINE new == [rec EXCEPT !.at = "location", !.on = r]
           old == call[c]
<1>1. \/ GetHit(r, ~(~rec.ignore)) /\ Set(c, S3!AfterBucket(rec, GetCached(r)))
      \/ Set(c, new)
  BY S3Names DEF S3!Look
<1>2. rec.op = "LIST" =>
        /\ old.at \notin {"idle", "done"} /\ old.op = rec.op /\ old.r = rec.r
        /\ old.ignore = rec.ignore /\ old.ticks = rec.ticks /\ old.got = rec.got
        /\ rec.left \subseteq In(rec.r.scope)
        /\ \A i \in rec.got : i.of.scope = rec.r.scope
  BY OfOneScope DEF Lists
<1>3. CacheMoves(cache, cache', call)
  BY CacheTyped, SameCache
<1>4. CASE GetHit(r, ~(~rec.ignore)) /\ Set(c, S3!AfterBucket(rec, GetCached(r)))
  <2>1. GetHit(r, rec.ignore) /\ rec.ignore \in BOOLEAN
    BY <1>4, CallFields DEF GetHit
  <2>2. ~rec.ignore /\ GetCached(r) \in AnswerType
    BY <2>1, GetCachedFits
  <2>3. \A i \in GetCached(r).items :
          /\ i.of = r /\ i.age <= Oldest
          /\ \E e \in cache' : /\ e.key.index = "item" /\ e.key.scope = r.scope
                               /\ e.age = i.age
    BY <2>1, CachedAges
  <2> HIDE DEF old
  <2>4. /\ S3!AfterBucket(rec, GetCached(r)) \in CallType
        /\ CallMoves(cache', old, S3!AfterBucket(rec, GetCached(r)))
    BY ZenonT(60), <1>2, <2>2, <2>3, AfterBucketMoves
  <2> QED BY <1>3, <1>4, <2>4 DEF AgesStep, old
<1>5. CASE Set(c, new)
  <2>1. r \in Place
    BY NoResource
  <2>2. /\ new \in CallType /\ new.at = "location" /\ new.on = r /\ new.left = rec.left
        /\ new.op = rec.op /\ new.r = rec.r /\ new.ignore = rec.ignore
        /\ new.ticks = rec.ticks /\ new.got = rec.got /\ new.answer = NoAnswer
    BY <2>1 DEF CallType, Steps
  <2>3. NoAnswer.items = {}
    BY DEF NoAnswer
  <2> HIDE DEF new
  <2>4. CallMoves(cache', call[c], new)
    <3>1. CASE rec.op = "LIST"
      BY <1>2, <2>2, <2>3, <3>1, GoesOnWithSame
    <3>2. CASE rec.op # "LIST"
      BY <2>2, <2>3, <3>2 DEF CallMoves, Starts, LooksUp, Lists
    <3> QED BY <3>1, <3>2
  <2> QED BY <1>3, <1>5, <2>2, <2>4 DEF AgesStep
<1> QED BY <1>1, <1>4, <1>5

LEMMA S3ListMoves ==
  ASSUME SourcesInv, source.kind = "S3Source", Ages(cache, call), NEW c \in Callers,
         NEW rec, New(rec), NEW s \in OwnScopes, rec.r = Whole(s), rec.op = "LIST",
         S3!List(c, rec)
  PROVE  AgesStep(c)
<1> DEFINE new == [rec EXCEPT !.at = "list"]
<1>1. /\ cache' = cache
      /\ \/ ListHit(s, ~(~rec.ignore)) /\ Set(c, Done(rec, ListCached(s)))
         \/ ~ListHit(s, ~(~rec.ignore)) /\ Set(c, new)
  <2>1. rec.r.scope = s
    BY DEF Whole
  <2> QED BY <2>1, S3Names DEF S3!List
<1>2. CacheMoves(cache, cache', call)
  BY <1>1, CacheTyped, SameCache
<1>3. rec \in CallType /\ rec.ignore \in BOOLEAN
  BY CallFields DEF New
<1>4. CASE ListHit(s, ~(~rec.ignore)) /\ Set(c, Done(rec, ListCached(s)))
  <2>1. ListHit(s, rec.ignore)
    BY <1>4 DEF ListHit
  <2>2. ListCached(s) \in AnswerType /\ \A i \in ListCached(s).items : i.age <= Oldest
    BY <1>3, <2>1, CachedAges, ListCachedAnswers
  <2>3. /\ Done(rec, ListCached(s)) \in CallType
        /\ Done(rec, ListCached(s)).at = "done" /\ Done(rec, ListCached(s)).got = {}
        /\ Done(rec, ListCached(s)).answer = ListCached(s)
    BY <1>3, <2>2, DoneType
  <2> QED BY <1>2, <1>4, <2>2, <2>3 DEF AgesStep, CallMoves, Ends
<1>5. CASE ~ListHit(s, ~(~rec.ignore)) /\ Set(c, new)
  <2>1. Asks(new, rec, "list", {})
    BY DEF Asks, New, CallType, Steps
  <2> HIDE DEF new
  <2>2. ~rec.ignore => ~Listed(cache', s)
    BY <1>1, <1>5 DEF ListHit, Listed, ListedIn
  <2>3. rec.r.scope = s /\ NoAnswer.items = {}
    BY DEF Whole, NoAnswer
  <2>4. Starts(cache', new)
    BY <2>1, <2>2, <2>3 DEF Asks, Starts, LooksUp
  <2>5. new \in CallType
    BY <2>1 DEF Asks
  <2> QED BY <1>2, <1>5, <2>4, <2>5 DEF AgesStep, CallMoves
<1> QED BY <1>1, <1>4, <1>5

LEMMA S3BeginMoves ==
  ASSUME SourcesInv, source.kind = "S3Source", Ages(cache, call), NEW c \in Callers,
         NEW m \in Methods, NEW s \in OwnScopes, NEW ignore \in BOOLEAN,
         S3!Begin(c, m, s, ignore)
  PROVE  AgesStep(c)
<1>1. CASE \E r \in In(s) : S3!Get(c, NewCall("GET", r, ignore))
  <2>1. PICK r \in Resources : S3!Get(c, NewCall("GET", r, ignore))
    BY <1>1 DEF In
  <2> DEFINE rec == NewCall("GET", r, ignore)
  <2>2. New(rec) /\ rec.r = r /\ rec.op = "GET"
    BY NewCallIsNew
  <2>3. S3!Look(c, rec, rec.r) /\ cache' = cache
    BY <2>1 DEF S3!Get
  <2> HIDE DEF rec
  <2>4. rec \in CallType /\ rec.answer = NoAnswer /\ rec.got = {} /\ rec.left = {}
    BY <2>2 DEF New
  <2> QED BY <2>2, <2>3, <2>4, S3LookMoves
<1>2. CASE S3!List(c, NewCall("LIST", Whole(s), ignore))
  <2> DEFINE rec == NewCall("LIST", Whole(s), ignore)
  <2>1. New(rec) /\ rec.r = Whole(s) /\ rec.op = "LIST"
    BY NewCallIsNew
  <2> HIDE DEF rec
  <2> QED BY <1>2, <2>1, S3ListMoves DEF rec
<1>3. CASE S3!Refuse(c, NewCall(m, Whole(s), ignore))
  <2>1. cache' = cache
    BY <1>3 DEF S3!Refuse
  <2>2. PICK e \in {"NOSCOPE", "OTHER"} :
          Set(c, Done(NewCall(m, Whole(s), ignore), Error(Failure(e, "other"))))
    BY <1>3, S3Names DEF S3!Refuse
  <2> DEFINE rec == NewCall(m, Whole(s), ignore)
             answer == Error(Failure(e, "other"))
             done == Done(rec, answer)
  <2>3. answer.items = {}
    BY DEF Error, NoAnswer
  <2>4. done \in CallType
    BY RefusalFits
  <2>5. done.at = "done" /\ done.got = {} /\ done.answer = answer
    BY DEF Done, NewCall, Idle
  <2>6. CallMoves(cache', call[c], done)
    BY <2>3, <2>5 DEF CallMoves, Ends
  <2>7. CacheMoves(cache, cache', call)
    BY <2>1, CacheTyped, SameCache
  <2> QED BY <2>2, <2>4, <2>6, <2>7 DEF AgesStep
<1> QED BY <1>1, <1>2, <1>3, S3Names DEF S3!Begin

LEMMA S3FailsMoves ==
  ASSUME SourcesInv, source.kind = "S3Source", Ages(cache, call), NEW c \in Callers,
         call[c].at \in {"list", "location", "store"}, NEW e \in ErrorType,
         Set(c, S3!Failed(call[c], e)), cache' = cache
  PROVE  AgesStep(c)
<1> DEFINE rec == call[c]
           new == [rec EXCEPT !.at = "error", !.answer = Error(e)]
<1>1. Set(c, new)
  BY S3Names DEF S3!Failed
<1>2. rec \in CallType
  BY DEF SourcesInv
<1>3. Error(e) \in AnswerType /\ Error(e).items = {}
  BY AnswerTypes
<1>4. rec.op = "LIST" => /\ rec.left \subseteq In(rec.r.scope)
                         /\ rec.on \in Resources => rec.on.scope = rec.r.scope
  BY OfOneScope DEF Lists
<1>5. rec.at \notin {"idle", "done"}
  OBVIOUS
<1> HIDE DEF rec
<1>6. /\ new \in CallType /\ new.at = "error" /\ new.answer = Error(e) /\ new.got = rec.got
      /\ new.op = rec.op /\ new.r = rec.r /\ new.ignore = rec.ignore
      /\ new.ticks = rec.ticks /\ new.on = rec.on /\ new.left = rec.left
  BY <1>2, <1>3 DEF CallType, Steps
<1> HIDE DEF new
<1>7. CallMoves(cache', call[c], new)
  BY <1>3, <1>4, <1>5, <1>6, GoesOnWithSame DEF rec
<1>8. CacheMoves(cache, cache', call)
  BY CacheTyped, SameCache
<1> QED BY <1>1, <1>6, <1>7, <1>8 DEF AgesStep

LEMMA S3ListBucketsMoves ==
  ASSUME SourcesInv, source.kind = "S3Source", Ages(cache, call), NEW c \in Callers,
         S3!ListBuckets(c)
  PROVE  AgesStep(c)
<1> DEFINE rec == call[c]
           found == In(rec.r.scope) \cap world
           new == [rec EXCEPT !.at = "next", !.left = found]
<1>1. /\ rec.at = "list" /\ cache' = cache
      /\ \/ Set(c, Done(rec, Items({})))
         \/ Set(c, new)
         \/ \E e \in AnyFailure(rec) : Set(c, S3!Failed(rec, Unwrapped(e)))
  BY S3Names DEF S3!ListBuckets
<1>2. rec \in CallType /\ rec.answer = NoAnswer /\ Around /\ rec.on = Nothing
  BY <1>1, AtStep DEF Shape, S3Shape
<1>3. CacheMoves(cache, cache', call)
  BY <1>1, CacheTyped, SameCache
<1>4. CASE Set(c, Done(rec, Items({})))
  <2>1. Items({}) \in AnswerType /\ Items({}).items = {}
    BY AnswerTypes
  <2>2. /\ Done(rec, Items({})) \in CallType /\ Done(rec, Items({})).at = "done"
        /\ Done(rec, Items({})).got = {} /\ Done(rec, Items({})).answer = Items({})
    BY <1>2, <2>1, DoneType
  <2> QED BY <1>3, <1>4, <2>1, <2>2 DEF AgesStep, CallMoves, Ends
<1>5. CASE Set(c, new)
  <2>1. found \in SUBSET Resources /\ found \subseteq In(rec.r.scope)
    BY DEF In
  <2>2. NoAnswer.items = {} /\ Nothing \notin Resources
    BY NoResource DEF NoAnswer
  <2> HIDE DEF rec, found
  <2>3. /\ new \in CallType /\ new.at = "next" /\ new.left = found /\ new.on = rec.on
        /\ new.op = rec.op /\ new.r = rec.r /\ new.ignore = rec.ignore
        /\ new.ticks = rec.ticks /\ new.got = rec.got /\ new.answer = rec.answer
    BY <1>2, <2>1 DEF CallType, Steps
  <2> HIDE DEF new
  <2>4. CallMoves(cache', call[c], new)
    BY <1>1, <1>2, <2>1, <2>2, <2>3, GoesOnWithSame DEF rec
  <2> QED BY <1>3, <1>5, <2>3, <2>4 DEF AgesStep
<1>6. ASSUME NEW e \in AnyFailure(rec), Set(c, S3!Failed(rec, Unwrapped(e)))
      PROVE  AgesStep(c)
  <2>1. e \in ErrorType
    BY <1>2, <1>6, FailuresFit
  <2>2. Unwrapped(e) \in ErrorType
    BY <2>1, AnswerTypes
  <2> QED BY <1>1, <1>6, <2>2, S3FailsMoves
<1> QED BY <1>1, <1>4, <1>5, <1>6

LEMMA S3NextBucketMoves ==
  ASSUME SourcesInv, source.kind = "S3Source", Ages(cache, call), NEW c \in Callers,
         NEW r \in call[c].left, S3!NextBucket(c, r)
  PROVE  AgesStep(c)
<1> DEFINE rec == call[c]
           new == [rec EXCEPT !.left = @ \ {r}]
<1>1. /\ rec.at = "next" /\ cache' = cache /\ r \in rec.left
      /\ S3!Look(c, new, r)
  BY DEF S3!NextBucket
<1>2. rec \in CallType /\ rec.answer = NoAnswer /\ rec.op = "LIST"
  BY <1>1, AtStep DEF Shape, S3Shape
<1>3. r \in Resources /\ r.scope = rec.r.scope /\ Lists(rec)
  BY <1>1, <1>2, OfOneScope DEF In, Lists
<1> HIDE DEF rec
<1>4. /\ new \in CallType /\ new.left = rec.left \ {r} /\ new.op = rec.op /\ new.r = rec.r
      /\ new.ignore = rec.ignore /\ new.ticks = rec.ticks /\ new.got = rec.got
      /\ new.answer = rec.answer
  BY <1>2 DEF CallType
<1> HIDE DEF new
<1> QED BY <1>1, <1>2, <1>3, <1>4, S3LookMoves DEF rec

(* A request was answered, and the call goes on to the next step.          *)
LEMMA S3AnsweredMoves ==
  ASSUME SourcesInv, source.kind = "S3Source", Ages(cache, call), NEW c \in Callers,
         call[c].at \notin {"idle", "done", "error"}, NEW new \in CallType,
         new.at \notin {"idle", "done"}, new.left = call[c].left, new.on = call[c].on,
         new.op = call[c].op, new.r = call[c].r, new.ignore = call[c].ignore,
         new.ticks = call[c].ticks, new.got = call[c].got, new.answer = call[c].answer,
         Set(c, new), cache' = cache
  PROVE  AgesStep(c)
<1>1. call[c].answer.items = {}
  BY AtStep DEF NoAnswer
<1>2. call[c].op = "LIST" =>
        /\ call[c].left \subseteq In(call[c].r.scope)
        /\ call[c].on \in Resources => call[c].on.scope = call[c].r.scope
  BY OfOneScope DEF Lists
<1>3. CallMoves(cache', call[c], new)
  BY <1>1, <1>2, GoesOnWithSame
<1>4. CacheMoves(cache, cache', call)
  BY CacheTyped, SameCache
<1> QED BY <1>3, <1>4 DEF AgesStep

LEMMA S3GetLocationMoves ==
  ASSUME SourcesInv, source.kind = "S3Source", Ages(cache, call), NEW c \in Callers,
         S3!GetLocation(c)
  PROVE  AgesStep(c)
<1> DEFINE rec == call[c]
           new == [rec EXCEPT !.at = "parts"]
<1>1. /\ rec.at = "location" /\ cache' = cache
      /\ \/ Set(c, new)
         \/ \E e \in FailuresFor(rec, rec.on) : Set(c, S3!Failed(rec, e))
  BY S3Names DEF S3!GetLocation
<1>2. rec \in CallType
  BY DEF SourcesInv
<1>3. CASE Set(c, new)
  <2> HIDE DEF rec
  <2>1. /\ new \in CallType /\ new.at = "parts" /\ new.left = rec.left /\ new.on = rec.on
        /\ new.op = rec.op /\ new.r = rec.r /\ new.ignore = rec.ignore
        /\ new.ticks = rec.ticks /\ new.got = rec.got /\ new.answer = rec.answer
    BY <1>2 DEF CallType, Steps
  <2> HIDE DEF new
  <2> QED BY <1>1, <1>3, <2>1, S3AnsweredMoves DEF rec
<1>4. ASSUME NEW e \in FailuresFor(rec, rec.on), Set(c, S3!Failed(rec, e))
      PROVE  AgesStep(c)
  <2>1. Around
    BY DEF SourcesInv
  <2>2. e \in ErrorType
    BY <1>2, <1>4, <2>1, FailuresFit
  <2> QED BY <1>1, <1>4, <2>2, S3FailsMoves
<1> QED BY <1>1, <1>3, <1>4

LEMMA S3GetPartsMoves ==
  ASSUME SourcesInv, source.kind = "S3Source", Ages(cache, call), NEW c \in Callers,
         S3!GetParts(c)
  PROVE  AgesStep(c)
<1> DEFINE rec == call[c]
<1>1. rec.at = "parts" /\ cache' = cache
  BY DEF S3!GetParts
<1>2. PICK lost \in SUBSET Parts :
        Set(c, [rec EXCEPT !.at = "store", !.lacks = lost, !.failed = @ \/ lost # {}])
  BY S3Names DEF S3!GetParts
<1> DEFINE new == [rec EXCEPT !.at = "store", !.lacks = lost, !.failed = @ \/ lost # {}]
<1>3. rec \in CallType
  BY DEF SourcesInv
<1> HIDE DEF rec
<1>4. /\ new \in CallType /\ new.at = "store" /\ new.left = rec.left /\ new.on = rec.on
      /\ new.op = rec.op /\ new.r = rec.r /\ new.ignore = rec.ignore
      /\ new.ticks = rec.ticks /\ new.got = rec.got /\ new.answer = rec.answer
  BY <1>3 DEF CallType, Steps
<1>5. Set(c, new)
  BY <1>2
<1> HIDE DEF new
<1> QED BY <1>1, <1>4, <1>5, S3AnsweredMoves DEF rec

LEMMA S3UnconvertedMoves ==
  ASSUME SourcesInv, source.kind = "S3Source", Ages(cache, call), NEW c \in Callers,
         S3!Unconverted(c)
  PROVE  AgesStep(c)
<1>1. /\ call[c].at = "store" /\ cache' = cache
      /\ Set(c, S3!Failed(call[c], Failure("OTHER", "other")))
  BY S3Names DEF S3!Unconverted
<1>2. Failure("OTHER", "other") \in ErrorType
  BY AnswerTypes DEF Seen
<1> QED BY <1>1, <1>2, S3FailsMoves

LEMMA S3StoreOneMoves ==
  ASSUME SourcesInv, source.kind = "S3Source", Ages(cache, call), NEW c \in Callers,
         S3!StoreOne(c)
  PROVE  AgesStep(c)
<1> DEFINE rec == call[c]
           item == Part(rec.on, 0, rec.lacks)
<1>1. /\ rec.at = "store"
      /\ cache' = WithItem(cache, item, Kept)
      /\ Set(c, S3!AfterBucket(rec, Items({item})))
  BY S3Names DEF S3!StoreOne, S3!Duration, Kept
<1>2. /\ rec \in CallType /\ Around /\ call \in [Callers -> CallType]
      /\ rec.on \in Resources /\ Oldest \in Nat
  BY <1>1, AtStep, Times DEF Shape, S3Shape, SourcesInv
<1>3. rec.op = "LIST" =>
        /\ rec.left \subseteq In(rec.r.scope) /\ rec.on.scope = rec.r.scope
        /\ \A i \in rec.got : i.of.scope = rec.r.scope
  BY <1>1, <1>2, OfOneScope DEF Lists
<1> HIDE DEF rec
<1>4. item \in ItemType /\ item.of = rec.on /\ item.age = 0
  BY <1>2, CallFields DEF Part, ItemType
<1> HIDE DEF item
<1>5. CacheMoves(cache, cache', call)
  BY <1>1, <1>2, <1>4, CacheTyped, ReadJustNow
<1>6. Items({item}) \in AnswerType /\ Items({item}).items = {item}
  BY <1>4, AnswerTypes
<1>7. \A i \in Items({item}).items : i.of = rec.on /\ i.age = 0 /\ i.age <= Oldest
  BY <1>2, <1>4, <1>6
<1>8. /\ S3!AfterBucket(rec, Items({item})) \in CallType
      /\ CallMoves(cache', rec, S3!AfterBucket(rec, Items({item})))
  BY <1>1, <1>2, <1>3, <1>6, <1>7, AfterBucketMoves
<1> QED BY <1>1, <1>5, <1>8 DEF AgesStep, rec

LEMMA S3StoreFailureMoves ==
  ASSUME SourcesInv, source.kind = "S3Source", Ages(cache, call), NEW c \in Callers,
         S3!StoreFailure(c)
  PROVE  AgesStep(c)
<1> DEFINE rec == call[c]
           error == rec.answer.error
           new == [rec EXCEPT !.failed = @ \/ error.sees # "NOTFOUND"]
<1>1. /\ rec.at = "error"
      /\ \/ /\ cache' = WithError(cache, ListErrorKey(rec.r.scope), error, Kept)
            /\ Set(c, Done(rec, rec.answer))
         \/ /\ cache' = WithError(cache, GetErrorKey(rec.on), error, Kept)
            /\ Set(c, S3!AfterBucket(new, rec.answer))
  BY S3Names DEF S3!StoreFailure, S3!Duration, Kept
<1>2. rec \in CallType /\ UnderWay(source, rec, world, steady)
  BY <1>1, AtStep
<1>3. rec.answer \in AnswerType /\ rec.answer.items = {}
  BY <1>1, <1>2, CallFields DEF UnderWay
<1>4. \A e \in cache : e.left \in Nat
  BY CacheTyped, Numbers
<1>5. CacheMoves(cache, cache', call)
  <2>1. \A key : key.index \in {"get-error", "list-error"} =>
          CacheMoves(cache, WithError(cache, key, error, Kept), call)
    BY <1>4, CacheTyped, ErrorsAreNoItems
  <2>2. \A s : ListErrorKey(s).index = "list-error"
    BY DEF ListErrorKey, Key
  <2>3. \A r : GetErrorKey(r).index = "get-error"
    BY DEF GetErrorKey, Key
  <2>4. CASE cache' = WithError(cache, ListErrorKey(rec.r.scope), error, Kept)
    <3> HIDE DEF rec, error
    <3>1. ListErrorKey(rec.r.scope).index \in {"get-error", "list-error"}
      BY <2>2
    <3> QED BY <2>1, <2>4, <3>1
  <2>5. CASE cache' = WithError(cache, GetErrorKey(rec.on), error, Kept)
    <3> HIDE DEF rec, error
    <3>1. GetErrorKey(rec.on).index \in {"get-error", "list-error"}
      BY <2>3
    <3> QED BY <2>1, <2>5, <3>1
  <2> QED BY <1>1, <2>4, <2>5
<1>6. CASE Set(c, Done(rec, rec.answer))
  <2>1. /\ Done(rec, rec.answer) \in CallType /\ Done(rec, rec.answer).at = "done"
        /\ Done(rec, rec.answer).got = {} /\ Done(rec, rec.answer).answer = rec.answer
    BY <1>2, <1>3, DoneType
  <2> QED BY <1>3, <1>5, <1>6, <2>1 DEF AgesStep, CallMoves, Ends
<1>7. CASE Set(c, S3!AfterBucket(new, rec.answer))
  <2>1. rec.op = "LIST" => /\ rec.left \subseteq In(rec.r.scope)
                           /\ \A i \in rec.got : i.of.scope = rec.r.scope
    BY <1>1, OfOneScope DEF Lists
  <2> HIDE DEF rec, error
  <2>2. /\ new \in CallType /\ new.op = rec.op /\ new.r = rec.r /\ new.ignore = rec.ignore
        /\ new.ticks = rec.ticks /\ new.left = rec.left /\ new.got = rec.got
    BY <1>2 DEF CallType
  <2> HIDE DEF new
  <2>3. /\ S3!AfterBucket(new, rec.answer) \in CallType
        /\ CallMoves(cache', rec, S3!AfterBucket(new, rec.answer))
    BY <1>1, <1>3, <2>1, <2>2, AfterBucketMoves
  <2> QED BY <1>5, <1>7, <2>3 DEF AgesStep, rec
<1> QED BY <1>1, <1>6, <1>7

LEMMA S3StoreListedMoves ==
  ASSUME SourcesInv, source.kind = "S3Source", Ages(cache, call), NEW c \in Callers,
         NEW item \in call[c].got, S3!StoreListed(c, item)
  PROVE  AgesStep(c)
<1> DEFINE rec == call[c]
           rest == rec.left \ {item.of}
           new == [rec EXCEPT !.left = rest]
<1>1. /\ rec.at = "again"
      /\ cache' = WithListed(cache, item, Kept)
      /\ \/ Set(c, Done(rec, Items(rec.got)))
         \/ Set(c, new)
  BY S3Names DEF S3!StoreListed, S3!Duration, Kept
<1>2. /\ rec \in CallType /\ Begun(source, rec, world) /\ rec.answer = NoAnswer
      /\ rec.op = "LIST" /\ Lists(rec) /\ rec.got \in SUBSET ItemType /\ Around
  <2>1. /\ rec \in CallType /\ Begun(source, rec, world) /\ rec.answer = NoAnswer
        /\ rec.op = "LIST" /\ Around
    BY <1>1, AtStep DEF Shape, S3Shape
  <2> QED BY <1>1, <2>1, CallFields DEF Lists
<1>3. CacheMoves(cache, cache', call)
  BY <1>1, <1>2, StoredWithList
<1>4. \A i \in rec.got : i.age <= Oldest
  <2> SUFFICES ASSUME NEW i \in rec.got PROVE i.age <= Oldest
    OBVIOUS
  <2>1. /\ Kept \in Nat /\ source.Deadline \in Nat /\ i.age \in Nat
        /\ rec.ticks \in Nat /\ rec.ticks <= source.Deadline
    BY <1>2, Times, CallFields, Numbers DEF Begun
  <2>2. CASE rec.ignore
    <3>1. i.age <= rec.ticks
      BY <1>2, <2>2 DEF Ages, AgesOfCall
    <3> QED BY <2>1, <3>1 DEF Oldest
  <2>3. CASE ~rec.ignore
    <3>1. AgesOfTwo(rec, rec)
      BY DEF Ages
    <3>2. i.age <= Kept + source.Deadline + rec.ticks
      BY <1>2, <2>3, <3>1 DEF AgesOfTwo, LooksUp
    <3> QED BY <2>1, <3>2 DEF Oldest
  <2> QED BY <2>2, <2>3
<1>5. CASE Set(c, Done(rec, Items(rec.got)))
  <2>1. Items(rec.got) \in AnswerType /\ Items(rec.got).items = rec.got
    BY <1>2, AnswerTypes
  <2>2. /\ Done(rec, Items(rec.got)) \in CallType /\ Done(rec, Items(rec.got)).at = "done"
        /\ Done(rec, Items(rec.got)).got = {}
        /\ Done(rec, Items(rec.got)).answer = Items(rec.got)
    BY <1>2, <2>1, DoneType
  <2> QED BY <1>3, <1>4, <1>5, <2>1, <2>2 DEF AgesStep, CallMoves, Ends
<1>6. CASE Set(c, new)
  <2>1. /\ rec.left \subseteq In(rec.r.scope)
        /\ rec.on \in Resources => rec.on.scope = rec.r.scope
    BY <1>2, OfOneScope
  <2>2. NoAnswer.items = {}
    BY DEF NoAnswer
  <2> HIDE DEF rec
  <2>3. /\ new \in CallType /\ new.left = rest /\ new.at = rec.at /\ new.got = rec.got
        /\ new.op = rec.op /\ new.r = rec.r /\ new.on = rec.on /\ new.answer = rec.answer
        /\ new.ignore = rec.ignore /\ new.ticks = rec.ticks
    BY <1>2 DEF CallType
  <2> HIDE DEF new
  <2>4. CallMoves(cache', call[c], new)
    BY <1>1, <1>2, <2>1, <2>2, <2>3, GoesOnWithSame DEF rec
  <2> QED BY <1>3, <1>6, <2>3, <2>4 DEF AgesStep
<1> QED BY <1>1, <1>5, <1>6

LEMMA S3StepMoves ==
  ASSUME SourcesInv, source.kind = "S3Source", Ages(cache, call), NEW c \in Callers,
         S3!Step(c)
  PROVE  AgesStep(c)
<1>1. CASE \E m \in Methods, s \in OwnScopes, ignore \in BOOLEAN : S3!Begin(c, m, s, ignore)
  BY <1>1, S3BeginMoves
<1>2. CASE \E r \in call[c].left : S3!NextBucket(c, r)
  BY <1>2, S3NextBucketMoves
<1>3. CASE \E item \in call[c].got : S3!StoreListed(c, item)
  BY <1>3, S3StoreListedMoves
<1> QED BY <1>1, <1>2, <1>3, S3ListBucketsMoves, S3GetLocationMoves, S3GetPartsMoves,
          S3StoreOneMoves, S3UnconvertedMoves, S3StoreFailureMoves DEF S3!Step

-----------------------------------------------------------------------------
(* The steps of the environment.                                           *)

LEMMA ChangeMoves ==
  ASSUME SourcesInv, source.kind = "S3Source", Ages(cache, call), NEW r \in Resources,
         Change(r), UNCHANGED source
  PROVE  Ages(cache, call)'
<1>1. \A c \in Callers :
        /\ call'[c].at = call[c].at /\ call'[c].op = call[c].op /\ call'[c].r = call[c].r
        /\ call'[c].ignore = call[c].ignore /\ call'[c].ticks = call[c].ticks
        /\ call'[c].left = call[c].left /\ call'[c].on = call[c].on
        /\ call'[c].got = call[c].got /\ call'[c].answer = call[c].answer
  <2> SUFFICES ASSUME NEW c \in Callers
               PROVE  LET new == call'[c]  rec == call[c] IN
                      /\ new.at = rec.at /\ new.op = rec.op /\ new.r = rec.r
                      /\ new.ignore = rec.ignore /\ new.ticks = rec.ticks
                      /\ new.left = rec.left /\ new.on = rec.on
                      /\ new.got = rec.got /\ new.answer = rec.answer
    OBVIOUS
  <2> DEFINE rec == call[c]
  <2>1. rec \in CallType
    BY DEF SourcesInv
  <2>2. call'[c] = rec \/ call'[c] = [rec EXCEPT !.ever = @ \cup world']
    BY DEF Change
  <2> HIDE DEF rec
  <2>3. LET new == call'[c] IN
        /\ new.at = rec.at /\ new.op = rec.op /\ new.r = rec.r
        /\ new.ignore = rec.ignore /\ new.ticks = rec.ticks
        /\ new.left = rec.left /\ new.on = rec.on
        /\ new.got = rec.got /\ new.answer = rec.answer
    BY <2>1, <2>2 DEF CallType
  <2> QED BY <2>3 DEF rec
<1>2. cache' = cache /\ source' = source
  BY DEF Change
<1>3. AgesOfCache(cache)'
  BY <1>2 DEF Ages, AgesOfCache, Oldest
<1>4. \A c \in Callers : Lists(call[c])' = Lists(call[c]) /\ LooksUp(call[c])' = LooksUp(call[c])
  BY <1>1 DEF Lists, LooksUp
<1>5. \A c \in Callers : AgesOfCall(cache, call[c])'
  BY <1>1, <1>2, <1>4 DEF Ages, AgesOfCall, AgesOfList, Oldest
<1>6. \A c, d \in Callers : AgesOfTwo(call[c], call[d])'
  BY <1>1, <1>2, <1>4 DEF Ages, AgesOfTwo
<1> QED BY <1>3, <1>5, <1>6 DEF Ages

LEMMA ReturnMoves ==
  ASSUME SourcesInv, NEW c \in Callers, Return(c)
  PROVE  AgesStep(c)
<1>1. Idle \in CallType /\ Idle.at = "idle" /\ Idle.got = {} /\ Idle.answer.items = {}
  BY IdleType DEF Idle, NoAnswer
<1>2. CacheMoves(cache, cache', call)
  BY CacheTyped, SameCache DEF Return
<1> QED BY <1>1, <1>2 DEF AgesStep, CallMoves, Ends, Return

LEMMA EndContextMoves ==
  ASSUME SourcesInv, source.kind = "S3Source", Ages(cache, call), NEW c \in Callers,
         EndContext(c)
  PROVE  AgesStep(c)
<1> DEFINE rec == call[c]
           new == [rec EXCEPT !.ended = TRUE]
<1>1. /\ rec.at \notin {"idle", "done", "error"} /\ cache' = cache /\ Set(c, new)
      /\ rec \in CallType
  BY DEF EndContext, SourcesInv
<1> HIDE DEF rec
<1>2. /\ new \in CallType /\ new.at = rec.at /\ new.left = rec.left /\ new.on = rec.on
      /\ new.op = rec.op /\ new.r = rec.r /\ new.ignore = rec.ignore
      /\ new.ticks = rec.ticks /\ new.got = rec.got /\ new.answer = rec.answer
  BY <1>1 DEF CallType
<1> HIDE DEF new
<1> QED BY <1>1, <1>2, S3AnsweredMoves DEF rec

(* An entry and an item in a unit of time.                                 *)
Grown(e) == [e EXCEPT !.left = @ - 1, !.age = AgeAfter(@)]

LEMMA GrownEntry ==
  ASSUME Around, NEW e \in EntryType, e.left > 0
  PROVE  /\ Grown(e).key = e.key
         /\ Grown(e).left = e.left - 1 /\ Grown(e).left \in Nat
         /\ Grown(e).age \in Nat /\ Grown(e).age <= e.age + 1
<1>1. e.left \in Nat /\ e.age \in Nat /\ source.told \in Nat
  BY Numbers, SourceTypes DEF Around
<1>2. AgeAfter(e.age) \in Nat /\ AgeAfter(e.age) <= e.age + 1 /\ e.left - 1 \in Nat
  BY <1>1 DEF AgeAfter
<1>3. /\ Grown(e).key = e.key /\ Grown(e).left = e.left - 1
      /\ Grown(e).age = AgeAfter(e.age)
  BY DEF Grown, EntryType
<1> QED BY <1>2, <1>3

LEMMA GrownItems ==
  ASSUME Around, NEW items \in SUBSET ItemType, NEW j \in Older(items)
  PROVE  \E i \in items : j.of = i.of /\ j.age \in Nat /\ j.age <= i.age + 1
<1>1. PICK i \in items : j = [i EXCEPT !.age = AgeAfter(@)]
  BY DEF Older
<1>2. i.age \in Nat /\ source.told \in Nat
  BY Numbers, SourceTypes DEF Around
<1>3. AgeAfter(i.age) \in Nat /\ AgeAfter(i.age) <= i.age + 1
  BY <1>2 DEF AgeAfter
<1>4. j.of = i.of /\ j.age = AgeAfter(i.age)
  BY <1>1 DEF ItemType
<1> QED BY <1>3, <1>4

(* Time passes: a List is under way for less time than what it stored is   *)
(* kept, so that what is listed in its scope is not forgotten.             *)
LEMMA TickMoves ==
  ASSUME SourcesInv, source.kind = "S3Source", ShortCalls, Ages(cache, call), Tick,
         UNCHANGED source
  PROVE  Ages(cache, call)'
<1>1. /\ Around /\ cache \in SUBSET EntryType /\ call \in [Callers -> CallType]
      /\ source' = source /\ Oldest' = Oldest
  BY DEF SourcesInv, CacheFits, Oldest
<1>2. /\ Kept \in Nat /\ source.Deadline \in Nat /\ source.Deadline <= Kept
      /\ Oldest \in Nat
  BY <1>1, Times
<1>3. ASSUME NEW e \in cache'
      PROVE  \E old \in cache :
               /\ old.left \in Nat /\ old.age \in Nat /\ old.left > 0
               /\ e.key = old.key /\ e.left = old.left - 1 /\ e.left \in Nat
               /\ e.age \in Nat /\ e.age <= old.age + 1
  <2>1. PICK old \in cache : old.left > 0 /\ e = Grown(old)
    BY <1>3 DEF Tick, Grown
  <2>2. /\ old.left \in Nat /\ old.age \in Nat
        /\ Grown(old).key = old.key
        /\ Grown(old).left = old.left - 1 /\ Grown(old).left \in Nat
        /\ Grown(old).age \in Nat /\ Grown(old).age <= old.age + 1
    BY <1>1, <2>1, Numbers, GrownEntry
  <2> QED BY <2>1, <2>2
<1>4. ASSUME NEW f \in cache, f.left > 0
      PROVE  \E g \in cache' : g.key = f.key /\ g.left = f.left - 1
  <2>1. Grown(f) \in cache'
    BY <1>4 DEF Tick, Grown
  <2>2. Grown(f).key = f.key /\ Grown(f).left = f.left - 1
    BY <1>1, <1>4, GrownEntry
  <2> QED BY <2>1, <2>2
<1>5. AgesOfCache(cache')
  <2>1. ASSUME NEW e \in cache', e.key.index \in {"item", "listed"}
        PROVE  e.left + e.age <= Oldest
    <3>1. PICK old \in cache :
             /\ old.left \in Nat /\ old.age \in Nat /\ old.left > 0
             /\ e.key = old.key /\ e.left = old.left - 1 /\ e.left \in Nat
             /\ e.age \in Nat /\ e.age <= old.age + 1
      BY <1>3
    <3>2. old.left + old.age <= Oldest
      BY <2>1, <3>1 DEF Ages, AgesOfCache
    <3> QED BY <1>2, <3>1, <3>2
  <2>2. ASSUME NEW e \in cache', e.key.index = "item"
        PROVE  \/ e.left + e.age <= Kept
               \/ \E f \in cache' : /\ f.key.index = "listed" /\ f.key.scope = e.key.scope
                                    /\ e.left <= f.left
    <3>1. PICK old \in cache :
             /\ old.left \in Nat /\ old.age \in Nat /\ old.left > 0
             /\ e.key = old.key /\ e.left = old.left - 1 /\ e.left \in Nat
             /\ e.age \in Nat /\ e.age <= old.age + 1
      BY <1>3
    <3>2. CASE old.left + old.age <= Kept
      BY <1>2, <3>1, <3>2
    <3>3. CASE \E f \in cache : /\ f.key.index = "listed" /\ f.key.scope = old.key.scope
                               /\ old.left <= f.left
      <4>1. PICK f \in cache : /\ f.key.index = "listed" /\ f.key.scope = old.key.scope
                              /\ old.left <= f.left
        BY <3>3
      <4>2. f.left \in Nat /\ f.left > 0
        BY <1>1, <3>1, <4>1, Numbers
      <4>3. PICK g \in cache' : g.key = f.key /\ g.left = f.left - 1
        BY <1>4, <4>2
      <4>4. e.left <= g.left
        BY <3>1, <4>1, <4>2, <4>3
      <4> QED BY <3>1, <4>1, <4>3, <4>4
    <3> QED BY <2>2, <3>1, <3>2, <3>3 DEF Ages, AgesOfCache
  <2> QED BY <1>1, <2>1, <2>2 DEF AgesOfCache
<1>6. ASSUME NEW c \in Callers, call[c].at # "idle"
      PROVE  /\ call'[c].at = call[c].at /\ call'[c].op = call[c].op /\ call'[c].r = call[c].r
             /\ call'[c].ignore = call[c].ignore /\ call'[c].ticks = call[c].ticks + 1
             /\ call'[c].left = call[c].left /\ call'[c].on = call[c].on
             /\ call'[c].got = Older(call[c].got) /\ call'[c].answer = call[c].answer
             /\ call[c].ticks \in Nat /\ call[c].got \in SUBSET ItemType
             /\ call[c].ticks + 1 <= source.Deadline
  <2> DEFINE rec == call[c]
  <2>1. rec \in CallType /\ rec.ticks \in Nat /\ rec.got \in SUBSET ItemType
    BY <1>1, CallFields
  <2>2. /\ call'[c] = [rec EXCEPT !.ticks = @ + 1, !.got = Older(@)]
        /\ rec.ticks < source.Deadline
    BY <1>6 DEF Tick
  <2> HIDE DEF rec
  <2>3. /\ call'[c].at = rec.at /\ call'[c].op = rec.op /\ call'[c].r = rec.r
        /\ call'[c].ignore = rec.ignore /\ call'[c].ticks = rec.ticks + 1
        /\ call'[c].left = rec.left /\ call'[c].on = rec.on
        /\ call'[c].got = Older(rec.got) /\ call'[c].answer = rec.answer
    BY <2>1, <2>2 DEF CallType
  <2>4. rec.ticks + 1 <= source.Deadline
    BY <1>2, <2>1, <2>2
  <2> QED BY <2>1, <2>3, <2>4 DEF rec
<1>7. ASSUME NEW c \in Callers, call[c].at = "idle"
      PROVE  call'[c] = call[c]
  BY <1>7 DEF Tick
<1>8. ASSUME NEW c \in Callers, Lists(call[c]), call[c].ignore
      PROVE  \A i \in call'[c].got : i.age <= call'[c].ticks
  <2> SUFFICES ASSUME NEW j \in call'[c].got PROVE j.age <= call'[c].ticks
    OBVIOUS
  <2>1. /\ call'[c].got = Older(call[c].got) /\ call'[c].ticks = call[c].ticks + 1
        /\ call[c].ticks \in Nat /\ call[c].got \in SUBSET ItemType
    BY <1>6, <1>8 DEF Lists
  <2>2. PICK i \in call[c].got : j.of = i.of /\ j.age \in Nat /\ j.age <= i.age + 1
    BY <1>1, <2>1, GrownItems
  <2>3. i.age \in Nat /\ i.age <= call[c].ticks
    BY <1>8, <2>1, Numbers DEF Ages, AgesOfCall
  <2> QED BY <2>1, <2>2, <2>3
<1>9. ASSUME NEW c \in Callers, LooksUp(call[c])
      PROVE  AgesOfList(cache', call'[c])
  <2> DEFINE s == call[c].r.scope
  <2>1. /\ call'[c].got = Older(call[c].got) /\ call'[c].ticks = call[c].ticks + 1
        /\ call[c].ticks \in Nat /\ call[c].got \in SUBSET ItemType
        /\ call'[c].r = call[c].r /\ call[c].ticks + 1 <= source.Deadline
    BY <1>6, <1>9 DEF LooksUp, Lists
  <2>2. AgesOfList(cache, call[c])
    BY <1>9 DEF Ages, AgesOfCall
  <2>3. Listed(cache, s) => Listed(cache', s)
    <3> SUFFICES ASSUME NEW f \in cache, f.key.index = "listed", f.key.scope = s
                 PROVE  Listed(cache', s)
      BY DEF Listed
    <3>1. f.left \in Nat /\ Kept <= f.left + call[c].ticks
      BY <1>1, <2>2, Numbers DEF AgesOfList
    <3>2. f.left > 0
      BY <1>2, <2>1, <3>1
    <3> QED BY <1>4, <3>2 DEF Listed
  <2>4. ASSUME NEW j \in call'[c].got
        PROVE  j.age <= Kept + call'[c].ticks \/ Listed(cache', s)
    <3>1. PICK i \in call[c].got : j.of = i.of /\ j.age \in Nat /\ j.age <= i.age + 1
      BY <1>1, <2>1, <2>4, GrownItems
    <3>2. i.age \in Nat /\ (i.age <= Kept + call[c].ticks \/ Listed(cache, s))
      BY <2>1, <2>2, Numbers DEF AgesOfList
    <3> HIDE DEF s
    <3> QED BY <1>2, <2>1, <2>3, <3>1, <3>2
  <2>5. ASSUME NEW e \in cache', e.key.scope = s
        PROVE  /\ e.key.index = "listed" => Kept <= e.left + call'[c].ticks
               /\ e.key.index = "item" => e.age <= Kept + source.Deadline + call'[c].ticks
    <3>1. PICK old \in cache :
             /\ old.left \in Nat /\ old.age \in Nat /\ old.left > 0
             /\ e.key = old.key /\ e.left = old.left - 1 /\ e.left \in Nat
             /\ e.age \in Nat /\ e.age <= old.age + 1
      BY <1>3
    <3>2. /\ old.key.index = "listed" => Kept <= old.left + call[c].ticks
          /\ old.key.index = "item" => old.age <= Kept + source.Deadline + call[c].ticks
      BY <2>2, <2>5, <3>1 DEF AgesOfList
    <3> QED BY <1>2, <2>1, <3>1, <3>2
  <2> QED BY <1>1, <2>1, <2>4, <2>5 DEF AgesOfList
<1>10. ASSUME NEW c \in Callers
       PROVE  AgesOfCall(cache', call'[c])
  <2>1. CASE call[c].at = "idle"
    BY <1>7, <2>1 DEF Ages, AgesOfCall, Lists, LooksUp
  <2>2. CASE call[c].at # "idle"
    <3>1. AgesOfCall(cache, call[c])
      BY DEF Ages
    <3>2. call[c].op # "LIST" => call'[c].got = {}
      BY <1>6, <2>2, <3>1 DEF AgesOfCall, Older
    <3>3. /\ Lists(call'[c]) <=> Lists(call[c])
          /\ LooksUp(call'[c]) <=> LooksUp(call[c])
      BY <1>6, <2>2 DEF Lists, LooksUp
    <3>4. ASSUME Lists(call[c]), NEW j \in call'[c].got
          PROVE  j.of.scope = call[c].r.scope
      <4>1. /\ call'[c].got = Older(call[c].got) /\ call[c].got \in SUBSET ItemType
        BY <1>6, <2>2
      <4>2. PICK i \in call[c].got : j.of = i.of
        BY <1>1, <3>4, <4>1, GrownItems
      <4> QED BY <3>1, <3>4, <4>2 DEF AgesOfCall
    <3> QED BY <1>6, <1>8, <1>9, <2>2, <3>1, <3>2, <3>3, <3>4 DEF AgesOfCall
  <2> QED BY <2>1, <2>2
<1>11. ASSUME NEW c \in Callers, NEW d \in Callers
       PROVE  AgesOfTwo(call'[c], call'[d])
  <2> SUFFICES ASSUME LooksUp(call'[c]), Lists(call'[d]), call'[c].r.scope = call'[d].r.scope,
                      NEW j \in call'[d].got
               PROVE  j.age <= Kept + source.Deadline + call'[c].ticks
    BY DEF AgesOfTwo
  <2>1. call[c].at # "idle" /\ call[d].at # "idle"
    BY <1>7 DEF LooksUp, Lists
  <2>2. /\ LooksUp(call[c]) /\ Lists(call[d]) /\ call[c].r.scope = call[d].r.scope
        /\ call'[d].got = Older(call[d].got) /\ call[d].got \in SUBSET ItemType
        /\ call'[c].ticks = call[c].ticks + 1 /\ call[c].ticks \in Nat
    BY <1>6, <2>1 DEF LooksUp, Lists
  <2>3. PICK i \in call[d].got : j.of = i.of /\ j.age \in Nat /\ j.age <= i.age + 1
    BY <1>1, <2>2, GrownItems
  <2>4. AgesOfTwo(call[c], call[d])
    BY DEF Ages
  <2>5. i.age \in Nat /\ i.age <= Kept + source.Deadline + call[c].ticks
    BY <2>2, <2>3, <2>4, Numbers DEF AgesOfTwo
  <2> QED BY <1>2, <2>2, <2>3, <2>5
<1>12. Ages(cache', call')
  BY <1>5, <1>10, <1>11 DEF Ages
<1> QED BY <1>1, <1>12 DEF Ages, AgesOfCache, AgesOfCall, AgesOfList, AgesOfTwo

-----------------------------------------------------------------------------
LEMMA InitAges == Init => AgesInv
<1> SUFFICES ASSUME Init PROVE Ages(cache, call)
  BY DEF AgesInv
<1>1. Idle.at = "idle" /\ Idle.got = {} /\ Idle.answer.items = {}
  BY DEF Idle, NoAnswer
<1>2. \A c \in Callers : call[c] = Idle
  BY DEF Init
<1>3. AgesOfCache(cache)
  BY DEF Init, AgesOfCache
<1> QED BY <1>1, <1>2, <1>3
        DEF Ages, AgesOfCall, AgesOfTwo, Lists, LooksUp

LEMMA NextKeepsAges ==
  ASSUME SourcesInv, SourcesInv', ShortCalls, AgesInv, [Next]_sourceVars
  PROVE  AgesInv'
<1>1. CASE UNCHANGED sourceVars
  BY <1>1 DEF sourceVars, AgesInv, Ages, AgesOfCache, AgesOfCall, AgesOfList, AgesOfTwo, Oldest
<1>2. CASE Next
  <2>1. source' = source
    BY <1>2 DEF Next, Describe!Next, GetList!Next, AlwaysGet!Next, S3!Next
  <2> SUFFICES ASSUME source.kind = "S3Source" PROVE Ages(cache, call)'
    BY <2>1 DEF AgesInv
  <2>2. Ages(cache, call)
    BY DEF AgesInv
  <2>3. S3!Next
    BY <1>2 DEF Next
  <2>4. CASE Environment
    <3>1. CASE \E r \in Resources : Change(r)
      BY <2>1, <2>2, <3>1, ChangeMoves
    <3>2. CASE Tick
      BY <2>1, <2>2, <3>2, TickMoves
    <3>3. CASE \E c \in Callers : EndContext(c)
      BY <2>1, <2>2, <3>3, EndContextMoves, AgesStepKeeps
    <3>4. CASE \E c \in Callers : Return(c)
      BY <2>1, <2>2, <3>4, ReturnMoves, AgesStepKeeps
    <3> QED BY <2>4, <3>1, <3>2, <3>3, <3>4 DEF Environment
  <2>5. CASE \E c \in Callers : S3!Step(c)
    BY <2>1, <2>2, <2>5, S3StepMoves, AgesStepKeeps
  <2> QED BY <2>3, <2>4, <2>5, S3Names DEF S3!Next
<1> QED BY <1>1, <1>2

(* An S3 List, and only that, stores again what it found in the cache; if  *)
(* no call takes as long as an entry is kept, no answer is older than      *)
(* twice the duration and the time of the calls. Of the sources that store *)
(* nothing again an answer is older than the duration by that time only.   *)
THEOREM NothingProlongs == ASSUME ShortCalls PROVE Spec => []NeverProlonged
<1>1. Spec => [](SourcesInv /\ AgesInv)
  <2>1. SourcesInv /\ AgesInv /\ [Next]_sourceVars => AgesInv'
    BY NextKeepsInv, NextKeepsAges
  <2> QED BY <2>1, InitAges, AlwaysSourcesInv, PTL DEF Spec
<1>2. ASSUME SourcesInv, AgesInv PROVE NeverProlonged
  <2>1. CASE StoresOnce(source)
    <3>1. NotTooOld
      BY <1>2, <2>1, StoredOnceIsYoung
    <3> QED BY <2>1, <3>1, Zenon DEF NeverProlonged, StoresOnce
  <2>2. CASE source.kind = "S3Source"
    <3>1. ASSUME NEW c \in Callers, NEW i \in call[c].answer.items
          PROVE  i.age <= MaxAgeStoredAgain
      <4>1. /\ cacheDuration = Kept /\ Kept \in Nat /\ source.Deadline \in Nat
        BY <1>2, <2>2, Times DEF SourcesInv
      <4>2. i.age <= Oldest
        BY <1>2, <2>2 DEF AgesInv, Ages, AgesOfCall
      <4>3. i.age \in Nat
        <5>1. call[c] \in CallType
          BY <1>2 DEF SourcesInv
        <5> QED BY <5>1, CallFields, Numbers DEF AnswerType
      <4> QED BY <4>1, <4>2, <4>3 DEF Oldest, MaxAgeStoredAgain, MaxAge
    <3>2. StoredAgainOnce
      BY <3>1 DEF StoredAgainOnce
    <3> QED BY <2>2, <3>2, Zenon DEF NeverProlonged
  <2>3. CASE source.kind = "AlwaysGetSource"
    BY <2>3, Zenon DEF NeverProlonged
  <2>4. source.kind \in Kinds
    BY <1>2, SourceTypes DEF SourcesInv, Around
  <2> QED BY <2>1, <2>2, <2>3, <2>4 DEF Kinds, StoresOnce
<1> QED BY <1>1, <1>2, PTL
=============================================================================
