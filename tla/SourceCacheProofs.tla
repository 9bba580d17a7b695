------------------------- MODULE SourceCacheProofs -------------------------
(***************************************************************************)
(* The invariant that the four kinds of caching sources share, stated of   *)
(* one entry of the cache and of one call, and that the steps of their     *)
(* environment keep it: resources come and go, time passes, contexts end,  *)
(* answers are taken. Module SourcesProofs has the steps of the sources.   *)
(*                                                                         *)
(* The parts of the invariant are operators of the state they are about    *)
(* (the source src, the resources W that exist and those, S, that always   *)
(* did), so that what is proved of them holds before and after a step.     *)
(***************************************************************************)
EXTENDS Sources, TLAPS

Place == [scope : OwnScopes \cup {"any", "elsewhere"}, name : Names \cup {"any"}]
Seen == {"none", "NOSCOPE", "NOTFOUND", "OTHER"}
ErrorType == [sees : Seen, wraps : Seen, cause : {"none", "context", "other"}]
ItemType == [of : Resources, age : Nat, lacks : SUBSET Parts]
AnswerType ==
  [kind : {"none", "items", "error"}, items : SUBSET ItemType, error : ErrorType]
KeyType ==
  [index : {"item", "listed", "get-error", "list-error"},
   scope : OwnScopes, name : Names \cup {"any"}]
EntryType ==
  [key : KeyType, error : ErrorType, left : Nat, age : Nat, lacks : SUBSET Parts]
Steps == {"idle", "fetch", "get", "list", "next", "location", "parts", "tags", "items",
          "store", "again", "error", "done"}
CallType ==
  [at : Steps, op : {"none", "GET", "LIST", "SEARCH"}, r : Place, arn : Place,
   ignore : BOOLEAN, left : SUBSET Resources, on : Place, got : SUBSET ItemType,
   lacks : SUBSET Parts, answer : AnswerType, ticks : Nat, ended : BOOLEAN,
   failed : BOOLEAN, ever : SUBSET Resources]

LEMMA SourceTypes ==
  ASSUME NEW src \in Sources
  PROVE  /\ src.kind \in Kinds /\ src.CacheDuration \in Nat /\ src.Deadline \in Nat
         /\ src.cancels \in BOOLEAN /\ src.told \in Nat
BY SourceCacheAssumption

(* What is asked of a whole scope, or of nothing, is no resource.          *)
LEMMA NoResource ==
  /\ Nothing \in Place /\ Nothing \notin Resources
  /\ \A s \in OwnScopes : Whole(s) \in Place /\ Whole(s) \notin Resources
  /\ Resources \subseteq Place
  /\ \A r \in Resources : r.scope \in OwnScopes /\ r.name \in Names /\ r.name # "any"
BY SourceCacheAssumption DEF Nothing, Whole, Place, Resources

LEMMA IdleType == Idle \in CallType /\ NoAnswer \in AnswerType /\ NoError \in ErrorType
<1>1. NoError \in ErrorType
  BY DEF NoError, ErrorType, Seen
<1>2. NoAnswer \in AnswerType
  BY <1>1 DEF NoAnswer, AnswerType
<1>3. Nothing \in Place
  BY NoResource
<1>4. Idle \in CallType
  BY <1>2, <1>3 DEF Idle, CallType, Steps
<1> QED BY <1>1, <1>2, <1>4

LEMMA AnswerTypes ==
  /\ \A items \in SUBSET ItemType :
       /\ Items(items) \in AnswerType
       /\ Items(items).kind = "items" /\ Items(items).items = items
       /\ Items(items).error = NoError
  /\ \A error \in ErrorType :
       /\ Error(error) \in AnswerType
       /\ Error(error).kind = "error" /\ Error(error).items = {}
       /\ Error(error).error = error
  /\ \A sees \in Seen, cause \in {"none", "context", "other"} :
       /\ Failure(sees, cause) \in ErrorType
       /\ Failure(sees, cause).sees = sees /\ Failure(sees, cause).wraps = sees
       /\ Failure(sees, cause).cause = cause
  /\ \A error \in ErrorType :
       /\ Unwrapped(error) \in ErrorType
       /\ Unwrapped(error).sees = "OTHER" /\ Unwrapped(error).wraps = error.wraps
       /\ Unwrapped(error).cause = error.cause
<1>1. NoAnswer \in AnswerType
  BY IdleType
<1>2. ASSUME NEW items \in SUBSET ItemType
      PROVE  /\ Items(items) \in AnswerType
             /\ Items(items).kind = "items" /\ Items(items).items = items
             /\ Items(items).error = NoError
  BY <1>1 DEF Items, AnswerType, NoAnswer
<1>3. ASSUME NEW error \in ErrorType
      PROVE  /\ Error(error) \in AnswerType
             /\ Error(error).kind = "error" /\ Error(error).items = {}
             /\ Error(error).error = error
  BY <1>1 DEF Error, AnswerType, NoAnswer
<1>4. ASSUME NEW sees \in Seen, NEW cause \in {"none", "context", "other"}
      PROVE  /\ Failure(sees, cause) \in ErrorType
             /\ Failure(sees, cause).sees = sees /\ Failure(sees, cause).wraps = sees
             /\ Failure(sees, cause).cause = cause
  BY DEF Failure, ErrorType
<1>5. ASSUME NEW error \in ErrorType
      PROVE  /\ Unwrapped(error) \in ErrorType
             /\ Unwrapped(error).sees = "OTHER" /\ Unwrapped(error).wraps = error.wraps
             /\ Unwrapped(error).cause = error.cause
  BY DEF Unwrapped, ErrorType, Seen
<1> QED BY <1>2, <1>3, <1>4, <1>5

LEMMA CallFields ==
  ASSUME NEW rec \in CallType
  PROVE  /\ rec.at \in Steps /\ rec.op \in {"none", "GET", "LIST", "SEARCH"}
         /\ rec.r \in Place /\ rec.arn \in Place /\ rec.on \in Place
         /\ rec.ignore \in BOOLEAN /\ rec.ended \in BOOLEAN /\ rec.failed \in BOOLEAN
         /\ rec.left \in SUBSET Resources /\ rec.ever \in SUBSET Resources
         /\ rec.got \in SUBSET ItemType /\ rec.lacks \in SUBSET Parts
         /\ rec.answer \in AnswerType /\ rec.ticks \in Nat
BY DEF CallType

FieldsOfNew(new, op, r, ignore) ==
  /\ new.at = "idle" /\ new.op = op /\ new.r = r /\ new.ignore = ignore
  /\ new.ever = IF ignore THEN world ELSE {}
  /\ new.left = {} /\ new.got = {} /\ new.lacks = {} /\ new.answer = NoAnswer
  /\ new.arn = Nothing /\ new.on = Nothing
  /\ new.ticks = 0 /\ new.ended = FALSE /\ new.failed = FALSE

LEMMA NewCallType ==
  ASSUME world \in SUBSET Resources
  PROVE  \A op \in {"GET", "LIST", "SEARCH"}, r \in Place, ignore \in BOOLEAN :
           /\ NewCall(op, r, ignore) \in CallType
           /\ FieldsOfNew(NewCall(op, r, ignore), op, r, ignore)
<1> TAKE op \in {"GET", "LIST", "SEARCH"}, r \in Place, ignore \in BOOLEAN
<1>1. Idle \in CallType
  BY IdleType
<1> QED BY <1>1 DEF NewCall, CallType, Idle, FieldsOfNew

LEMMA DoneType ==
  ASSUME NEW rec \in CallType, NEW answer \in AnswerType
  PROVE  LET done == Done(rec, answer) IN
         /\ done \in CallType
         /\ done.at = "done" /\ done.answer = answer
         /\ done.op = rec.op /\ done.r = rec.r /\ done.ignore = rec.ignore
         /\ done.ended = rec.ended /\ done.failed = rec.failed /\ done.ever = rec.ever
         /\ done.left = {} /\ done.got = {} /\ done.ticks = 0
<1>1. Nothing \in Place
  BY NoResource
<1> DEFINE done == Done(rec, answer)
<1>2. done \in CallType
  BY <1>1 DEF Done, CallType, Steps
<1>3. /\ done.at = "done" /\ done.answer = answer
      /\ done.op = rec.op /\ done.r = rec.r /\ done.ignore = rec.ignore
      /\ done.ended = rec.ended /\ done.failed = rec.failed /\ done.ever = rec.ever
      /\ done.left = {} /\ done.got = {} /\ done.ticks = 0
  BY DEF Done, CallType
<1> QED BY <1>2, <1>3

LEMMA SetOne ==
  ASSUME call \in [Callers -> CallType], NEW c \in Callers, NEW rec \in CallType, Set(c, rec)
  PROVE  /\ call' \in [Callers -> CallType] /\ call'[c] = rec
         /\ \A d \in Callers : d # c => call'[d] = call[d]
BY DEF Set

-----------------------------------------------------------------------------
(* The invariant of the cache.                                             *)

Lasts(src) == IF src.CacheDuration = 0 THEN DefaultCacheDuration ELSE src.CacheDuration

(* Ages are told from those up to the duration: a bound of the model.      *)
Measured(src) == src.told >= Lasts(src)

(* What a GetListSource that leaves its field unset does not keep.         *)
Unset(src, index) ==
  /\ src.kind = "GetListSource" /\ src.CacheDuration = 0
  /\ index \in {"item", "list-error"}

(* The kinds of sources that store nothing again.                          *)
StoresOnce(src) == src.kind \in {"DescribeOnlySource", "GetListSource"}

(* Whose kind an error keeps: that of WrapAWSError, if not OTHER.          *)
KindKept(src, error) ==
  /\ error.sees \in {error.wraps, "OTHER"}
  /\ src.kind # "GetListSource" /\ (src.kind = "S3Source" => ~BadRequests) =>
       error.sees = error.wraps

(* What an error of a request for r says: of what was always there, never  *)
(* NOTFOUND.                                                               *)
Truthful(error, r, S) == error.sees = "NOTFOUND" /\ ~BadRequests => r \notin S

EntryFits(src, e, S) ==
  /\ KindKept(src, e.error)
  /\ e.key.index \in {"item", "listed"} => e.key.name \in Names /\ e.error = NoError
  /\ e.key.index = "get-error" =>
       /\ e.key.name \in Names
       /\ Truthful(e.error, [scope |-> e.key.scope, name |-> e.key.name], S)
  /\ e.left <= Lasts(src)
  /\ Measured(src) => e.left + e.age >= Lasts(src) \/ (Unset(src, e.key.index) /\ e.left = 0)
  /\ StoresOnce(src) => e.left + e.age <= Lasts(src) + src.Deadline

CacheFits(src, C, S) ==
  /\ C \subseteq EntryType
  /\ \A e, f \in C : e.key = f.key => e = f
  /\ \A e \in C : EntryFits(src, e, S)

(* How long a source may store what it stores under an index.              *)
KeepsFor(src, duration, index) ==
  duration = Lasts(src) \/ (Unset(src, index) /\ duration = 0)

LEMMA PutFits ==
  ASSUME NEW src, NEW S, NEW C, CacheFits(src, C, S),
         NEW e \in EntryType, EntryFits(src, e, S)
  PROVE  CacheFits(src, Put(C, e), S)
BY DEF CacheFits, Put

(* How long an entry is kept and how old it may become, from the time it   *)
(* is stored with an age.                                                  *)
LEMMA KeptAndOld ==
  ASSUME NEW src \in Sources, NEW index, NEW duration, KeepsFor(src, duration, index),
         NEW age \in Nat, StoresOnce(src) => age <= src.Deadline
  PROVE  /\ duration \in Nat /\ duration <= Lasts(src)
         /\ duration + age >= Lasts(src) \/ (Unset(src, index) /\ duration = 0)
         /\ StoresOnce(src) => duration + age <= Lasts(src) + src.Deadline
<1>1. Lasts(src) \in Nat /\ src.Deadline \in Nat
  BY SourceTypes, SourceCacheAssumption DEF Lasts
<1> QED BY <1>1 DEF KeepsFor

LEMMA ItemFits ==
  ASSUME NEW src \in Sources, NEW S, NEW duration,
         NEW item \in ItemType, StoresOnce(src) => item.age <= src.Deadline,
         NEW key \in KeyType, key.index \in {"item", "listed"}, key.name \in Names,
         KeepsFor(src, duration, key.index)
  PROVE  ItemEntry(key, item, duration) \in EntryType
         /\ EntryFits(src, ItemEntry(key, item, duration), S)
<1> DEFINE e == ItemEntry(key, item, duration)
<1>1. /\ e.key = key /\ e.error = NoError /\ e.left = duration /\ e.age = item.age
      /\ item.age \in Nat
  BY DEF ItemEntry, ItemType
<1>4. /\ duration \in Nat /\ duration <= Lasts(src)
      /\ duration + item.age >= Lasts(src) \/ (Unset(src, key.index) /\ duration = 0)
      /\ StoresOnce(src) => duration + item.age <= Lasts(src) + src.Deadline
  BY <1>1, KeptAndOld
<1>2. e \in EntryType
  BY <1>1, <1>4, IdleType DEF ItemEntry, EntryType, ItemType
<1>3. KindKept(src, e.error)
  BY <1>1 DEF KindKept, NoError
<1> QED BY <1>1, <1>2, <1>3, <1>4 DEF EntryFits

LEMMA ItemKeys ==
  ASSUME NEW r \in Resources
  PROVE  /\ ItemKey(r) \in KeyType /\ ItemKey(r).index = "item" /\ ItemKey(r).name \in Names
         /\ ListedKey(r) \in KeyType /\ ListedKey(r).index = "listed"
         /\ ListedKey(r).name \in Names
         /\ GetErrorKey(r) \in KeyType /\ GetErrorKey(r).index = "get-error"
         /\ GetErrorKey(r).name \in Names
         /\ [scope |-> GetErrorKey(r).scope, name |-> GetErrorKey(r).name] = r
BY NoResource DEF ItemKey, ListedKey, GetErrorKey, Key, KeyType, Resources

LEMMA WithItemFits ==
  ASSUME NEW src \in Sources, NEW S, NEW C, CacheFits(src, C, S), NEW duration,
         NEW item \in ItemType, StoresOnce(src) => item.age <= src.Deadline
  PROVE  /\ KeepsFor(src, duration, "item") => CacheFits(src, WithItem(C, item, duration), S)
         /\ KeepsFor(src, duration, "listed") =>
              CacheFits(src, WithListed(C, item, duration), S)
<1>1. item.of \in Resources
  BY DEF ItemType
<1>2. KeepsFor(src, duration, "item") => CacheFits(src, WithItem(C, item, duration), S)
  BY <1>1, ItemKeys, ItemFits, PutFits DEF WithItem
<1>3. ASSUME KeepsFor(src, duration, "listed")
      PROVE  CacheFits(src, WithListed(C, item, duration), S)
  <2>1. KeepsFor(src, duration, "item")
    BY <1>3 DEF KeepsFor, Unset
  <2> QED BY <1>1, <1>2, <1>3, <2>1, ItemKeys, ItemFits, PutFits DEF WithListed
<1> QED BY <1>2, <1>3

LEMMA ErrorEntryFits ==
  ASSUME NEW src \in Sources, NEW S, NEW duration,
         NEW error \in ErrorType, KindKept(src, error), NEW key \in KeyType,
         KeepsFor(src, duration, key.index),
         \/ key.index = "list-error"
         \/ /\ key.index = "get-error" /\ key.name \in Names
            /\ Truthful(error, [scope |-> key.scope, name |-> key.name], S)
  PROVE  ErrorEntry(key, error, duration) \in EntryType
         /\ EntryFits(src, ErrorEntry(key, error, duration), S)
<1> DEFINE e == ErrorEntry(key, error, duration)
<1>1. e.key = key /\ e.error = error /\ e.left = duration /\ e.age = 0
  BY DEF ErrorEntry
<1>3. StoresOnce(src) => 0 <= src.Deadline
  BY SourceTypes
<1>4. /\ duration \in Nat /\ duration <= Lasts(src)
      /\ duration + 0 >= Lasts(src) \/ (Unset(src, key.index) /\ duration = 0)
      /\ StoresOnce(src) => duration + 0 <= Lasts(src) + src.Deadline
  BY <1>3, KeptAndOld
<1>2. e \in EntryType
  BY <1>1, <1>4 DEF ErrorEntry, EntryType
<1> QED BY <1>1, <1>2, <1>4 DEF EntryFits

(* The error of a GET of r, which is not there if the error says so, and   *)
(* that of a LIST.                                                         *)
LEMMA WithErrorFits ==
  ASSUME NEW src \in Sources, NEW S, NEW C, CacheFits(src, C, S), NEW duration,
         NEW error \in ErrorType, KindKept(src, error)
  PROVE  /\ KeepsFor(src, duration, "list-error") => \A s \in OwnScopes :
              CacheFits(src, WithError(C, ListErrorKey(s), error, duration), S)
         /\ KeepsFor(src, duration, "get-error") => \A r \in Resources :
              Truthful(error, r, S) =>
                CacheFits(src, WithError(C, GetErrorKey(r), error, duration), S)
<1>1. ASSUME KeepsFor(src, duration, "list-error"), NEW s \in OwnScopes
      PROVE  CacheFits(src, WithError(C, ListErrorKey(s), error, duration), S)
  <2>1. ListErrorKey(s) \in KeyType /\ ListErrorKey(s).index = "list-error"
    BY DEF ListErrorKey, Key, KeyType
  <2> QED BY <1>1, <2>1, ErrorEntryFits, PutFits DEF WithError
<1>2. ASSUME KeepsFor(src, duration, "get-error"), NEW r \in Resources, Truthful(error, r, S)
      PROVE  CacheFits(src, WithError(C, GetErrorKey(r), error, duration), S)
  BY <1>2, ItemKeys, ErrorEntryFits, PutFits DEF WithError
<1> QED BY <1>1, <1>2

-----------------------------------------------------------------------------
(* The invariant of a call.                                                *)

Of(items) == {i.of : i \in items}

ErrorFits(src, rec, error, S) ==
  /\ KindKept(src, error)
  /\ Truthful(error, rec.r, S)
  /\ rec.ignore /\ error.cause = "context" => rec.ended

(* A List that ignores the cache has what always existed, or will find it  *)
(* in places, and lacks nothing of it.                                     *)
Gathered(rec, items, places, S) ==
  rec.op = "LIST" /\ rec.ignore /\ ~rec.failed =>
    /\ S \cap In(rec.r.scope) \subseteq places \cup Of(items)
    /\ \A i \in items : i.lacks = {}

AnswerFits(src, rec, answer, S) ==
  /\ ErrorFits(src, rec, answer.error, S)
  /\ rec.ignore => Of(answer.items) \subseteq rec.ever
  /\ StoresOnce(src) => \A i \in answer.items : i.age <= Lasts(src) + 2 * src.Deadline
  /\ answer.kind = "items" /\ (src.kind = "S3Source" => ~BadRequests) =>
       Gathered(rec, answer.items, {}, S)

(* What a call has at each step of its source.                             *)
DescribeShape(rec, S) ==
  /\ rec.at \in {"fetch", "store", "error"}
  /\ rec.arn # Nothing => rec.op = "SEARCH" /\ rec.r \in Resources
  /\ rec.at = "fetch" => rec.left # {} /\ Gathered(rec, rec.got, rec.left, S)
  /\ rec.at = "store" => rec.got # {} /\ Gathered(rec, rec.got, {}, S)

GetListShape(rec, S) ==
  /\ rec.at \in {"get", "list", "tags", "items", "error"}
  /\ rec.at \in {"get", "tags", "error"} => rec.op # "LIST" /\ rec.r \in Resources
  /\ rec.at = "get" => rec.left # {}
  /\ rec.at = "list" =>
       rec.left # {} /\ rec.op \in {"LIST", "SEARCH"} /\ Gathered(rec, rec.got, rec.left, S)
  /\ rec.at = "items" => rec.left # {} /\ rec.op = "LIST" /\ Gathered(rec, rec.got, {}, S)

AlwaysGetShape(rec, S) ==
  /\ rec.at \in {"get", "list", "store", "again", "error"}
  /\ rec.arn # Nothing => rec.r \in Resources
  /\ rec.at = "get" => rec.left # {} /\ rec.op # "LIST" /\ rec.r \in Resources
  /\ rec.at = "list" => rec.left # {} /\ Gathered(rec, rec.got, rec.left, S)
  /\ rec.at = "store" => rec.left # {} /\ Gathered(rec, rec.got, {}, S)
  /\ rec.at = "again" => rec.left # {} /\ rec.op = "SEARCH"

(* An S3 List takes a NOTFOUND for the end of a bucket.                    *)
S3Gathered(rec, places, S) == ~BadRequests => Gathered(rec, rec.got, places, S)

S3Shape(rec, S) ==
  /\ rec.at \in {"list", "next", "location", "parts", "store", "error", "again"}
  /\ rec.op # "LIST" => rec.on = rec.r /\ rec.r \in Resources
  /\ rec.at \in {"list", "next", "again"} => rec.on = Nothing /\ rec.op = "LIST"
  /\ rec.at = "list" => rec.got = {}
  /\ rec.at \in {"location", "parts", "store"} => rec.on \in Resources
  /\ rec.at = "error" => rec.on = Nothing \/ rec.on \in Resources
  /\ rec.at \in {"parts", "store"} /\ rec.ignore => rec.on \in rec.ever
  /\ rec.at \in {"next", "again"} => rec.left # {}
  /\ rec.at = "next" => S3Gathered(rec, rec.left, S)
  /\ rec.at = "again" => S3Gathered(rec, {}, S)
  /\ rec.on \in Resources => S3Gathered(rec, rec.left \cup {rec.on}, S)
  /\ rec.at = "store" /\ ~rec.failed => rec.lacks = {}
  /\ rec.at = "error" => Truthful(rec.answer.error, rec.on, S)

Shape(kind, rec, S) ==
  /\ kind = "DescribeOnlySource" => DescribeShape(rec, S)
  /\ kind = "GetListSource" => GetListShape(rec, S)
  /\ kind = "AlwaysGetSource" => AlwaysGetShape(rec, S)
  /\ kind = "S3Source" => S3Shape(rec, S)

Begun(src, rec, W) ==
  /\ rec.op # "none"
  /\ rec.op = "GET" => rec.r \in Resources
  /\ rec.r \notin Resources => \E s \in OwnScopes : rec.r = Whole(s)
  /\ rec.op = "LIST" => \E s \in OwnScopes : rec.r = Whole(s)
  /\ rec.ticks <= src.Deadline
  /\ rec.ignore => W \subseteq rec.ever /\ Of(rec.got) \subseteq rec.ever
  /\ StoresOnce(src) => \A i \in rec.got : i.age <= rec.ticks

UnderWay(src, rec, W, S) ==
  /\ Begun(src, rec, W)
  /\ rec.at # "error" => rec.answer = NoAnswer
  /\ rec.at = "error" =>
       /\ rec.answer.kind = "error" /\ rec.answer.items = {}
       /\ ErrorFits(src, rec, rec.answer.error, S)
  /\ Shape(src.kind, rec, S)

Answering(src, rec, S) ==
  rec.answer.kind # "none" /\ rec.left = {} /\ rec.got = {} /\ AnswerFits(src, rec, rec.answer, S)

CallFits(src, rec, W, S) ==
  \/ rec = Idle
  \/ rec.at = "done" /\ Answering(src, rec, S)
  \/ rec.at \notin {"idle", "done"} /\ UnderWay(src, rec, W, S)

(* Done(record, answer) is in order if the answer is.                      *)
LEMMA DoneFits ==
  ASSUME NEW src, NEW W, NEW S, NEW rec \in CallType, NEW answer \in AnswerType,
         answer.kind # "none", AnswerFits(src, rec, answer, S)
  PROVE  Done(rec, answer) \in CallType /\ CallFits(src, Done(rec, answer), W, S)
<1> DEFINE done == Done(rec, answer)
<1>1. /\ done \in CallType
      /\ done.at = "done" /\ done.answer = answer
      /\ done.op = rec.op /\ done.r = rec.r /\ done.ignore = rec.ignore
      /\ done.ended = rec.ended /\ done.failed = rec.failed /\ done.ever = rec.ever
      /\ done.left = {} /\ done.got = {}
  BY DoneType
<1> HIDE DEF done
<1>2. AnswerFits(src, done, answer, S)
  BY <1>1 DEF AnswerFits, ErrorFits, Gathered
<1> QED BY <1>1, <1>2 DEF CallFits, Answering, done

(* What no step of a source depends on: more that existed at some time,    *)
(* less that always did, the ages of what was got.                         *)
LEMMA ShapeKept ==
  ASSUME NEW kind, NEW S, NEW T \in SUBSET S, NEW rec \in CallType, NEW new \in CallType,
         Shape(kind, rec, S),
         new.at = rec.at, new.op = rec.op, new.r = rec.r, new.arn = rec.arn,
         new.left = rec.left, new.on = rec.on, new.ignore = rec.ignore,
         new.failed = rec.failed, new.lacks = rec.lacks, new.answer = rec.answer,
         rec.ever \subseteq new.ever, Of(new.got) = Of(rec.got),
         (\A i \in rec.got : i.lacks = {}) => \A i \in new.got : i.lacks = {}
  PROVE  Shape(kind, new, T)
<1>1. \A places : Gathered(rec, rec.got, places, S) => Gathered(new, new.got, places, T)
  BY DEF Gathered
<1>2. rec.got = {} <=> new.got = {}
  BY DEF Of
<1>3. \A error, r : Truthful(error, r, S) => Truthful(error, r, T)
  BY DEF Truthful
<1>4. DescribeShape(rec, S) => DescribeShape(new, T)
  BY <1>1, <1>2 DEF DescribeShape
<1>5. GetListShape(rec, S) => GetListShape(new, T)
  BY <1>1 DEF GetListShape
<1>6. AlwaysGetShape(rec, S) => AlwaysGetShape(new, T)
  BY <1>1 DEF AlwaysGetShape
<1>7. S3Shape(rec, S) => S3Shape(new, T)
  BY <1>1, <1>2, <1>3 DEF S3Shape, S3Gathered
<1> QED BY <1>4, <1>5, <1>6, <1>7 DEF Shape

-----------------------------------------------------------------------------
(* The invariant, and what a step of a source on a call has to establish.  *)

Around ==
  /\ source \in Sources
  /\ world \in SUBSET Resources
  /\ steady \in SUBSET world
  /\ ready \in BOOLEAN

SourcesInv ==
  /\ Around
  /\ CacheFits(source, cache, steady)
  /\ call \in [Callers -> CallType]
  /\ \A c \in Callers : CallFits(source, call[c], world, steady)

StepKeeps(c) ==
  /\ UNCHANGED <<world, steady>>
  /\ ready' \in BOOLEAN
  /\ CacheFits(source, cache', steady)
  /\ \E rec \in CallType : Set(c, rec) /\ CallFits(source, rec, world, steady)

LEMMA StepKeepsInv ==
  ASSUME SourcesInv, NEW c \in Callers, StepKeeps(c), UNCHANGED source
  PROVE  SourcesInv'
<1>1. PICK rec \in CallType : Set(c, rec) /\ CallFits(source, rec, world, steady)
  BY DEF StepKeeps
<1>2. /\ call' \in [Callers -> CallType] /\ call'[c] = rec
      /\ \A d \in Callers : d # c => call'[d] = call[d]
  BY <1>1, SetOne DEF SourcesInv
<1>3. \A d \in Callers : CallFits(source, call'[d], world, steady)
  BY <1>1, <1>2 DEF SourcesInv
<1>4. source' = source /\ world' = world /\ steady' = steady
  BY DEF StepKeeps
<1>5. Around' /\ CacheFits(source, cache', steady)
  BY <1>4 DEF SourcesInv, Around, StepKeeps
<1> QED BY <1>2, <1>3, <1>4, <1>5 DEF SourcesInv

LEMMA InitInv == Init => SourcesInv
<1> SUFFICES ASSUME Init PROVE SourcesInv
  OBVIOUS
<1>1. Around
  BY DEF Init, Around
<1>2. CacheFits(source, cache, steady)
  BY DEF Init, CacheFits
<1>3. call \in [Callers -> CallType] /\ \A c \in Callers : call[c] = Idle
  BY IdleType DEF Init
<1> QED BY <1>1, <1>2, <1>3 DEF SourcesInv, CallFits

(* A resource comes or goes.                                               *)
LEMMA ChangeKeepsInv ==
  ASSUME SourcesInv, NEW r \in Resources, Change(r), UNCHANGED source
  PROVE  SourcesInv'
<1>1. /\ world' \in SUBSET Resources
      /\ steady' \in SUBSET world' /\ steady' \in SUBSET steady
      /\ cache' = cache /\ ready' = ready /\ source' = source
  BY DEF Change, SourcesInv, Around
<1>2. Around'
  BY <1>1 DEF SourcesInv, Around
<1>3. CacheFits(source, cache, steady')
  BY <1>1 DEF SourcesInv, CacheFits, EntryFits, Truthful
<1>4. ASSUME NEW c \in Callers
      PROVE  call'[c] \in CallType /\ CallFits(source, call'[c], world', steady')
  <2> DEFINE rec == call[c]
  <2>0. rec \in CallType /\ CallFits(source, rec, world, steady)
    BY DEF SourcesInv
  <2>1. CASE ~(rec.ignore /\ rec.at # "done")
    <3>1. call'[c] = rec
      BY <2>1 DEF Change
    <3>2. CASE rec = Idle
      BY <2>0, <3>1, <3>2 DEF CallFits
    <3>3. CASE rec.at = "done" /\ Answering(source, rec, steady)
      <4>1. Answering(source, rec, steady')
        BY <1>1, <3>3 DEF Answering, AnswerFits, ErrorFits, Gathered, Truthful
      <4> QED BY <2>0, <3>1, <3>3, <4>1 DEF CallFits
    <3>4. CASE rec.at \notin {"idle", "done"} /\ UnderWay(source, rec, world, steady)
      <4>1. Shape(source.kind, rec, steady')
        BY <1>1, <2>0, <3>4, ShapeKept DEF UnderWay
      <4>2. ~rec.ignore
        BY <2>1, <3>4
      <4>3. UnderWay(source, rec, world', steady')
        BY <1>1, <3>4, <4>1, <4>2 DEF UnderWay, Begun, ErrorFits, Truthful
      <4> QED BY <2>0, <3>1, <3>4, <4>3 DEF CallFits
    <3> QED BY <2>0, <3>2, <3>3, <3>4 DEF CallFits
  <2>2. CASE rec.ignore /\ rec.at # "done"
    <3> DEFINE new == call'[c]
    <3>1. new = [rec EXCEPT !.ever = @ \cup world']
      BY <2>2 DEF Change
    <3>2. /\ new \in CallType
          /\ new.at = rec.at /\ new.op = rec.op /\ new.r = rec.r /\ new.arn = rec.arn
          /\ new.left = rec.left /\ new.on = rec.on /\ new.ignore = rec.ignore
          /\ new.failed = rec.failed /\ new.lacks = rec.lacks /\ new.answer = rec.answer
          /\ new.ever = rec.ever \cup world' /\ new.got = rec.got
          /\ new.ticks = rec.ticks /\ new.ended = rec.ended
      BY <1>1, <2>0, <3>1 DEF CallType
    <3>3. rec.at \notin {"idle", "done"} /\ UnderWay(source, rec, world, steady)
      BY <2>0, <2>2 DEF CallFits, Idle
    <3> HIDE DEF new
    <3>4. Shape(source.kind, new, steady')
      BY <1>1, <2>0, <3>2, <3>3, ShapeKept DEF UnderWay
    <3>5. new.ignore => world' \subseteq new.ever /\ Of(new.got) \subseteq new.ever
      BY <3>2, <3>3 DEF UnderWay, Begun
    <3>6. UnderWay(source, new, world', steady')
      BY <1>1, <3>2, <3>3, <3>4, <3>5 DEF UnderWay, Begun, ErrorFits, Truthful
    <3> QED BY <3>2, <3>3, <3>6 DEF CallFits, new
  <2> QED BY <2>1, <2>2
<1>5. call' \in [Callers -> CallType]
  BY <1>4 DEF Change
<1> QED BY <1>1, <1>2, <1>3, <1>4, <1>5 DEF SourcesInv

LEMMA ReturnKeepsInv ==
  ASSUME SourcesInv, NEW c \in Callers, Return(c), UNCHANGED source
  PROVE  SourcesInv'
<1>1. Idle \in CallType /\ CallFits(source, Idle, world, steady)
  BY IdleType DEF CallFits
<1>2. StepKeeps(c)
  BY <1>1 DEF StepKeeps, Return, SourcesInv, Around
<1> QED BY <1>2, StepKeepsInv

LEMMA EndContextKeepsInv ==
  ASSUME SourcesInv, NEW c \in Callers, EndContext(c), UNCHANGED source
  PROVE  SourcesInv'
<1> DEFINE rec == call[c]
           new == [rec EXCEPT !.ended = TRUE]
<1>1. rec \in CallType /\ CallFits(source, rec, world, steady)
  BY DEF SourcesInv
<1>2. /\ new \in CallType
      /\ new.at = rec.at /\ new.op = rec.op /\ new.r = rec.r /\ new.arn = rec.arn
      /\ new.left = rec.left /\ new.on = rec.on /\ new.ignore = rec.ignore
      /\ new.failed = rec.failed /\ new.lacks = rec.lacks /\ new.answer = rec.answer
      /\ new.ever = rec.ever /\ new.got = rec.got /\ new.ticks = rec.ticks
      /\ new.ended = TRUE
  BY <1>1 DEF CallType
<1>3. rec.at \notin {"idle", "done"} /\ UnderWay(source, rec, world, steady)
  BY <1>1 DEF EndContext, CallFits, Idle
<1>4. Set(c, new)
  BY DEF EndContext
<1> HIDE DEF new
<1>5. Shape(source.kind, new, steady)
  BY <1>1, <1>2, <1>3, ShapeKept DEF UnderWay
<1>6. UnderWay(source, new, world, steady)
  BY <1>2, <1>3, <1>5 DEF UnderWay, Begun, ErrorFits
<1>7. CallFits(source, new, world, steady)
  BY <1>2, <1>3, <1>6 DEF CallFits
<1>8. StepKeeps(c)
  BY <1>2, <1>4, <1>7 DEF StepKeeps, EndContext, SourcesInv, Around
<1> QED BY <1>8, StepKeepsInv

(* Time passes: what an entry was still to be kept it is older.            *)
LEMMA AgedEntryFits ==
  ASSUME Around, NEW e \in EntryType, EntryFits(source, e, steady), e.left > 0
  PROVE  LET aged == [e EXCEPT !.left = @ - 1, !.age = AgeAfter(@)] IN
         /\ aged \in EntryType /\ aged.key = e.key
         /\ EntryFits(source, aged, steady)
<1> DEFINE aged == [e EXCEPT !.left = @ - 1, !.age = AgeAfter(@)]
<1>1. e.left \in Nat /\ e.age \in Nat /\ source.told \in Nat /\ source \in Sources
  BY SourceTypes DEF EntryType, Around
<1>2. AgeAfter(e.age) \in Nat /\ e.left - 1 \in Nat
  BY <1>1 DEF AgeAfter
<1>3. /\ aged.key = e.key /\ aged.error = e.error /\ aged.lacks = e.lacks
      /\ aged.left = e.left - 1 /\ aged.age = AgeAfter(e.age)
      /\ aged \in EntryType
  BY <1>2 DEF EntryType
<1> HIDE DEF aged
<1>4. Lasts(source) \in Nat /\ source.Deadline \in Nat
  BY <1>1, SourceTypes, SourceCacheAssumption DEF Lasts
<1>5. /\ aged.left <= Lasts(source)
      /\ Measured(source) => aged.left + aged.age >= Lasts(source)   \* it had time left
      /\ StoresOnce(source) => aged.left + aged.age <= Lasts(source) + source.Deadline
  <2>1. /\ e.left <= Lasts(source)
        /\ Measured(source) =>
             e.left + e.age >= Lasts(source) \/ (Unset(source, e.key.index) /\ e.left = 0)
        /\ StoresOnce(source) => e.left + e.age <= Lasts(source) + source.Deadline
    BY DEF EntryFits
  <2>2. Measured(source) => source.told >= Lasts(source)
    BY DEF Measured
  <2> QED BY <1>1, <1>2, <1>3, <1>4, <2>1, <2>2 DEF AgeAfter
<1>6. EntryFits(source, aged, steady)
  BY <1>3, <1>5 DEF EntryFits
<1> QED BY <1>3, <1>6 DEF aged

LEMMA OlderItems ==
  ASSUME Around, NEW items \in SUBSET ItemType
  PROVE  /\ Older(items) \in SUBSET ItemType
         /\ Of(Older(items)) = Of(items)
         /\ (\A i \in items : i.lacks = {}) => \A i \in Older(items) : i.lacks = {}
         /\ \A t \in Nat : (\A i \in items : i.age <= t) =>
                            \A i \in Older(items) : i.age <= t + 1
<1>1. source.told \in Nat
  BY SourceTypes DEF Around
<1>2. \A i \in items :
        /\ i.age \in Nat
        /\ AgeAfter(i.age) \in Nat /\ AgeAfter(i.age) <= i.age + 1
        /\ LET j == [i EXCEPT !.age = AgeAfter(@)] IN
           j \in ItemType /\ j.of = i.of /\ j.lacks = i.lacks /\ j.age = AgeAfter(i.age)
  <2> TAKE i \in items
  <2>1. i \in ItemType /\ i.age \in Nat
    BY DEF ItemType
  <2>2. AgeAfter(i.age) \in Nat /\ AgeAfter(i.age) <= i.age + 1
    BY <1>1, <2>1 DEF AgeAfter
  <2> QED BY <2>1, <2>2 DEF ItemType
<1>3. \A j \in Older(items) : \E i \in items : j = [i EXCEPT !.age = AgeAfter(@)]
  BY DEF Older
<1>4. Of(Older(items)) = Of(items)
  <2>1. ASSUME NEW i \in items PROVE i.of \in Of(Older(items))
    <3>1. [i EXCEPT !.age = AgeAfter(@)] \in Older(items)
      BY DEF Older
    <3> QED BY <1>2, <3>1 DEF Of
  <2>2. ASSUME NEW j \in Older(items) PROVE j.of \in Of(items)
    BY ZenonT(60), <1>2, <1>3 DEF Of
  <2> QED BY <2>1, <2>2 DEF Of
<1>5. /\ Older(items) \in SUBSET ItemType
      /\ (\A i \in items : i.lacks = {}) => \A i \in Older(items) : i.lacks = {}
  BY <1>2, <1>3
<1>6. ASSUME NEW t \in Nat, \A i \in items : i.age <= t, NEW j \in Older(items)
      PROVE  j.age <= t + 1
  <2>1. PICK i \in items : j = [i EXCEPT !.age = AgeAfter(@)]
    BY <1>3
  <2>2. j.age <= i.age + 1 /\ i.age \in Nat /\ j.age \in Nat /\ i.age <= t
    BY <1>2, <1>6, <2>1
  <2> QED BY <2>2
<1> QED BY <1>4, <1>5, <1>6

LEMMA TickKeepsInv ==
  ASSUME SourcesInv, Tick, UNCHANGED source
  PROVE  SourcesInv'
<1>0. /\ Around /\ source' = source /\ world' = world /\ steady' = steady /\ ready' = ready
  BY DEF SourcesInv, Tick
<1>1. Around'
  BY <1>0 DEF Around
<1>2. CacheFits(source, cache', steady)
  <2> DEFINE Aged(e) == [e EXCEPT !.left = @ - 1, !.age = AgeAfter(@)]
  <2>1. \A f \in cache' : \E e \in cache : e.left > 0 /\ f = Aged(e)
    BY DEF Tick
  <2>2. \A e \in cache : e.left > 0 =>
          Aged(e) \in EntryType /\ Aged(e).key = e.key /\ EntryFits(source, Aged(e), steady)
    BY <1>0, AgedEntryFits DEF SourcesInv, CacheFits
  <2>3. \A e, f \in cache : e.key = f.key => e = f
    BY DEF SourcesInv, CacheFits
  <2> HIDE DEF Aged
  <2> QED BY <2>1, <2>2, <2>3 DEF CacheFits
<1>3. ASSUME NEW c \in Callers
      PROVE  call'[c] \in CallType /\ CallFits(source, call'[c], world, steady)
  <2> DEFINE rec == call[c]
             new == [rec EXCEPT !.ticks = @ + 1, !.got = Older(@)]
  <2>1. rec \in CallType /\ CallFits(source, rec, world, steady)
    BY DEF SourcesInv
  <2>2. CASE rec.at = "idle"
    <3>1. call'[c] = rec
      BY <2>2 DEF Tick
    <3> QED BY <2>1, <3>1
  <2>3. CASE rec.at # "idle"
    <3>1. call'[c] = new /\ rec.at # "done" /\ rec.ticks < source.Deadline
      BY <2>3 DEF Tick
    <3>2. /\ Older(rec.got) \in SUBSET ItemType
          /\ Of(Older(rec.got)) = Of(rec.got)
          /\ (\A i \in rec.got : i.lacks = {}) => \A i \in Older(rec.got) : i.lacks = {}
          /\ (\A i \in rec.got : i.age <= rec.ticks) =>
               \A i \in Older(rec.got) : i.age <= rec.ticks + 1
          /\ rec.ticks \in Nat
      <4>1. rec.got \in SUBSET ItemType /\ rec.ticks \in Nat
        BY <2>1, CallFields
      <4> QED BY <1>0, <4>1, OlderItems
    <3>3. /\ new \in CallType
          /\ new.at = rec.at /\ new.op = rec.op /\ new.r = rec.r /\ new.arn = rec.arn
          /\ new.left = rec.left /\ new.on = rec.on /\ new.ignore = rec.ignore
          /\ new.failed = rec.failed /\ new.lacks = rec.lacks /\ new.answer = rec.answer
          /\ new.ever = rec.ever /\ new.got = Older(rec.got) /\ new.ticks = rec.ticks + 1
          /\ new.ended = rec.ended
      <4>1. rec.ticks + 1 \in Nat
        BY <3>2
      <4> HIDE DEF rec
      <4> QED BY <2>1, <3>2, <4>1 DEF CallType
    <3>4. UnderWay(source, rec, world, steady)
      BY <2>1, <2>3, <3>1 DEF CallFits, Idle
    <3> HIDE DEF new
    <3>5. Shape(source.kind, new, steady)
      <4>1. Shape(source.kind, rec, steady) /\ rec \in CallType
        BY <2>1, <3>4 DEF UnderWay
      <4>2. /\ rec.ever \subseteq new.ever /\ Of(new.got) = Of(rec.got)
            /\ (\A i \in rec.got : i.lacks = {}) => \A i \in new.got : i.lacks = {}
        BY <3>2, <3>3
      <4> HIDE DEF rec
      <4> QED BY <3>3, <4>1, <4>2, ShapeKept
    <3>6. new.ticks <= source.Deadline
      <4>1. source.Deadline \in Nat
        BY <1>0, SourceTypes DEF Around
      <4> QED BY <3>1, <3>2, <3>3, <4>1
    <3>7. UnderWay(source, new, world, steady)
      BY <3>2, <3>3, <3>4, <3>5, <3>6 DEF UnderWay, Begun, ErrorFits
    <3> QED BY <2>1, <2>3, <3>1, <3>3, <3>7 DEF CallFits
  <2> QED BY <2>2, <2>3
<1>4. call' \in [Callers -> CallType]
  BY <1>3 DEF Tick
<1> QED BY <1>0, <1>1, <1>2, <1>3, <1>4 DEF SourcesInv

LEMMA EnvironmentKeepsInv ==
  ASSUME SourcesInv, Environment, UNCHANGED source
  PROVE  SourcesInv'
BY ChangeKeepsInv, TickKeepsInv, EndContextKeepsInv, ReturnKeepsInv DEF Environment

-----------------------------------------------------------------------------
(* What the steps of the sources have in common.                           *)

(* The items of an answer.                                                 *)
LEMMA ItemsFit ==
  ASSUME NEW src \in Sources, NEW S, NEW W, NEW rec \in CallType, Begun(src, rec, W),
         NEW items \in SUBSET ItemType,
         rec.ignore => Of(items) \subseteq rec.ever,
         StoresOnce(src) => \A i \in items : i.age <= rec.ticks,
         (src.kind = "S3Source" => ~BadRequests) => Gathered(rec, items, {}, S)
  PROVE  /\ Items(items) \in AnswerType /\ Items(items).kind # "none"
         /\ AnswerFits(src, rec, Items(items), S)
<1>1. /\ Items(items) \in AnswerType
      /\ Items(items).kind = "items" /\ Items(items).items = items
      /\ Items(items).error = NoError
  BY AnswerTypes
<1>2. StoresOnce(src) => \A i \in items : i.age <= Lasts(src) + 2 * src.Deadline
  <2> SUFFICES ASSUME StoresOnce(src), NEW i \in items
               PROVE  i.age <= Lasts(src) + 2 * src.Deadline
    OBVIOUS
  <2>1. /\ i.age \in Nat /\ rec.ticks \in Nat
        /\ i.age <= rec.ticks /\ rec.ticks <= src.Deadline
    BY CallFields DEF Begun, ItemType
  <2>2. Lasts(src) \in Nat /\ src.Deadline \in Nat
    BY SourceTypes, SourceCacheAssumption DEF Lasts
  <2> QED BY <2>1, <2>2
<1>3. ErrorFits(src, rec, NoError, S)
  BY DEF ErrorFits, KindKept, Truthful, NoError
<1> QED BY <1>1, <1>2, <1>3 DEF AnswerFits

LEMMA ErrorAnswerFits ==
  ASSUME NEW src, NEW S, NEW rec, NEW error \in ErrorType, ErrorFits(src, rec, error, S)
  PROVE  /\ Error(error) \in AnswerType /\ Error(error).kind # "none"
         /\ AnswerFits(src, rec, Error(error), S)
<1>1. /\ Error(error) \in AnswerType /\ Error(error).kind = "error"
      /\ Error(error).items = {} /\ Error(error).error = error
  BY AnswerTypes
<1>2. Of({}) = {}
  BY DEF Of
<1> QED BY <1>1, <1>2 DEF AnswerFits

(* A call goes on with what it got from AWS just now, or comes to an error. *)
LEMMA GoesOn ==
  ASSUME NEW src, NEW W, NEW S, NEW rec \in CallType, NEW new \in CallType, Begun(src, rec, W),
         new.op = rec.op, new.r = rec.r, new.ignore = rec.ignore, new.ever = rec.ever,
         new.ticks = rec.ticks, new.at \notin {"idle", "done", "error"},
         new.answer = NoAnswer,
         \A i \in new.got : i \in rec.got \/ (i.age = 0 /\ i.of \in W),
         Shape(src.kind, new, S)
  PROVE  CallFits(src, new, W, S)
<1>1. new.ignore => W \subseteq new.ever /\ Of(new.got) \subseteq new.ever
  BY DEF Begun, Of
<1>2. new.ticks \in Nat
  BY CallFields
<1>3. StoresOnce(src) => \A i \in new.got : i.age <= new.ticks
  BY <1>2 DEF Begun
<1>4. Begun(src, new, W)
  BY <1>1, <1>3 DEF Begun
<1> QED BY <1>4 DEF CallFits, UnderWay

LEMMA ComesToError ==
  ASSUME NEW src, NEW W, NEW S, NEW rec \in CallType, NEW new \in CallType, Begun(src, rec, W),
         new.op = rec.op, new.r = rec.r, new.ignore = rec.ignore, new.ever = rec.ever,
         new.ticks = rec.ticks, new.ended = rec.ended, new.at = "error",
         NEW error \in ErrorType, new.answer = Error(error), ErrorFits(src, rec, error, S),
         new.got \subseteq rec.got,
         Shape(src.kind, new, S)
  PROVE  CallFits(src, new, W, S)
<1>1. new.answer.kind = "error" /\ new.answer.items = {} /\ new.answer.error = error
  BY AnswerTypes
<1>2. ErrorFits(src, new, error, S)
  BY DEF ErrorFits
<1>3. Begun(src, new, W)
  BY DEF Begun, Of
<1> QED BY <1>1, <1>2, <1>3 DEF CallFits, UnderWay

(* The errors of AWS.                                                      *)
LEMMA FailuresFit ==
  ASSUME NEW rec \in CallType
  PROVE  /\ \A e \in AnyFailure(rec) :
              /\ e \in ErrorType /\ KindKept(source, e)
              /\ e.cause = "context" => rec.ended
              /\ \A r : Truthful(e, r, steady)
              /\ ~BadRequests => e.sees = "OTHER"
         /\ Around => \A r : \A e \in FailuresFor(rec, r) :
              /\ e \in ErrorType /\ KindKept(source, e)
              /\ e.cause = "context" => rec.ended
              /\ Truthful(e, r, steady)
<1>1. \A sees \in Errors, cause \in {"context", "other"} :
        /\ Failure(sees, cause) \in ErrorType
        /\ Failure(sees, cause).sees = sees /\ Failure(sees, cause).wraps = sees
        /\ Failure(sees, cause).cause = cause
  BY AnswerTypes DEF Errors, Seen
<1>2. ASSUME NEW errors \in SUBSET Errors, NEW e \in Failures(rec, errors)
      PROVE  /\ e \in ErrorType /\ KindKept(source, e)
             /\ e.cause = "context" => rec.ended
             /\ e.sees = "OTHER" \/ e.sees \in errors
  <2>1. CASE rec.ended
    <3>1. e = Failure("OTHER", "context")
      BY <1>2, <2>1 DEF Failures
    <3> QED BY <1>1, <2>1, <3>1 DEF KindKept, Errors
  <2>2. CASE ~rec.ended
    <3>1. PICK x \in errors : e = Failure(x, "other")
      BY <1>2, <2>2 DEF Failures
    <3>2. x \in Errors
      OBVIOUS
    <3> QED BY <1>1, <3>1, <3>2 DEF KindKept
  <2> QED BY <2>1, <2>2
<1>3. AnyErrors \in SUBSET Errors /\ (~BadRequests => "NOTFOUND" \notin AnyErrors)
  BY DEF AnyErrors, Errors
<1>4. ASSUME NEW e \in AnyFailure(rec)
      PROVE  /\ e \in ErrorType /\ KindKept(source, e)
             /\ e.cause = "context" => rec.ended
             /\ \A r : Truthful(e, r, steady)
             /\ ~BadRequests => e.sees = "OTHER"
  BY <1>2, <1>3 DEF AnyFailure, Truthful, AnyErrors
<1>5. ASSUME Around, NEW r, NEW e \in FailuresFor(rec, r)
      PROVE  /\ e \in ErrorType /\ KindKept(source, e)
             /\ e.cause = "context" => rec.ended
             /\ Truthful(e, r, steady)
  <2>1. CASE r \in world
    <3>1. e \in AnyFailure(rec)
      BY <2>1 DEF FailuresFor, AnyFailure
    <3> QED BY <1>4, <3>1
  <2>2. CASE r \notin world
    <3>1. e \in Failures(rec, Errors) /\ Errors \in SUBSET Errors /\ r \notin steady
      BY <1>5, <2>2 DEF FailuresFor, Around
    <3> QED BY <1>2, <3>1 DEF Truthful
  <2> QED BY <2>1, <2>2
<1> QED BY <1>4, <1>5

-----------------------------------------------------------------------------
(* Answers from the cache.                                                 *)

LEMMA AtHeld ==
  ASSUME NEW key, Holds(key)
  PROVE  At(key) \in cache /\ At(key).key = key
BY DEF Holds, At

LEMMA CachedItemFits ==
  ASSUME SourcesInv, NEW e \in cache, NEW r \in Resources
  PROVE  LET i == Part(r, e.age, e.lacks) IN
         /\ i \in ItemType /\ i.of = r
         /\ StoresOnce(source) => i.age <= Lasts(source) + source.Deadline
<1>1. e \in EntryType /\ EntryFits(source, e, steady) /\ source \in Sources
  BY DEF SourcesInv, CacheFits, Around
<1>2. e.age \in Nat /\ e.left \in Nat /\ e.lacks \in SUBSET Parts
  BY <1>1 DEF EntryType
<1>3. Lasts(source) \in Nat /\ source.Deadline \in Nat
  BY <1>1, SourceTypes, SourceCacheAssumption DEF Lasts
<1>4. StoresOnce(source) => e.age <= Lasts(source) + source.Deadline
  <2>1. StoresOnce(source) => e.left + e.age <= Lasts(source) + source.Deadline
    BY <1>1 DEF EntryFits
  <2> QED BY <1>2, <1>3, <2>1
<1> QED BY <1>2, <1>4 DEF Part, ItemType

LEMMA GetCachedFits ==
  ASSUME SourcesInv, NEW r \in Resources, NEW ignore \in BOOLEAN, GetHit(r, ignore)
  PROVE  LET answer == GetCached(r) IN
         /\ ~ignore
         /\ answer \in AnswerType /\ answer.kind # "none"
         /\ Of(answer.items) \subseteq {r}
         /\ StoresOnce(source) =>
              \A i \in answer.items : i.age <= Lasts(source) + source.Deadline
         /\ KindKept(source, answer.error) /\ Truthful(answer.error, r, steady)
         /\ answer.kind = "items" => \E i : answer.items = {i} /\ i.of = r
<1>1. CacheFits(source, cache, steady)
  BY DEF SourcesInv
<1>2. CASE Holds(GetErrorKey(r))
  <2> DEFINE e == At(GetErrorKey(r))
  <2>1. e \in cache /\ e.key = GetErrorKey(r)
    BY <1>2, AtHeld
  <2>2. e.error \in ErrorType /\ EntryFits(source, e, steady)
    BY <1>1, <2>1 DEF CacheFits, EntryType
  <2>3. KindKept(source, e.error) /\ Truthful(e.error, r, steady)
    BY <2>1, <2>2, ItemKeys DEF EntryFits
  <2>4. GetCached(r) = Error(e.error)
    BY <1>2 DEF GetCached
  <2>5. /\ Error(e.error) \in AnswerType /\ Error(e.error).kind = "error"
        /\ Error(e.error).items = {} /\ Error(e.error).error = e.error
    BY <2>2, AnswerTypes
  <2> QED BY <2>3, <2>4, <2>5 DEF GetHit, Of
<1>3. CASE ~Holds(GetErrorKey(r))
  <2> DEFINE e == At(ItemKey(r))
             i == Part(r, e.age, e.lacks)
  <2>1. e \in cache
    BY <1>3, AtHeld DEF GetHit
  <2>2. /\ i \in ItemType /\ i.of = r
        /\ StoresOnce(source) => i.age <= Lasts(source) + source.Deadline
    BY <2>1, CachedItemFits
  <2>3. GetCached(r) = Items({i})
    BY <1>3 DEF GetCached
  <2>4. /\ Items({i}) \in AnswerType /\ Items({i}).kind = "items"
        /\ Items({i}).items = {i} /\ Items({i}).error = NoError
    BY <2>2, AnswerTypes
  <2>5. KindKept(source, NoError) /\ Truthful(NoError, r, steady)
    BY DEF KindKept, Truthful, NoError
  <2> QED BY <2>2, <2>3, <2>4, <2>5 DEF GetHit, Of
<1> QED BY <1>2, <1>3

LEMMA GetCachedAnswers ==
  ASSUME SourcesInv, NEW rec \in CallType, rec.r \in Resources, GetHit(rec.r, rec.ignore)
  PROVE  /\ GetCached(rec.r) \in AnswerType /\ GetCached(rec.r).kind # "none"
         /\ AnswerFits(source, rec, GetCached(rec.r), steady)
<1> DEFINE answer == GetCached(rec.r)
<1>0. rec.ignore \in BOOLEAN
  BY CallFields
<1>1. /\ ~rec.ignore
      /\ answer \in AnswerType /\ answer.kind # "none"
      /\ StoresOnce(source) =>
           \A i \in answer.items : i.age <= Lasts(source) + source.Deadline
      /\ KindKept(source, answer.error) /\ Truthful(answer.error, rec.r, steady)
  <2>1. \A r \in Resources, ignore \in BOOLEAN : GetHit(r, ignore) =>
          /\ ~ignore
          /\ GetCached(r) \in AnswerType /\ GetCached(r).kind # "none"
          /\ StoresOnce(source) =>
               \A i \in GetCached(r).items : i.age <= Lasts(source) + source.Deadline
          /\ KindKept(source, GetCached(r).error) /\ Truthful(GetCached(r).error, r, steady)
    BY GetCachedFits
  <2> QED BY <1>0, <2>1
<1> HIDE DEF answer
<1>2. StoresOnce(source) =>
        \A i \in answer.items : i.age <= Lasts(source) + 2 * source.Deadline
  <2> SUFFICES ASSUME StoresOnce(source), NEW i \in answer.items
               PROVE  i.age <= Lasts(source) + 2 * source.Deadline
    OBVIOUS
  <2>1. i.age \in Nat /\ i.age <= Lasts(source) + source.Deadline
    BY <1>1 DEF AnswerType, ItemType
  <2>2. Lasts(source) \in Nat /\ source.Deadline \in Nat
    BY SourceTypes, SourceCacheAssumption DEF Lasts, SourcesInv, Around
  <2> QED BY <2>1, <2>2
<1>3. AnswerFits(source, rec, answer, steady)
  BY <1>1, <1>2 DEF AnswerFits, ErrorFits, Gathered
<1> QED BY <1>1, <1>3 DEF answer

LEMMA ListCachedAnswers ==
  ASSUME SourcesInv, NEW rec \in CallType, NEW s \in OwnScopes, rec.r = Whole(s),
         ListHit(s, rec.ignore)
  PROVE  /\ ListCached(s) \in AnswerType /\ ListCached(s).kind # "none"
         /\ AnswerFits(source, rec, ListCached(s), steady)
<1>1. CacheFits(source, cache, steady) /\ rec.ignore = FALSE /\ Whole(s) \notin steady
  BY CallFields, NoResource DEF SourcesInv, Around, ListHit
<1>2. CASE Holds(ListErrorKey(s))
  <2> DEFINE e == At(ListErrorKey(s))
  <2>1. e \in cache
    BY <1>2, AtHeld
  <2>2. e.error \in ErrorType /\ KindKept(source, e.error)
    BY <1>1, <2>1 DEF CacheFits, EntryType, EntryFits
  <2>3. ErrorFits(source, rec, e.error, steady)
    BY <1>1, <2>2 DEF ErrorFits, Truthful
  <2>4. ListCached(s) = Error(e.error)
    BY <1>2 DEF ListCached
  <2> QED BY <2>2, <2>3, <2>4, ErrorAnswerFits
<1>3. CASE ~Holds(ListErrorKey(s))
  <2> DEFINE items == {Part([scope |-> s, name |-> e.key.name], e.age, e.lacks) : e \in ListedIn(s)}
  <2>1. ASSUME NEW i \in items
        PROVE  /\ i \in ItemType
               /\ StoresOnce(source) => i.age <= Lasts(source) + 2 * source.Deadline
    <3>1. PICK e \in ListedIn(s) : i = Part([scope |-> s, name |-> e.key.name], e.age, e.lacks)
      BY <2>1
    <3>2. e \in cache /\ e.key.name \in Names
      BY <1>1 DEF ListedIn, CacheFits, EntryFits
    <3>3. [scope |-> s, name |-> e.key.name] \in Resources
      BY <3>2 DEF Resources
    <3>4. /\ i \in ItemType
          /\ StoresOnce(source) => i.age <= Lasts(source) + source.Deadline
      BY <3>1, <3>2, <3>3, CachedItemFits
    <3>5. Lasts(source) \in Nat /\ source.Deadline \in Nat /\ i.age \in Nat
      BY <3>4, SourceTypes, SourceCacheAssumption DEF Lasts, SourcesInv, Around, ItemType
    <3> QED BY <3>4, <3>5
  <2>2. ListCached(s) = Items(items)
    BY <1>3 DEF ListCached
  <2> HIDE DEF items
  <2>3. /\ Items(items) \in AnswerType /\ Items(items).kind = "items"
        /\ Items(items).items = items /\ Items(items).error = NoError
    BY <2>1, AnswerTypes
  <2>4. ErrorFits(source, rec, NoError, steady)
    BY DEF ErrorFits, KindKept, Truthful, NoError
  <2> QED BY <1>1, <2>1, <2>2, <2>3, <2>4 DEF AnswerFits, Gathered
<1> QED BY <1>2, <1>3

-----------------------------------------------------------------------------
(* How calls begin.                                                        *)

New(rec) ==
  /\ rec \in CallType /\ Begun(source, rec, world)
  /\ rec.left = {} /\ rec.got = {} /\ rec.lacks = {} /\ rec.on = Nothing
  /\ rec.answer = NoAnswer /\ rec.failed = FALSE

LEMMA NewCallIsNew ==
  ASSUME SourcesInv, NEW ignore \in BOOLEAN
  PROVE  /\ \A r \in Resources, op \in {"GET", "SEARCH"} :
              /\ New(NewCall(op, r, ignore)) /\ NewCall(op, r, ignore).r = r
              /\ NewCall(op, r, ignore).op = op /\ NewCall(op, r, ignore).arn = Nothing
         /\ \A s \in OwnScopes, op \in {"LIST", "SEARCH"} :
              /\ New(NewCall(op, Whole(s), ignore)) /\ NewCall(op, Whole(s), ignore).r = Whole(s)
              /\ NewCall(op, Whole(s), ignore).op = op
              /\ NewCall(op, Whole(s), ignore).arn = Nothing
<1>0. world \in SUBSET Resources
  BY DEF SourcesInv, Around
<1>1. source.Deadline \in Nat
  BY SourceTypes DEF SourcesInv, Around
<1>2. ASSUME NEW op \in {"GET", "LIST", "SEARCH"}, NEW r \in Place,
             op = "GET" => r \in Resources,
             r \notin Resources => \E s \in OwnScopes : r = Whole(s),
             op = "LIST" => \E s \in OwnScopes : r = Whole(s)
      PROVE  /\ New(NewCall(op, r, ignore)) /\ NewCall(op, r, ignore).r = r
             /\ NewCall(op, r, ignore).op = op /\ NewCall(op, r, ignore).arn = Nothing
  <2> DEFINE new == NewCall(op, r, ignore)
  <2>1. new \in CallType /\ FieldsOfNew(new, op, r, ignore)
    BY <1>0, NewCallType
  <2> HIDE DEF new
  <2>2. new.ticks <= source.Deadline
    BY <1>1, <2>1 DEF FieldsOfNew
  <2>3. Begun(source, new, world)
    BY <1>2, <2>1, <2>2 DEF Begun, Of, FieldsOfNew
  <2> QED BY <2>1, <2>3 DEF New, new, FieldsOfNew
<1>3. ASSUME NEW r \in Resources, NEW op \in {"GET", "SEARCH"}
      PROVE  /\ New(NewCall(op, r, ignore)) /\ NewCall(op, r, ignore).r = r
             /\ NewCall(op, r, ignore).op = op /\ NewCall(op, r, ignore).arn = Nothing
  <2>1. r \in Place
    BY NoResource
  <2> QED BY <1>2, <2>1
<1>4. ASSUME NEW s \in OwnScopes, NEW op \in {"LIST", "SEARCH"}
      PROVE  /\ New(NewCall(op, Whole(s), ignore)) /\ NewCall(op, Whole(s), ignore).r = Whole(s)
             /\ NewCall(op, Whole(s), ignore).op = op
             /\ NewCall(op, Whole(s), ignore).arn = Nothing
  <2>1. Whole(s) \in Place
    BY NoResource
  <2> QED BY <1>2, <2>1
<1> QED BY <1>3, <1>4

(* A step that stores nothing, and one that answers.                       *)
LEMMA NothingStored ==
  ASSUME SourcesInv, NEW c \in Callers, UNCHANGED <<world, steady, cache>>, ready' \in BOOLEAN,
         NEW rec \in CallType, Set(c, rec), CallFits(source, rec, world, steady)
  PROVE  StepKeeps(c)
BY DEF StepKeeps, SourcesInv

LEMMA ReadyKept ==
  ASSUME SourcesInv, UNCHANGED ready
  PROVE  ready' \in BOOLEAN
BY DEF SourcesInv, Around

(* Refuse, in all of the sources.                                          *)
LEMMA RefusalFits ==
  ASSUME SourcesInv, NEW method \in Methods, NEW s \in OwnScopes, NEW ignore \in BOOLEAN,
         NEW sees \in {"NOSCOPE", "NOTFOUND", "OTHER"}
  PROVE  LET done == Done(NewCall(method, Whole(s), ignore), Error(Failure(sees, "other"))) IN
         done \in CallType /\ CallFits(source, done, world, steady)
<1> DEFINE rec == NewCall(method, Whole(s), ignore)
           error == Failure(sees, "other")
<1>1. rec \in CallType /\ rec.r = Whole(s)
  <2>1. method \in {"GET", "LIST", "SEARCH"} /\ Whole(s) \in Place
    BY SourceCacheAssumption, NoResource
  <2>2. world \in SUBSET Resources
    BY DEF SourcesInv, Around
  <2>3. rec \in CallType /\ FieldsOfNew(rec, method, Whole(s), ignore)
    BY <2>1, <2>2, NewCallType
  <2> QED BY <2>3 DEF FieldsOfNew
<1>2. /\ error \in ErrorType /\ error.sees = sees /\ error.wraps = sees
      /\ error.cause = "other"
  BY AnswerTypes DEF Seen
<1>3. Whole(s) \notin steady
  BY NoResource DEF SourcesInv, Around
<1> HIDE DEF rec, error
<1>4. ErrorFits(source, rec, error, steady)
  BY <1>1, <1>2, <1>3 DEF ErrorFits, KindKept, Truthful
<1>5. /\ Done(rec, Error(error)) \in CallType
      /\ CallFits(source, Done(rec, Error(error)), world, steady)
  BY <1>1, <1>2, <1>4, ErrorAnswerFits, DoneFits
<1> QED BY <1>5 DEF rec, error

(* A hit, in all of the sources but AlwaysGetSource's Search by ARN.       *)
LEMMA HitFits ==
  ASSUME SourcesInv, NEW rec \in CallType
  PROVE  /\ rec.r \in Resources /\ GetHit(rec.r, ~(~rec.ignore)) =>
              LET done == Done(rec, GetCached(rec.r)) IN
              done \in CallType /\ CallFits(source, done, world, steady)
         /\ \A s \in OwnScopes : rec.r = Whole(s) /\ ListHit(s, ~(~rec.ignore)) =>
              LET done == Done(rec, ListCached(s)) IN
              done \in CallType /\ CallFits(source, done, world, steady)
<1>1. GetHit(rec.r, ~(~rec.ignore)) => GetHit(rec.r, rec.ignore)
  BY DEF GetHit
<1>2. \A s \in OwnScopes : ListHit(s, ~(~rec.ignore)) => ListHit(s, rec.ignore)
  BY DEF ListHit
<1> QED BY <1>1, <1>2, GetCachedAnswers, ListCachedAnswers, DoneFits
=============================================================================
