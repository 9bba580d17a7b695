---------------------------- MODULE SourcesProofs ----------------------------
(***************************************************************************)
(* Every step of every kind of source keeps the invariant of module        *)
(* SourceCacheProofs, and what follows from it for the answers, whatever   *)
(* the callers, resources, durations and deadlines.                        *)
(***************************************************************************)
EXTENDS SourceCacheProofs

(* How long the sources keep what they store: cacheDuration, the constant  *)
(* of the S3 source, or the field that GetListSource reads.                *)
LEMMA HowLong ==
  ASSUME Around
  PROVE  /\ cacheDuration = Lasts(source) /\ Lasts(source) \in Nat
         /\ \A index : KeepsFor(source, cacheDuration, index)
         /\ source.kind = "S3Source" =>
              \A index : KeepsFor(source, DefaultCacheDuration, index)
         /\ source.kind = "GetListSource" =>
              \A index \in {"item", "list-error"} : KeepsFor(source, source.CacheDuration, index)
<1>1. cacheDuration = Lasts(source)
  BY DEF cacheDuration, Lasts
<1>2. source.CacheDuration \in Nat /\ Lasts(source) \in Nat
  BY SourceTypes, SourceCacheAssumption DEF Lasts, Around
<1>3. source.kind = "S3Source" => DefaultCacheDuration = Lasts(source)
  BY FieldUnset DEF Lasts, Around
<1>4. source.CacheDuration = 0 \/ source.CacheDuration = Lasts(source)
  BY DEF Lasts
<1> QED BY <1>1, <1>2, <1>3, <1>4 DEF KeepsFor, Unset

LEMMA SomeName == \A s \in OwnScopes : In(s) # {} /\ In(s) \subseteq Resources
<1> TAKE s \in OwnScopes
<1>1. PICK n \in Names : TRUE
  BY SourceCacheAssumption
<1>2. [scope |-> s, name |-> n] \in In(s)
  BY <1>1 DEF In, Resources
<1> QED BY <1>2 DEF In

(* A new call may note the ARN it searches for.                            *)
LEMMA NewSearch ==
  ASSUME NEW rec, New(rec), NEW arn \in Place
  PROVE  LET new == [rec EXCEPT !.arn = arn] IN
         New(new) /\ new.r = rec.r /\ new.op = rec.op /\ new.arn = arn
<1> DEFINE new == [rec EXCEPT !.arn = arn]
<1>1. /\ new \in CallType /\ new.at = rec.at
      /\ new.op = rec.op /\ new.r = rec.r /\ new.ignore = rec.ignore /\ new.arn = arn
      /\ new.ever = rec.ever /\ new.ticks = rec.ticks /\ new.got = rec.got
      /\ new.lacks = rec.lacks /\ new.on = rec.on /\ new.left = rec.left
      /\ new.answer = rec.answer /\ new.failed = rec.failed
  BY DEF New, CallType
<1> HIDE DEF new
<1> QED BY <1>1 DEF New, Begun, new

(* A new call that is not answered from the cache asks AWS.                *)
Asks(new, rec, at, left) ==
  /\ new \in CallType /\ new.at = at /\ new.left = left
  /\ new.op = rec.op /\ new.r = rec.r /\ new.arn = rec.arn /\ new.ignore = rec.ignore
  /\ new.ever = rec.ever /\ new.ticks = rec.ticks /\ new.got = {} /\ new.lacks = {}
  /\ new.answer = NoAnswer /\ new.on = Nothing /\ new.failed = FALSE

LEMMA NewAsks ==
  ASSUME NEW rec, New(rec), NEW left, NEW at, at \notin {"idle", "error", "done"},
         NEW new, Asks(new, rec, at, left), Shape(source.kind, new, steady)
  PROVE  new \in CallType /\ CallFits(source, new, world, steady)
BY GoesOn DEF New, Asks

(* Of a whole scope everything is still to come.                           *)
LEMMA AllToCome ==
  ASSUME NEW s \in OwnScopes, NEW rec, rec.op = "LIST" => rec.r = Whole(s),
         NEW left, rec.op = "LIST" => left = In(s)
  PROVE  Gathered(rec, {}, left, steady)
BY DEF Gathered, Whole

(* A call is still the same when it gets more from AWS.                    *)
LEMMA BegunStays ==
  ASSUME NEW rec \in CallType, Begun(source, rec, world), NEW new \in CallType,
         new.op = rec.op, new.r = rec.r, new.ignore = rec.ignore, new.ever = rec.ever,
         new.ticks = rec.ticks,
         \A i \in new.got : i \in rec.got \/ (i.age = 0 /\ i.of \in world)
  PROVE  Begun(source, new, world)
<1>1. new.ignore => world \subseteq new.ever /\ Of(new.got) \subseteq new.ever
  BY DEF Begun, Of
<1>2. new.ticks \in Nat
  BY CallFields
<1>3. StoresOnce(source) => \A i \in new.got : i.age <= new.ticks
  BY <1>2 DEF Begun
<1> QED BY <1>1, <1>3 DEF Begun

(* A page adds what of it exists.                                          *)
LEMMA PageAdds ==
  ASSUME Around, NEW rec \in CallType, Begun(source, rec, world),
         Gathered(rec, rec.got, rec.left, steady), NEW page \in SUBSET rec.left
  PROVE  LET more == {Read(r, 0) : r \in page \cap world}
             new == [rec EXCEPT !.got = @ \cup more, !.left = @ \ page] IN
         /\ new \in CallType /\ Begun(source, new, world)
         /\ new.at = rec.at /\ new.op = rec.op /\ new.r = rec.r /\ new.arn = rec.arn
         /\ new.answer = rec.answer /\ new.ticks = rec.ticks
         /\ Gathered(new, new.got, new.left, steady)
<1> DEFINE more == {Read(r, 0) : r \in page \cap world}
           new == [rec EXCEPT !.got = @ \cup more, !.left = @ \ page]
<1>1. \A r \in page \cap world : /\ Read(r, 0) \in ItemType /\ Read(r, 0).of = r
                                 /\ Read(r, 0).age = 0 /\ Read(r, 0).lacks = {}
  BY CallFields DEF Read, Part, ItemType
<1>2. /\ more \in SUBSET ItemType /\ Of(more) = page \cap world
      /\ \A i \in more : i.of \in world /\ i.age = 0 /\ i.lacks = {}
  BY <1>1 DEF Of
<1> HIDE DEF more
<1>3. /\ new \in CallType
      /\ new.at = rec.at /\ new.op = rec.op /\ new.r = rec.r /\ new.arn = rec.arn
      /\ new.answer = rec.answer /\ new.ticks = rec.ticks /\ new.ignore = rec.ignore
      /\ new.ever = rec.ever /\ new.failed = rec.failed
      /\ new.got = rec.got \cup more /\ new.left = rec.left \ page
  BY <1>2 DEF CallType
<1> HIDE DEF new
<1>4. Of(new.got) = Of(rec.got) \cup (page \cap world)
  BY <1>2, <1>3 DEF Of
<1>5. Gathered(new, new.got, new.left, steady)
  BY <1>2, <1>3, <1>4 DEF Gathered, Around
<1>6. Begun(source, new, world)
  BY <1>2, <1>3, BegunStays
<1> QED BY <1>3, <1>5, <1>6 DEF new, more

(* What was read just now of one resource.                                 *)
LEMMA OneRead ==
  ASSUME NEW r \in Resources
  PROVE  /\ {Read(r, 0)} \in SUBSET ItemType /\ Of({Read(r, 0)}) = {r}
         /\ \A i \in {Read(r, 0)} : i.age = 0 /\ i.of = r /\ i.lacks = {}
BY DEF Read, Part, ItemType, Of

(* A call answers with what it got, and with the error it came to.         *)
LEMMA AnswersGot ==
  ASSUME Around, NEW rec \in CallType, Begun(source, rec, world),
         (source.kind = "S3Source" => ~BadRequests) => Gathered(rec, rec.got, {}, steady)
  PROVE  LET done == Done(rec, Items(rec.got)) IN
         done \in CallType /\ CallFits(source, done, world, steady)
<1>1. /\ rec.got \in SUBSET ItemType
      /\ rec.ignore => Of(rec.got) \subseteq rec.ever
      /\ StoresOnce(source) => \A i \in rec.got : i.age <= rec.ticks
      /\ source \in Sources
  BY CallFields DEF Begun, Around
<1>2. /\ Items(rec.got) \in AnswerType /\ Items(rec.got).kind # "none"
      /\ AnswerFits(source, rec, Items(rec.got), steady)
  BY <1>1, ItemsFit
<1> QED BY <1>2, DoneFits

LEMMA AnswersError ==
  ASSUME NEW rec \in CallType, UnderWay(source, rec, world, steady), rec.at = "error"
  PROVE  LET done == Done(rec, rec.answer) IN
         done \in CallType /\ CallFits(source, done, world, steady)
<1>1. /\ rec.answer \in AnswerType /\ rec.answer.kind = "error" /\ rec.answer.items = {}
      /\ ErrorFits(source, rec, rec.answer.error, steady)
  BY CallFields DEF UnderWay
<1>2. AnswerFits(source, rec, rec.answer, steady)
  BY <1>1 DEF AnswerFits, Of
<1> QED BY <1>1, <1>2, DoneFits

(* What is stored of a call is as old as the call.                         *)
LEMMA GotIsYoung ==
  ASSUME Around, NEW rec \in CallType, Begun(source, rec, world), NEW item \in rec.got
  PROVE  /\ item \in ItemType /\ item.of \in Resources
         /\ StoresOnce(source) => item.age <= source.Deadline
<1>1. item \in ItemType /\ item.of \in Resources /\ item.age \in Nat /\ rec.ticks \in Nat
  BY CallFields DEF ItemType
<1>2. source.Deadline \in Nat
  BY SourceTypes DEF Around
<1> QED BY <1>1, <1>2 DEF Begun

LEMMA ScopeOfList ==
  ASSUME NEW rec, Begun(source, rec, world), rec.op = "LIST"
  PROVE  rec.r.scope \in OwnScopes
<1>1. PICK s \in OwnScopes : rec.r = Whole(s)
  BY DEF Begun
<1>2. Whole(s).scope = s
  BY DEF Whole
<1> QED BY <1>1, <1>2

(* The step a call is at.                                                  *)
LEMMA AtStep ==
  ASSUME SourcesInv, NEW c \in Callers, call[c].at \notin {"idle", "done"}
  PROVE  /\ call[c] \in CallType /\ UnderWay(source, call[c], world, steady)
         /\ Begun(source, call[c], world) /\ Shape(source.kind, call[c], steady)
         /\ call[c].at # "error" => call[c].answer = NoAnswer
         /\ Around /\ CacheFits(source, cache, steady)
BY DEF SourcesInv, CallFits, Idle, UnderWay

(* A step that stores something.                                           *)
LEMMA SomethingStored ==
  ASSUME SourcesInv, NEW c \in Callers, UNCHANGED <<world, steady, ready>>,
         CacheFits(source, cache', steady),
         NEW rec \in CallType, Set(c, rec), CallFits(source, rec, world, steady)
  PROVE  StepKeeps(c)
BY DEF StepKeeps, SourcesInv, Around

-----------------------------------------------------------------------------
(* DescribeOnlySource. Its instance is of the same cache and calls as this *)
(* module, so what they have in common is the same.                        *)

LEMMA DescribeNames ==
  /\ Describe!Environment <=> Environment
  /\ \A c, rec : Describe!Set(c, rec) <=> Set(c, rec)
  /\ \A rec, answer : Describe!Done(rec, answer) = Done(rec, answer)
  /\ \A r : Describe!GetCached(r) = GetCached(r)
  /\ \A s : Describe!ListCached(s) = ListCached(s)
  /\ \A s : Describe!In(s) = In(s)
  /\ \A op, r, ignore : Describe!NewCall(op, r, ignore) = NewCall(op, r, ignore)
  /\ \A s : Describe!Whole(s) = Whole(s)
  /\ Describe!Nothing = Nothing
  /\ \A items : Describe!Items(items) = Items(items)
  /\ \A error : Describe!Error(error) = Error(error)
  /\ \A kind, cause : Describe!Failure(kind, cause) = Failure(kind, cause)
  /\ \A r, age : Describe!Read(r, age) = Read(r, age)
  /\ \A rec, r : Describe!FailuresFor(rec, r) = FailuresFor(rec, r)
  /\ \A rec : Describe!AnyFailure(rec) = AnyFailure(rec)
  /\ \A entries, item, duration :
       Describe!WithItem(entries, item, duration)
       = WithItem(entries, item, duration)
  /\ \A entries, item, duration :
       Describe!WithListed(entries, item, duration)
       = WithListed(entries, item, duration)
  /\ \A entries, key, error, duration :
       Describe!WithError(entries, key, error, duration)
       = WithError(entries, key, error, duration)
  /\ \A r : Describe!GetErrorKey(r) = GetErrorKey(r)
  /\ \A s : Describe!ListErrorKey(s) = ListErrorKey(s)
  /\ Describe!cacheDuration = cacheDuration
  /\ Describe!Resources = Resources
  /\ Describe!CacheTypeOK <=> CacheTypeOK
  /\ \A rec, r : Describe!GetHit(r, ~Describe!UsesCache(rec)) <=> GetHit(r, ~(~rec.ignore))
  /\ \A rec, s : Describe!ListHit(s, ~Describe!UsesCache(rec)) <=> ListHit(s, ~(~rec.ignore))
BY Zenon DEF Describe!UsesCache, Describe!Environment, Environment,
   Describe!Set, Set, Describe!Done, Done, Describe!GetCached, GetCached,
   Describe!ListCached, ListCached, Describe!In, In, Describe!NewCall,
   NewCall, Describe!Whole, Whole, Describe!Nothing, Nothing, Describe!Items,
   Items, Describe!Error, Error, Describe!Failure, Failure, Describe!Read,
   Read, Describe!Part, Part, Describe!FailuresFor, FailuresFor,
   Describe!AnyFailure, AnyFailure, Describe!Unwrapped, Unwrapped,
   Describe!WithItem, WithItem, Describe!WithListed, WithListed,
   Describe!WithError, WithError, Describe!WithRawError, WithRawError,
   Describe!GetErrorKey, GetErrorKey, Describe!ListErrorKey, ListErrorKey,
   Describe!cacheDuration, cacheDuration, Describe!Resources, Resources,
   Describe!NoAnswer, NoAnswer, Describe!CacheTypeOK, CacheTypeOK,
   Describe!Failures, Failures, Describe!AnyErrors, AnyErrors,
   Describe!Errors, Errors, Describe!Put, Put, Describe!ItemEntry, ItemEntry,
   Describe!ErrorEntry, ErrorEntry, Describe!ItemKey, ItemKey,
   Describe!ListedKey, ListedKey, Describe!Key, Key, Describe!Holds, Holds,
   Describe!At, At, Describe!ListedIn, ListedIn, Describe!Idle, Idle,
   Describe!NoError, NoError, Describe!Change, Change, Describe!Tick, Tick,
   Describe!EndContext, EndContext, Describe!Return, Return,
   Describe!AgeAfter, AgeAfter, Describe!Older, Older, Describe!GetHit,
   GetHit, Describe!ListHit, ListHit

LEMMA DescribeGet ==
  ASSUME SourcesInv, source.kind = "DescribeOnlySource", NEW c \in Callers,
         NEW rec, New(rec), rec.r \in Resources, rec.op # "LIST",
         rec.arn # Nothing => rec.op = "SEARCH", Describe!Get(c, rec)
  PROVE  StepKeeps(c)
<1> DEFINE new == [rec EXCEPT !.at = "fetch", !.left = {rec.r}]
<1>1. /\ UNCHANGED <<world, steady, cache>> /\ ready' \in BOOLEAN
      /\ \/ GetHit(rec.r, ~(~rec.ignore)) /\ Set(c, Done(rec, GetCached(rec.r)))
         \/ Set(c, new)
  BY DescribeNames DEF Describe!Get
<1>2. new \in CallType /\ CallFits(source, new, world, steady)
  <2>1. Asks(new, rec, "fetch", {rec.r})
    BY DEF Asks, New, CallType, Steps
  <2> HIDE DEF new
  <2>2. Shape(source.kind, new, steady)
    BY <2>1 DEF Asks, Shape, DescribeShape, Gathered
  <2> QED BY <2>1, <2>2, NewAsks
<1> HIDE DEF new
<1>3. rec \in CallType
  BY DEF New
<1> QED BY <1>1, <1>2, <1>3, HitFits, NothingStored

LEMMA DescribeList ==
  ASSUME SourcesInv, source.kind = "DescribeOnlySource", NEW c \in Callers,
         NEW rec, New(rec), NEW s \in OwnScopes, rec.r = Whole(s), rec.op = "LIST",
         rec.arn = Nothing, Describe!List(c, rec)
  PROVE  StepKeeps(c)
<1> DEFINE new == [rec EXCEPT !.at = "fetch", !.left = In(s)]
<1>1. /\ UNCHANGED <<world, steady, cache>> /\ ready' \in BOOLEAN
      /\ \/ ListHit(s, ~(~rec.ignore)) /\ Set(c, Done(rec, ListCached(s)))
         \/ Set(c, new)
  <2>1. rec.r.scope = s
    BY DEF Whole
  <2> QED BY <2>1, DescribeNames DEF Describe!List
<1>2. new \in CallType /\ CallFits(source, new, world, steady)
  <2>1. Asks(new, rec, "fetch", In(s))
    BY SomeName DEF Asks, New, CallType, Steps
  <2> HIDE DEF new
  <2>2. Gathered(new, new.got, new.left, steady)
    BY <2>1, AllToCome DEF Asks
  <2>3. Shape(source.kind, new, steady)
    BY <2>1, <2>2, SomeName DEF Asks, Shape, DescribeShape
  <2> QED BY <2>1, <2>3, NewAsks
<1> HIDE DEF new
<1>3. rec \in CallType
  BY DEF New
<1> QED BY <1>1, <1>2, <1>3, HitFits, NothingStored

LEMMA DescribeBegins ==
  ASSUME SourcesInv, source.kind = "DescribeOnlySource", NEW c \in Callers,
         NEW m \in Methods, NEW s \in OwnScopes, NEW ignore \in BOOLEAN,
         Describe!Begin(c, m, s, ignore)
  PROVE  StepKeeps(c)
<1>1. CASE \E r \in In(s) : Describe!Get(c, NewCall("GET", r, ignore))
  <2>1. PICK r \in Resources : Describe!Get(c, NewCall("GET", r, ignore))
    BY <1>1 DEF In
  <2>2. /\ New(NewCall("GET", r, ignore)) /\ NewCall("GET", r, ignore).r = r
        /\ NewCall("GET", r, ignore).op = "GET" /\ NewCall("GET", r, ignore).arn = Nothing
    BY NewCallIsNew
  <2> QED BY <2>1, <2>2, DescribeGet
<1>2. CASE Describe!List(c, NewCall("LIST", Whole(s), ignore))
  <2> DEFINE rec == NewCall("LIST", Whole(s), ignore)
  <2>1. New(rec) /\ rec.r = Whole(s) /\ rec.op = "LIST" /\ rec.arn = Nothing
    BY NewCallIsNew
  <2> HIDE DEF rec
  <2> QED BY <1>2, <2>1, DescribeList DEF rec
<1>3. CASE \E r \in In(s) : Describe!SearchARN(c, NewCall("SEARCH", r, ignore))
  <2>1. PICK r \in Resources : Describe!SearchARN(c, NewCall("SEARCH", r, ignore))
    BY <1>3 DEF In
  <2> DEFINE rec == NewCall("SEARCH", r, ignore)
             new == [rec EXCEPT !.arn = rec.r]
  <2>2. New(rec) /\ rec.r = r /\ rec.op = "SEARCH" /\ r \in Place
    BY NewCallIsNew, NoResource
  <2>3. Describe!Get(c, new)
    BY <2>1 DEF Describe!SearchARN
  <2> HIDE DEF rec
  <2>4. New(new) /\ new.r = r /\ new.op = "SEARCH"
    BY <2>2, NewSearch
  <2> HIDE DEF new
  <2> QED BY <2>3, <2>4, DescribeGet
<1>4. CASE \E found \in (SUBSET In(s)) \ {{}} :
             Describe!SearchCustom(c, NewCall("SEARCH", Whole(s), ignore), found)
  <2>1. PICK found \in (SUBSET In(s)) \ {{}} :
               Describe!SearchCustom(c, NewCall("SEARCH", Whole(s), ignore), found)
    BY <1>4
  <2> DEFINE rec == NewCall("SEARCH", Whole(s), ignore)
             new == [rec EXCEPT !.at = "fetch", !.left = found]
  <2>2. Set(c, new) /\ UNCHANGED <<world, steady, cache, ready>>
    BY <2>1, DescribeNames DEF Describe!SearchCustom
  <2>3. New(rec) /\ rec.op = "SEARCH" /\ rec.arn = Nothing
    BY NewCallIsNew
  <2>4. found \in SUBSET Resources /\ found # {}
    BY SomeName
  <2> HIDE DEF rec
  <2>5. Asks(new, rec, "fetch", found)
    BY <2>3, <2>4 DEF Asks, New, CallType, Steps
  <2> HIDE DEF new
  <2>6. new \in CallType /\ CallFits(source, new, world, steady)
    <3>1. Shape(source.kind, new, steady)
      BY <2>3, <2>4, <2>5 DEF Asks, Shape, DescribeShape, Gathered
    <3> QED BY <2>3, <2>5, <3>1, NewAsks
  <2> QED BY <2>2, <2>6, ReadyKept, NothingStored
<1>5. CASE Describe!Refuse(c, NewCall(m, Whole(s), ignore))
  <2>1. /\ UNCHANGED <<world, steady, cache, ready>>
        /\ \E e \in {"NOSCOPE", "NOTFOUND", "OTHER"} :
             Set(c, Done(NewCall(m, Whole(s), ignore), Error(Failure(e, "other"))))
    BY <1>5, DescribeNames DEF Describe!Refuse
  <2> QED BY <2>1, RefusalFits, ReadyKept, NothingStored
<1> QED BY <1>1, <1>2, <1>3, <1>4, <1>5, DescribeNames DEF Describe!Begin

LEMMA DescribeFails ==
  ASSUME SourcesInv, source.kind = "DescribeOnlySource", NEW c \in Callers,
         call[c].at = "fetch", NEW e \in ErrorType, ErrorFits(source, call[c], e, steady),
         Set(c, Describe!Failed(call[c], e)), UNCHANGED <<world, steady, cache, ready>>
  PROVE  StepKeeps(c)
<1> DEFINE rec == call[c]
           new == [rec EXCEPT !.at = "error", !.got = {}, !.answer = Error(e)]
<1>1. Set(c, new)
  BY DescribeNames DEF Describe!Failed
<1>2. /\ rec \in CallType /\ Begun(source, rec, world) /\ Shape(source.kind, rec, steady)
  BY AtStep
<1> HIDE DEF rec
<1>3. Error(e) \in AnswerType
  BY AnswerTypes
<1>4. /\ new \in CallType /\ new.at = "error" /\ new.answer = Error(e) /\ new.got = {}
      /\ new.op = rec.op /\ new.r = rec.r /\ new.ignore = rec.ignore /\ new.ever = rec.ever
      /\ new.ticks = rec.ticks /\ new.ended = rec.ended /\ new.arn = rec.arn
  BY <1>2, <1>3 DEF CallType, Steps
<1> HIDE DEF new
<1>5. Shape(source.kind, new, steady)
  BY <1>2, <1>4 DEF Shape, DescribeShape
<1>6. CallFits(source, new, world, steady)
  BY <1>2, <1>4, <1>5, ComesToError DEF rec
<1> QED BY <1>1, <1>4, <1>6, ReadyKept, NothingStored

(* The resource that is asked for is known.                                *)
LEMMA DescribeOne ==
  ASSUME NEW rec, Begun(source, rec, world), Describe!OneItem(rec),
         DescribeShape(rec, steady)
  PROVE  rec.r \in Resources /\ rec.op # "LIST"
BY DescribeNames DEF Begun, Describe!OneItem, DescribeShape

LEMMA DescribeFetchOne ==
  ASSUME SourcesInv, source.kind = "DescribeOnlySource", NEW c \in Callers,
         Describe!FetchOne(c)
  PROVE  StepKeeps(c)
<1> DEFINE rec == call[c]
           new == [rec EXCEPT !.at = "store", !.got = {Read(rec.r, 0)}]
<1>1. /\ rec.at = "fetch" /\ Describe!OneItem(rec)
      /\ UNCHANGED <<world, steady, cache, ready>>
      /\ \/ rec.r \in world /\ Set(c, new)
         \/ \E e \in FailuresFor(rec, rec.r) : Set(c, Describe!Failed(rec, e))
  BY DescribeNames DEF Describe!FetchOne
<1>2. /\ rec \in CallType /\ Begun(source, rec, world) /\ Shape(source.kind, rec, steady)
      /\ Around /\ rec.answer = NoAnswer
  BY <1>1, AtStep
<1>3. rec.r \in Resources /\ rec.op # "LIST"
  BY <1>1, <1>2, DescribeOne DEF Shape
<1>4. CASE rec.r \in world /\ Set(c, new)
  <2>1. /\ new \in CallType /\ new.at = "store" /\ new.got = {Read(rec.r, 0)}
        /\ new.answer = NoAnswer
        /\ new.op = rec.op /\ new.r = rec.r /\ new.ignore = rec.ignore /\ new.ever = rec.ever
        /\ new.ticks = rec.ticks /\ new.arn = rec.arn
    <3> HIDE DEF rec
    <3> QED BY <1>2, <1>3, OneRead DEF CallType, Steps
  <2> HIDE DEF rec, new
  <2>2. Shape(source.kind, new, steady)
    BY <1>2, <1>3, <2>1 DEF Shape, DescribeShape, Gathered
  <2>3. \A i \in new.got : i.age = 0 /\ i.of \in world
    BY <1>3, <1>4, <2>1, OneRead
  <2>4. CallFits(source, new, world, steady)
    BY <1>2, <2>1, <2>2, <2>3, GoesOn
  <2> QED BY <1>1, <1>4, <2>1, <2>4, ReadyKept, NothingStored
<1>5. ASSUME NEW e \in FailuresFor(rec, rec.r), Set(c, Describe!Failed(rec, e))
      PROVE  StepKeeps(c)
  <2>1. e \in ErrorType /\ ErrorFits(source, rec, e, steady)
    BY <1>2, <1>5, FailuresFit DEF ErrorFits
  <2> QED BY <1>1, <1>5, <2>1, DescribeFails
<1> QED BY <1>1, <1>4, <1>5

LEMMA DescribeFetchPage ==
  ASSUME SourcesInv, source.kind = "DescribeOnlySource", NEW c \in Callers,
         NEW page \in SUBSET call[c].left, Describe!FetchPage(c, page)
  PROVE  StepKeeps(c)
<1> DEFINE rec == call[c]
           more == {Read(r, 0) : r \in page \cap world}
           new == [rec EXCEPT !.got = @ \cup more, !.left = @ \ page]
<1>1. /\ rec.at = "fetch" /\ UNCHANGED <<world, steady, cache, ready>>
      /\ \/ Set(c, Describe!AfterPage(new))
         \/ \E e \in AnyFailure(rec) : Set(c, Describe!Failed(rec, e))
  BY DescribeNames DEF Describe!FetchPage
<1>2. /\ rec \in CallType /\ Begun(source, rec, world) /\ Shape(source.kind, rec, steady)
      /\ Around /\ rec.answer = NoAnswer
  BY <1>1, AtStep
<1>3. CASE Set(c, Describe!AfterPage(new))
  <2>1. DescribeShape(rec, steady) /\ Gathered(rec, rec.got, rec.left, steady)
    BY <1>1, <1>2 DEF Shape, DescribeShape
  <2>2. /\ new \in CallType /\ Begun(source, new, world)
        /\ new.at = "fetch" /\ new.op = rec.op /\ new.r = rec.r /\ new.arn = rec.arn
        /\ new.answer = NoAnswer
        /\ Gathered(new, new.got, new.left, steady)
    BY <1>1, <1>2, <2>1, PageAdds
  <2> HIDE DEF new, rec
  <2>3. CASE new.left # {}
    <3>1. Set(c, new)
      BY <1>3, <2>3 DEF Describe!AfterPage
    <3>2. Shape(source.kind, new, steady)
      BY <2>1, <2>2, <2>3 DEF Shape, DescribeShape
    <3>3. CallFits(source, new, world, steady)
      BY <2>2, <3>2 DEF CallFits, UnderWay
    <3> QED BY <1>1, <2>2, <3>1, <3>3, ReadyKept, NothingStored
  <2>4. CASE new.left = {} /\ new.got = {}
    <3>1. Set(c, Done(new, Items(new.got)))
      BY <1>3, <2>4, DescribeNames DEF Describe!AfterPage
    <3>2. Gathered(new, new.got, {}, steady)
      BY <2>2, <2>4
    <3> QED BY <1>1, <1>2, <2>2, <3>1, <3>2, AnswersGot, ReadyKept, NothingStored
  <2>5. CASE new.left = {} /\ new.got # {}
    <3> DEFINE then == [new EXCEPT !.at = "store", !.left = {i.of : i \in new.got}]
    <3>1. Set(c, then)
      BY <1>3, <2>5, DescribeNames DEF Describe!AfterPage
    <3>2. {i.of : i \in new.got} \in SUBSET Resources
      BY <2>2, CallFields DEF ItemType
    <3>3. /\ then \in CallType /\ then.at = "store" /\ then.got = new.got
          /\ then.op = new.op /\ then.r = new.r /\ then.arn = new.arn
          /\ then.answer = new.answer /\ then.ever = new.ever /\ then.ignore = new.ignore
          /\ then.ticks = new.ticks /\ then.failed = new.failed
      BY <2>2, <3>2 DEF CallType, Steps
    <3> HIDE DEF then
    <3>4. Gathered(then, then.got, {}, steady)
      BY <2>2, <2>5, <3>3 DEF Gathered
    <3>5. Shape(source.kind, then, steady)
      BY <2>1, <2>2, <2>5, <3>3, <3>4 DEF Shape, DescribeShape
    <3>6. CallFits(source, then, world, steady)
      BY <2>2, <3>3, <3>5, GoesOn
    <3> QED BY <1>1, <3>1, <3>3, <3>6, ReadyKept, NothingStored
  <2> QED BY <2>3, <2>4, <2>5
<1>4. ASSUME NEW e \in AnyFailure(rec), Set(c, Describe!Failed(rec, e))
      PROVE  StepKeeps(c)
  <2>1. e \in ErrorType /\ ErrorFits(source, rec, e, steady)
    BY <1>2, <1>4, FailuresFit DEF ErrorFits
  <2> QED BY <1>1, <1>4, <2>1, DescribeFails
<1> QED BY <1>1, <1>3, <1>4

LEMMA DescribeStoreOne ==
  ASSUME SourcesInv, source.kind = "DescribeOnlySource", NEW c \in Callers,
         Describe!StoreOne(c)
  PROVE  StepKeeps(c)
<1> DEFINE rec == call[c]
<1>1. /\ rec.at = "store" /\ UNCHANGED <<world, steady, ready>>
      /\ Set(c, Done(rec, Items(rec.got)))
  BY DescribeNames DEF Describe!StoreOne
<1>2. PICK item \in rec.got : cache' = WithItem(cache, item, cacheDuration)
  BY DescribeNames DEF Describe!StoreOne
<1>3. /\ rec \in CallType /\ Begun(source, rec, world) /\ Shape(source.kind, rec, steady)
      /\ Around /\ CacheFits(source, cache, steady)
  BY <1>1, AtStep
<1>4. CacheFits(source, cache', steady)
  BY <1>2, <1>3, GotIsYoung, HowLong, WithItemFits DEF Around
<1>5. Gathered(rec, rec.got, {}, steady)
  BY <1>1, <1>3 DEF Shape, DescribeShape
<1> HIDE DEF rec
<1> QED BY <1>1, <1>3, <1>4, <1>5, AnswersGot, SomethingStored

LEMMA DescribeStoreNext ==
  ASSUME SourcesInv, source.kind = "DescribeOnlySource", NEW c \in Callers,
         NEW item \in call[c].got, Describe!StoreNext(c, item)
  PROVE  StepKeeps(c)
<1> DEFINE rec == call[c]
           rest == rec.left \ {item.of}
           new == [rec EXCEPT !.left = rest]
<1>1. /\ rec.at = "store" /\ UNCHANGED <<world, steady, ready>>
      /\ \/ Set(c, Done(rec, Items(rec.got)))
         \/ Set(c, new)
  BY DescribeNames DEF Describe!StoreNext
<1>2. /\ rec \in CallType /\ Begun(source, rec, world) /\ Shape(source.kind, rec, steady)
      /\ Around /\ CacheFits(source, cache, steady) /\ rec.answer = NoAnswer
  BY <1>1, AtStep
<1>3. \/ cache' = WithListed(cache, item, cacheDuration)
      \/ cache' = WithItem(cache, item, cacheDuration)
      \/ cache' = cache
  <2>1. rec.op \in {"LIST", "SEARCH"}
    BY <1>2, CallFields, DescribeNames DEF Begun, Describe!StoreNext, Describe!OneItem
  <2> HIDE DEF rec
  <2>2. CASE rec.op = "LIST"
    BY <2>2, DescribeNames DEF Describe!StoreNext, rec
  <2>3. CASE rec.op = "SEARCH"
    BY <2>3, DescribeNames DEF Describe!StoreNext, rec
  <2> QED BY <2>1, <2>2, <2>3
<1>4. CacheFits(source, cache', steady)
  BY <1>2, <1>3, GotIsYoung, HowLong, WithItemFits DEF Around
<1>5. Gathered(rec, rec.got, {}, steady)
  BY <1>1, <1>2 DEF Shape, DescribeShape
<1>6. new \in CallType /\ CallFits(source, new, world, steady)
  <2> HIDE DEF rec
  <2>1. /\ new \in CallType /\ new.at = rec.at /\ new.got = rec.got /\ new.op = rec.op
        /\ new.r = rec.r /\ new.arn = rec.arn /\ new.answer = rec.answer
        /\ new.ever = rec.ever /\ new.ignore = rec.ignore /\ new.ticks = rec.ticks
        /\ new.failed = rec.failed
    BY <1>2 DEF CallType
  <2> HIDE DEF new
  <2>2. Shape(source.kind, new, steady)
    BY <1>1, <1>2, <1>5, <2>1 DEF Shape, DescribeShape, Gathered
  <2> QED BY <1>1, <1>2, <2>1, <2>2, GoesOn
<1> HIDE DEF rec, new
<1> QED BY <1>1, <1>2, <1>4, <1>5, <1>6, AnswersGot, SomethingStored

LEMMA DescribeStoreFailure ==
  ASSUME SourcesInv, source.kind = "DescribeOnlySource", NEW c \in Callers,
         Describe!StoreFailure(c)
  PROVE  StepKeeps(c)
<1> DEFINE rec == call[c]
           error == rec.answer.error
<1>1. /\ rec.at = "error" /\ UNCHANGED <<world, steady, ready>>
      /\ Set(c, Done(rec, rec.answer))
      /\ \/ /\ Describe!OneItem(rec)
            /\ cache' = WithError(cache, GetErrorKey(rec.r), error, cacheDuration)
         \/ /\ rec.op = "LIST"
            /\ cache' = WithError(cache, ListErrorKey(rec.r.scope), error, cacheDuration)
         \/ cache' = cache
  BY DescribeNames DEF Describe!StoreFailure
<1>2. /\ rec \in CallType /\ UnderWay(source, rec, world, steady)
      /\ Begun(source, rec, world) /\ Shape(source.kind, rec, steady)
      /\ Around /\ CacheFits(source, cache, steady)
  BY <1>1, AtStep
<1> HIDE DEF rec
<1>3. error \in ErrorType /\ KindKept(source, error) /\ Truthful(error, rec.r, steady)
  BY <1>1, <1>2, CallFields DEF UnderWay, ErrorFits, AnswerType
<1>4. CASE Describe!OneItem(rec)
           /\ cache' = WithError(cache, GetErrorKey(rec.r), error, cacheDuration)
  <2>1. rec.r \in Resources
    BY <1>2, <1>4, DescribeOne DEF Shape
  <2>2. CacheFits(source, cache', steady)
    BY <1>2, <1>3, <1>4, <2>1, HowLong, WithErrorFits DEF Around
  <2> QED BY <1>1, <1>2, <2>2, AnswersError, SomethingStored
<1>5. CASE rec.op = "LIST"
           /\ cache' = WithError(cache, ListErrorKey(rec.r.scope), error, cacheDuration)
  <2>1. rec.r.scope \in OwnScopes
    BY <1>2, <1>5, ScopeOfList
  <2>2. CacheFits(source, cache', steady)
    BY <1>2, <1>3, <1>5, <2>1, HowLong, WithErrorFits DEF Around
  <2> QED BY <1>1, <1>2, <2>2, AnswersError, SomethingStored
<1>6. CASE cache' = cache
  BY <1>1, <1>2, <1>6, AnswersError, SomethingStored
<1> QED BY <1>1, <1>4, <1>5, <1>6

LEMMA DescribeStepKeeps ==
  ASSUME SourcesInv, source.kind = "DescribeOnlySource", NEW c \in Callers, Describe!Step(c)
  PROVE  StepKeeps(c)
<1>1. CASE \E m \in Methods, s \in OwnScopes, ignore \in BOOLEAN : Describe!Begin(c, m, s, ignore)
  BY <1>1, DescribeBegins
<1>2. CASE \E page \in (SUBSET call[c].left) \ {{}} : Describe!FetchPage(c, page)
  BY <1>2, DescribeFetchPage
<1>3. CASE \E item \in call[c].got : Describe!StoreNext(c, item)
  BY <1>3, DescribeStoreNext
<1> QED BY <1>1, <1>2, <1>3, DescribeFetchOne, DescribeStoreOne, DescribeStoreFailure
        DEF Describe!Step

-----------------------------------------------------------------------------
(* GetListSource.                                                          *)

LEMMA GetListNames ==
  /\ GetList!Environment <=> Environment
  /\ \A c, rec : GetList!Set(c, rec) <=> Set(c, rec)
  /\ \A rec, answer : GetList!Done(rec, answer) = Done(rec, answer)
  /\ \A r : GetList!GetCached(r) = GetCached(r)
  /\ \A s : GetList!ListCached(s) = ListCached(s)
  /\ \A s : GetList!In(s) = In(s)
  /\ \A op, r, ignore : GetList!NewCall(op, r, ignore) = NewCall(op, r, ignore)
  /\ \A s : GetList!Whole(s) = Whole(s)
  /\ GetList!Nothing = Nothing
  /\ \A items : GetList!Items(items) = Items(items)
  /\ \A error : GetList!Error(error) = Error(error)
  /\ \A kind, cause : GetList!Failure(kind, cause) = Failure(kind, cause)
  /\ \A r, age : GetList!Read(r, age) = Read(r, age)
  /\ \A rec, r : GetList!FailuresFor(rec, r) = FailuresFor(rec, r)
  /\ \A rec : GetList!AnyFailure(rec) = AnyFailure(rec)
  /\ \A entries, item, duration :
       GetList!WithItem(entries, item, duration)
       = WithItem(entries, item, duration)
  /\ \A entries, item, duration :
       GetList!WithListed(entries, item, duration)
       = WithListed(entries, item, duration)
  /\ \A entries, key, error, duration :
       GetList!WithRawError(entries, key, error, duration)
       = WithRawError(entries, key, error, duration)
  /\ \A r : GetList!GetErrorKey(r) = GetErrorKey(r)
  /\ \A s : GetList!ListErrorKey(s) = ListErrorKey(s)
  /\ GetList!cacheDuration = cacheDuration
  /\ GetList!Resources = Resources
  /\ GetList!CacheTypeOK <=> CacheTypeOK
  /\ \A rec, r : GetList!GetHit(r, ~GetList!UsesCache(rec)) <=> GetHit(r, ~(~rec.ignore))
  /\ \A rec, s : GetList!ListHit(s, ~GetList!UsesCache(rec)) <=> ListHit(s, ~(~rec.ignore))
BY Zenon DEF GetList!UsesCache, GetList!Environment, Environment, GetList!Set,
   Set, GetList!Done, Done, GetList!GetCached, GetCached, GetList!ListCached,
   ListCached, GetList!In, In, GetList!NewCall, NewCall, GetList!Whole, Whole,
   GetList!Nothing, Nothing, GetList!Items, Items, GetList!Error, Error,
   GetList!Failure, Failure, GetList!Read, Read, GetList!Part, Part,
   GetList!FailuresFor, FailuresFor, GetList!AnyFailure, AnyFailure,
   GetList!Unwrapped, Unwrapped, GetList!WithItem, WithItem,
   GetList!WithListed, WithListed, GetList!WithError, WithError,
   GetList!WithRawError, WithRawError, GetList!GetErrorKey, GetErrorKey,
   GetList!ListErrorKey, ListErrorKey, GetList!cacheDuration, cacheDuration,
   GetList!Resources, Resources, GetList!NoAnswer, NoAnswer,
   GetList!CacheTypeOK, CacheTypeOK, GetList!Failures, Failures,
   GetList!AnyErrors, AnyErrors, GetList!Errors, Errors, GetList!Put, Put,
   GetList!ItemEntry, ItemEntry, GetList!ErrorEntry, ErrorEntry,
   GetList!ItemKey, ItemKey, GetList!ListedKey, ListedKey, GetList!Key, Key,
   GetList!Holds, Holds, GetList!At, At, GetList!ListedIn, ListedIn,
   GetList!Idle, Idle, GetList!NoError, NoError, GetList!Change, Change,
   GetList!Tick, Tick, GetList!EndContext, EndContext, GetList!Return, Return,
   GetList!AgeAfter, AgeAfter, GetList!Older, Older, GetList!GetHit, GetHit,
   GetList!ListHit, ListHit

LEMMA GetListGet ==
  ASSUME SourcesInv, source.kind = "GetListSource", NEW c \in Callers,
         NEW rec, New(rec), rec.r \in Resources, rec.op # "LIST", GetList!Get(c, rec)
  PROVE  StepKeeps(c)
<1> DEFINE new == [rec EXCEPT !.at = "get", !.left = {rec.r}]
<1>1. /\ UNCHANGED <<world, steady, cache>> /\ ready' \in BOOLEAN
      /\ \/ GetHit(rec.r, ~(~rec.ignore)) /\ Set(c, Done(rec, GetCached(rec.r)))
         \/ Set(c, new)
  BY GetListNames DEF GetList!Get
<1>2. new \in CallType /\ CallFits(source, new, world, steady)
  <2>1. Asks(new, rec, "get", {rec.r})
    BY DEF Asks, New, CallType, Steps
  <2> HIDE DEF new
  <2>2. Shape(source.kind, new, steady)
    BY <2>1 DEF Asks, Shape, GetListShape, Gathered
  <2> QED BY <2>1, <2>2, NewAsks
<1> HIDE DEF new
<1>3. rec \in CallType
  BY DEF New
<1> QED BY <1>1, <1>2, <1>3, HitFits, NothingStored

LEMMA GetListList ==
  ASSUME SourcesInv, source.kind = "GetListSource", NEW c \in Callers,
         NEW rec, New(rec), NEW s \in OwnScopes, rec.r = Whole(s), rec.op = "LIST",
         GetList!List(c, rec)
  PROVE  StepKeeps(c)
<1> DEFINE new == [rec EXCEPT !.at = "list", !.left = In(s)]
<1>1. /\ UNCHANGED <<world, steady, cache>> /\ ready' \in BOOLEAN
      /\ \/ ListHit(s, ~(~rec.ignore)) /\ Set(c, Done(rec, ListCached(s)))
         \/ Set(c, new)
  <2>1. rec.r.scope = s
    BY DEF Whole
  <2> QED BY <2>1, GetListNames DEF GetList!List
<1>2. new \in CallType /\ CallFits(source, new, world, steady)
  <2>1. Asks(new, rec, "list", In(s))
    BY SomeName DEF Asks, New, CallType, Steps
  <2> HIDE DEF new
  <2>2. Gathered(new, new.got, new.left, steady)
    BY <2>1, AllToCome DEF Asks
  <2>3. Shape(source.kind, new, steady)
    BY <2>1, <2>2, SomeName DEF Asks, Shape, GetListShape
  <2> QED BY <2>1, <2>3, NewAsks
<1> HIDE DEF new
<1>3. rec \in CallType
  BY DEF New
<1> QED BY <1>1, <1>2, <1>3, HitFits, NothingStored

LEMMA GetListBegins ==
  ASSUME SourcesInv, source.kind = "GetListSource", NEW c \in Callers,
         NEW m \in Methods, NEW s \in OwnScopes, NEW ignore \in BOOLEAN,
         GetList!Begin(c, m, s, ignore)
  PROVE  StepKeeps(c)
<1>1. CASE \E r \in In(s) : GetList!Get(c, NewCall("GET", r, ignore))
  <2>1. PICK r \in Resources : GetList!Get(c, NewCall("GET", r, ignore))
    BY <1>1 DEF In
  <2>2. /\ New(NewCall("GET", r, ignore)) /\ NewCall("GET", r, ignore).r = r
        /\ NewCall("GET", r, ignore).op = "GET" /\ NewCall("GET", r, ignore).arn = Nothing
    BY NewCallIsNew
  <2> QED BY <2>1, <2>2, GetListGet
<1>2. CASE GetList!List(c, NewCall("LIST", Whole(s), ignore))
  <2> DEFINE rec == NewCall("LIST", Whole(s), ignore)
  <2>1. New(rec) /\ rec.r = Whole(s) /\ rec.op = "LIST" /\ rec.arn = Nothing
    BY NewCallIsNew
  <2> HIDE DEF rec
  <2> QED BY <1>2, <2>1, GetListList DEF rec
<1>3. CASE \E arn \in GetList!Arns : GetList!SearchARN(c, arn, s, ignore)
  <2>1. PICK arn \in GetList!Arns : GetList!SearchARN(c, arn, s, ignore)
    BY <1>3
  <2> DEFINE r == [scope |-> s, name |-> arn.name]
             rec == NewCall("SEARCH", r, ignore)
             new == [rec EXCEPT !.arn = arn]
  <2>2. r \in Resources /\ arn \in Place
    BY DEF GetList!Arns, Resources, Place
  <2> HIDE DEF r
  <2>3. New(rec) /\ rec.r = r /\ rec.op = "SEARCH"
    BY <2>2, NewCallIsNew
  <2> HIDE DEF rec
  <2>4. New(new) /\ new.r = r /\ new.op = "SEARCH"
    BY <2>2, <2>3, NewSearch
  <2>5. CASE GetList!Get(c, new)
    <3> HIDE DEF new
    <3> QED BY <2>2, <2>4, <2>5, GetListGet
  <2>6. CASE Set(c, Done(new, Error(Failure("NOSCOPE", "other"))))
             /\ UNCHANGED <<world, steady, cache, ready>>
    <3> DEFINE error == Failure("NOSCOPE", "other")
    <3> HIDE DEF new
    <3>1. error \in ErrorType /\ ErrorFits(source, new, error, steady)
      BY AnswerTypes DEF ErrorFits, KindKept, Truthful, Seen
    <3> HIDE DEF error
    <3>2. new \in CallType
      BY <2>4 DEF New
    <3>3. Done(new, Error(error)) \in CallType
          /\ CallFits(source, Done(new, Error(error)), world, steady)
      BY <3>1, <3>2, ErrorAnswerFits, DoneFits
    <3> QED BY <2>6, <3>3, ReadyKept, NothingStored DEF error
  <2>7. \/ GetList!Get(c, new)
        \/ /\ Set(c, Done(new, Error(Failure("NOSCOPE", "other"))))
           /\ UNCHANGED <<world, steady, cache, ready>>
    BY <2>1, GetListNames DEF GetList!SearchARN, r, rec
  <2> QED BY <2>5, <2>6, <2>7
<1>4. CASE \E found \in (SUBSET In(s)) \ {{}} :
             GetList!SearchCustom(c, NewCall("SEARCH", Whole(s), ignore), found)
  <2>1. PICK found \in (SUBSET In(s)) \ {{}} :
               GetList!SearchCustom(c, NewCall("SEARCH", Whole(s), ignore), found)
    BY <1>4
  <2> DEFINE rec == NewCall("SEARCH", Whole(s), ignore)
             new == [rec EXCEPT !.at = "list", !.left = found]
  <2>2. Set(c, new) /\ UNCHANGED <<world, steady, cache, ready>>
    BY <2>1, GetListNames DEF GetList!SearchCustom
  <2>3. New(rec) /\ rec.op = "SEARCH" /\ rec.arn = Nothing
    BY NewCallIsNew
  <2>4. found \in SUBSET Resources /\ found # {}
    BY SomeName
  <2> HIDE DEF rec
  <2>5. Asks(new, rec, "list", found)
    BY <2>3, <2>4 DEF Asks, New, CallType, Steps
  <2> HIDE DEF new
  <2>6. new \in CallType /\ CallFits(source, new, world, steady)
    <3>1. Shape(source.kind, new, steady)
      BY <2>3, <2>4, <2>5 DEF Asks, Shape, GetListShape, Gathered
    <3> QED BY <2>3, <2>5, <3>1, NewAsks
  <2> QED BY <2>2, <2>6, ReadyKept, NothingStored
<1>5. CASE GetList!Refuse(c, NewCall(m, Whole(s), ignore))
  <2>1. /\ UNCHANGED <<world, steady, cache, ready>>
        /\ \E e \in {"NOSCOPE", "OTHER"} :
             Set(c, Done(NewCall(m, Whole(s), ignore), Error(Failure(e, "other"))))
    BY <1>5, GetListNames DEF GetList!Refuse
  <2> QED BY <2>1, RefusalFits, ReadyKept, NothingStored
<1> QED BY <1>1, <1>2, <1>3, <1>4, <1>5, GetListNames DEF GetList!Begin

LEMMA GetListFails ==
  ASSUME SourcesInv, source.kind = "GetListSource", NEW c \in Callers,
         call[c].at = "get", NEW e \in ErrorType, ErrorFits(source, call[c], e, steady),
         Set(c, GetList!Fails(call[c], e)), UNCHANGED <<world, steady, cache, ready>>
  PROVE  StepKeeps(c)
<1> DEFINE rec == call[c]
           new == [rec EXCEPT !.at = "error", !.answer = Error(e)]
<1>1. Set(c, new)
  BY GetListNames DEF GetList!Fails
<1>2. /\ rec \in CallType /\ Begun(source, rec, world) /\ Shape(source.kind, rec, steady)
  BY AtStep
<1>0. rec.at = "get"
  OBVIOUS
<1> HIDE DEF rec
<1>3. Error(e) \in AnswerType
  BY AnswerTypes
<1>4. /\ new \in CallType /\ new.at = "error" /\ new.answer = Error(e) /\ new.got = rec.got
      /\ new.op = rec.op /\ new.r = rec.r /\ new.ignore = rec.ignore /\ new.ever = rec.ever
      /\ new.ticks = rec.ticks /\ new.ended = rec.ended /\ new.arn = rec.arn
  BY <1>2, <1>3 DEF CallType, Steps
<1> HIDE DEF new
<1>5. Shape(source.kind, new, steady)
  BY <1>0, <1>2, <1>4 DEF Shape, GetListShape
<1>6. CallFits(source, new, world, steady)
  BY <1>2, <1>4, <1>5, ComesToError DEF rec
<1> QED BY <1>1, <1>4, <1>6, ReadyKept, NothingStored

LEMMA GetListFetchOne ==
  ASSUME SourcesInv, source.kind = "GetListSource", NEW c \in Callers,
         GetList!FetchOne(c)
  PROVE  StepKeeps(c)
<1> DEFINE rec == call[c]
           new == [rec EXCEPT !.at = "tags", !.got = {Read(rec.r, 0)}]
<1>1. /\ rec.at = "get"
      /\ UNCHANGED <<world, steady, cache, ready>>
      /\ \/ rec.r \in world /\ Set(c, new)
         \/ \E e \in FailuresFor(rec, rec.r) : Set(c, GetList!Fails(rec, e))
  BY GetListNames DEF GetList!FetchOne
<1>2. /\ rec \in CallType /\ Begun(source, rec, world) /\ Shape(source.kind, rec, steady)
      /\ Around /\ rec.answer = NoAnswer
  BY <1>1, AtStep
<1>3. rec.r \in Resources /\ rec.op # "LIST"
  BY <1>1, <1>2 DEF Shape, GetListShape
<1>4. CASE rec.r \in world /\ Set(c, new)
  <2>1. /\ new \in CallType /\ new.at = "tags" /\ new.got = {Read(rec.r, 0)}
        /\ new.answer = NoAnswer
        /\ new.op = rec.op /\ new.r = rec.r /\ new.ignore = rec.ignore /\ new.ever = rec.ever
        /\ new.ticks = rec.ticks /\ new.arn = rec.arn
    <3> HIDE DEF rec
    <3> QED BY <1>2, <1>3, OneRead DEF CallType, Steps
  <2> HIDE DEF rec, new
  <2>2. Shape(source.kind, new, steady)
    BY <1>2, <1>3, <2>1 DEF Shape, GetListShape, Gathered
  <2>3. \A i \in new.got : i.age = 0 /\ i.of \in world
    BY <1>3, <1>4, <2>1, OneRead
  <2>4. CallFits(source, new, world, steady)
    BY <1>2, <2>1, <2>2, <2>3, GoesOn
  <2> QED BY <1>1, <1>4, <2>1, <2>4, ReadyKept, NothingStored
<1>5. ASSUME NEW e \in FailuresFor(rec, rec.r), Set(c, GetList!Fails(rec, e))
      PROVE  StepKeeps(c)
  <2>1. e \in ErrorType /\ ErrorFits(source, rec, e, steady)
    BY <1>2, <1>5, FailuresFit DEF ErrorFits
  <2> QED BY <1>1, <1>5, <2>1, GetListFails
<1> QED BY <1>1, <1>4, <1>5

LEMMA GetListFetchPage ==
  ASSUME SourcesInv, source.kind = "GetListSource", NEW c \in Callers,
         NEW page \in SUBSET call[c].left, GetList!FetchPage(c, page)
  PROVE  StepKeeps(c)
<1> DEFINE rec == call[c]
           more == {Read(r, 0) : r \in page \cap world}
           new == [rec EXCEPT !.got = @ \cup more, !.left = @ \ page]
<1>1. /\ rec.at = "list" /\ UNCHANGED <<world, steady, cache, ready>>
      /\ \/ Set(c, GetList!AfterPage(new))
         \/ \E e \in AnyFailure(rec) : Set(c, Done(rec, Error(e)))
  BY GetListNames DEF GetList!FetchPage
<1>2. /\ rec \in CallType /\ Begun(source, rec, world) /\ Shape(source.kind, rec, steady)
      /\ Around /\ rec.answer = NoAnswer
  BY <1>1, AtStep
<1>3. CASE Set(c, GetList!AfterPage(new))
  <2>1. GetListShape(rec, steady) /\ Gathered(rec, rec.got, rec.left, steady)
    BY <1>1, <1>2 DEF Shape, GetListShape
  <2>2. /\ new \in CallType /\ Begun(source, new, world)
        /\ new.at = "list" /\ new.op = rec.op /\ new.r = rec.r /\ new.arn = rec.arn
        /\ new.answer = NoAnswer
        /\ Gathered(new, new.got, new.left, steady)
    BY <1>1, <1>2, <2>1, PageAdds
  <2> HIDE DEF new, rec
  <2>3. CASE new.left # {}
    <3>1. Set(c, new)
      BY <1>3, <2>3 DEF GetList!AfterPage
    <3>2. Shape(source.kind, new, steady)
      BY <1>1, <2>1, <2>2, <2>3 DEF Shape, GetListShape
    <3>3. CallFits(source, new, world, steady)
      BY <2>2, <3>2 DEF CallFits, UnderWay
    <3> QED BY <1>1, <2>2, <3>1, <3>3, ReadyKept, NothingStored
  <2>4. CASE new.left = {} /\ (new.op = "SEARCH" \/ new.got = {})
    <3>1. Set(c, Done(new, Items(new.got)))
      BY <1>3, <2>4, GetListNames DEF GetList!AfterPage
    <3>2. Gathered(new, new.got, {}, steady)
      BY <2>2, <2>4
    <3> QED BY <1>1, <1>2, <2>2, <3>1, <3>2, AnswersGot, ReadyKept, NothingStored
  <2>5. CASE new.left = {} /\ ~(new.op = "SEARCH" \/ new.got = {})
    <3> DEFINE then == [new EXCEPT !.at = "items", !.left = {i.of : i \in new.got}]
    <3>1. Set(c, then)
      BY <1>3, <2>5, GetListNames DEF GetList!AfterPage
    <3>2. {i.of : i \in new.got} \in SUBSET Resources /\ new.op = "LIST"
      BY <1>1, <2>1, <2>2, <2>5, CallFields DEF ItemType, GetListShape
    <3>3. /\ then \in CallType /\ then.left = {i.of : i \in new.got}
          /\ then.at = "items" /\ then.got = new.got
          /\ then.op = new.op /\ then.r = new.r /\ then.arn = new.arn
          /\ then.answer = new.answer /\ then.ever = new.ever /\ then.ignore = new.ignore
          /\ then.ticks = new.ticks /\ then.failed = new.failed
      BY <2>2, <3>2 DEF CallType, Steps
    <3> HIDE DEF then
    <3>4. Gathered(then, then.got, {}, steady)
      BY <2>2, <2>5, <3>3 DEF Gathered
    <3>5. Shape(source.kind, then, steady)
      BY <2>1, <2>2, <2>5, <3>2, <3>3, <3>4 DEF Shape, GetListShape
    <3>6. CallFits(source, then, world, steady)
      BY <2>2, <3>3, <3>5, GoesOn
    <3> QED BY <1>1, <3>1, <3>3, <3>6, ReadyKept, NothingStored
  <2> QED BY <2>3, <2>4, <2>5
<1>4. ASSUME NEW e \in AnyFailure(rec), Set(c, Done(rec, Error(e)))
      PROVE  StepKeeps(c)
  <2>1. e \in ErrorType /\ ErrorFits(source, rec, e, steady)
    BY <1>2, <1>4, FailuresFit DEF ErrorFits
  <2> QED BY <1>1, <1>2, <1>4, <2>1, ErrorAnswerFits, DoneFits, ReadyKept, NothingStored
<1> QED BY <1>1, <1>3, <1>4

LEMMA GetListStoreOne ==
  ASSUME SourcesInv, source.kind = "GetListSource", NEW c \in Callers,
         GetList!StoreOne(c)
  PROVE  StepKeeps(c)
<1> DEFINE rec == call[c]
<1>1. /\ rec.at = "tags" /\ UNCHANGED <<world, steady, ready>>
      /\ Set(c, Done(rec, Items(rec.got)))
  BY GetListNames DEF GetList!StoreOne
<1>2. PICK item \in rec.got : cache' = WithItem(cache, item, source.CacheDuration)
  BY GetListNames DEF GetList!StoreOne
<1>3. /\ rec \in CallType /\ Begun(source, rec, world) /\ Shape(source.kind, rec, steady)
      /\ Around /\ CacheFits(source, cache, steady)
  BY <1>1, AtStep
<1>4. CacheFits(source, cache', steady)
  BY <1>2, <1>3, GotIsYoung, HowLong, WithItemFits DEF Around
<1>5. Gathered(rec, rec.got, {}, steady)
  BY <1>1, <1>3 DEF Shape, GetListShape, Gathered
<1> HIDE DEF rec
<1> QED BY <1>1, <1>3, <1>4, <1>5, AnswersGot, SomethingStored

LEMMA GetListStoreNext ==
  ASSUME SourcesInv, source.kind = "GetListSource", NEW c \in Callers,
         NEW item \in call[c].got, GetList!StoreNext(c, item)
  PROVE  StepKeeps(c)
<1> DEFINE rec == call[c]
           rest == rec.left \ {item.of}
           new == [rec EXCEPT !.left = rest]
<1>1. /\ rec.at = "items" /\ UNCHANGED <<world, steady, ready>>
      /\ \/ Set(c, Done(rec, Items(rec.got)))
         \/ rest # {} /\ Set(c, new)
  BY GetListNames DEF GetList!StoreNext
<1>2. /\ rec \in CallType /\ Begun(source, rec, world) /\ Shape(source.kind, rec, steady)
      /\ Around /\ CacheFits(source, cache, steady) /\ rec.answer = NoAnswer
  BY <1>1, AtStep
<1>3. cache' = WithListed(cache, item, cacheDuration)
  BY GetListNames DEF GetList!StoreNext
<1>4. CacheFits(source, cache', steady)
  BY <1>2, <1>3, GotIsYoung, HowLong, WithItemFits DEF Around
<1>5. Gathered(rec, rec.got, {}, steady)
  BY <1>1, <1>2 DEF Shape, GetListShape
<1>6. ASSUME rest # {}
      PROVE  new \in CallType /\ CallFits(source, new, world, steady)
  <2> HIDE DEF rec
  <2>1. /\ new \in CallType /\ new.left = rest /\ new.at = rec.at
        /\ new.got = rec.got /\ new.op = rec.op
        /\ new.r = rec.r /\ new.arn = rec.arn /\ new.answer = rec.answer
        /\ new.ever = rec.ever /\ new.ignore = rec.ignore /\ new.ticks = rec.ticks
        /\ new.failed = rec.failed
    BY <1>2 DEF CallType
  <2> HIDE DEF new
  <2>2. Shape(source.kind, new, steady)
    BY <1>1, <1>2, <1>5, <1>6, <2>1 DEF Shape, GetListShape, Gathered
  <2> QED BY <1>1, <1>2, <2>1, <2>2, GoesOn
<1> HIDE DEF rec, new, rest
<1> QED BY <1>1, <1>2, <1>4, <1>5, <1>6, AnswersGot, SomethingStored

LEMMA GetListTagsFail ==
  ASSUME SourcesInv, source.kind = "GetListSource", NEW c \in Callers, GetList!TagsFail(c)
  PROVE  StepKeeps(c)
<1> DEFINE rec == call[c]
<1>1. rec.at = "items" /\ UNCHANGED <<world, steady, ready>>
  BY DEF GetList!TagsFail
<1>2. PICK e \in AnyFailure(rec) :
        /\ cache' = WithError(cache, ListErrorKey(rec.r.scope), Unwrapped(e), source.CacheDuration)
        /\ Set(c, Done(rec, Error(e)))
  BY GetListNames DEF GetList!TagsFail, WithRawError
<1>3. /\ rec \in CallType /\ Begun(source, rec, world) /\ Shape(source.kind, rec, steady)
      /\ Around /\ CacheFits(source, cache, steady)
  BY <1>1, AtStep
<1>4. e \in ErrorType /\ ErrorFits(source, rec, e, steady)
  BY <1>3, FailuresFit DEF ErrorFits
<1>5. rec.r.scope \in OwnScopes
  BY <1>1, <1>3, ScopeOfList DEF Shape, GetListShape
<1> HIDE DEF rec
<1>6. Unwrapped(e) \in ErrorType /\ KindKept(source, Unwrapped(e))
  BY <1>4, AnswerTypes DEF KindKept
<1>7. CacheFits(source, cache', steady)
  BY <1>2, <1>3, <1>5, <1>6, HowLong, WithErrorFits DEF Around
<1>8. Done(rec, Error(e)) \in CallType /\ CallFits(source, Done(rec, Error(e)), world, steady)
  BY <1>3, <1>4, ErrorAnswerFits, DoneFits
<1> QED BY <1>1, <1>2, <1>7, <1>8, SomethingStored

LEMMA GetListStoreFailure ==
  ASSUME SourcesInv, source.kind = "GetListSource", NEW c \in Callers,
         GetList!StoreFailure(c)
  PROVE  StepKeeps(c)
<1> DEFINE rec == call[c]
           error == rec.answer.error
<1>1. /\ rec.at = "error" /\ UNCHANGED <<world, steady, ready>>
      /\ Set(c, Done(rec, rec.answer))
      /\ cache' = WithError(cache, GetErrorKey(rec.r), Unwrapped(error), cacheDuration)
  BY GetListNames DEF GetList!StoreFailure, WithRawError
<1>2. /\ rec \in CallType /\ UnderWay(source, rec, world, steady)
      /\ Shape(source.kind, rec, steady) /\ Around /\ CacheFits(source, cache, steady)
  BY <1>1, AtStep
<1> HIDE DEF rec
<1>3. error \in ErrorType
  BY <1>2, CallFields DEF AnswerType
<1>4. /\ Unwrapped(error) \in ErrorType /\ KindKept(source, Unwrapped(error))
      /\ Truthful(Unwrapped(error), rec.r, steady)
  <2>1. /\ Unwrapped(error) \in ErrorType
        /\ Unwrapped(error).sees = "OTHER" /\ Unwrapped(error).wraps = error.wraps
    BY <1>3, AnswerTypes
  <2> QED BY <2>1 DEF KindKept, Truthful
<1>5. rec.r \in Resources
  BY <1>1, <1>2 DEF Shape, GetListShape
<1>6. CacheFits(source, cache', steady)
  BY <1>1, <1>2, <1>4, <1>5, HowLong, WithErrorFits DEF Around
<1> QED BY <1>1, <1>2, <1>6, AnswersError, SomethingStored

LEMMA GetListStepKeeps ==
  ASSUME SourcesInv, source.kind = "GetListSource", NEW c \in Callers, GetList!Step(c)
  PROVE  StepKeeps(c)
<1>1. CASE \E m \in Methods, s \in OwnScopes, ignore \in BOOLEAN : GetList!Begin(c, m, s, ignore)
  BY <1>1, GetListBegins
<1>2. CASE \E page \in (SUBSET call[c].left) \ {{}} : GetList!FetchPage(c, page)
  BY <1>2, GetListFetchPage
<1>3. CASE \E item \in call[c].got : GetList!StoreNext(c, item)
  BY <1>3, GetListStoreNext
<1> QED BY <1>1, <1>2, <1>3, GetListFetchOne, GetListStoreOne, GetListTagsFail,
          GetListStoreFailure
        DEF GetList!Step

-----------------------------------------------------------------------------
(* AlwaysGetSource.                                                        *)

LEMMA AlwaysGetNames ==
  /\ AlwaysGet!Environment <=> Environment
  /\ \A c, rec : AlwaysGet!Set(c, rec) <=> Set(c, rec)
  /\ \A rec, answer : AlwaysGet!Done(rec, answer) = Done(rec, answer)
  /\ \A r : AlwaysGet!GetCached(r) = GetCached(r)
  /\ \A s : AlwaysGet!ListCached(s) = ListCached(s)
  /\ \A s : AlwaysGet!In(s) = In(s)
  /\ \A op, r, ignore : AlwaysGet!NewCall(op, r, ignore) = NewCall(op, r, ignore)
  /\ \A s : AlwaysGet!Whole(s) = Whole(s)
  /\ AlwaysGet!Nothing = Nothing
  /\ \A items : AlwaysGet!Items(items) = Items(items)
  /\ \A error : AlwaysGet!Error(error) = Error(error)
  /\ \A kind, cause : AlwaysGet!Failure(kind, cause) = Failure(kind, cause)
  /\ \A r, age : AlwaysGet!Read(r, age) = Read(r, age)
  /\ \A rec, r : AlwaysGet!FailuresFor(rec, r) = FailuresFor(rec, r)
  /\ \A rec : AlwaysGet!AnyFailure(rec) = AnyFailure(rec)
  /\ \A entries, item, duration :
       AlwaysGet!WithItem(entries, item, duration)
       = WithItem(entries, item, duration)
  /\ \A entries, item, duration :
       AlwaysGet!WithListed(entries, item, duration)
       = WithListed(entries, item, duration)
  /\ \A entries, key, error, duration :
       AlwaysGet!WithError(entries, key, error, duration)
       = WithError(entries, key, error, duration)
  /\ \A r : AlwaysGet!GetErrorKey(r) = GetErrorKey(r)
  /\ \A s : AlwaysGet!ListErrorKey(s) = ListErrorKey(s)
  /\ AlwaysGet!cacheDuration = cacheDuration
  /\ AlwaysGet!Resources = Resources
  /\ AlwaysGet!CacheTypeOK <=> CacheTypeOK
  /\ \A rec, r : AlwaysGet!GetHit(r, ~AlwaysGet!UsesCache(rec)) <=> GetHit(r, ~(~rec.ignore))
  /\ \A rec, s : AlwaysGet!ListHit(s, ~AlwaysGet!UsesCache(rec)) <=> ListHit(s, ~(~rec.ignore))
BY Zenon DEF AlwaysGet!UsesCache, AlwaysGet!Environment, Environment,
   AlwaysGet!Set, Set, AlwaysGet!Done, Done, AlwaysGet!GetCached, GetCached,
   AlwaysGet!ListCached, ListCached, AlwaysGet!In, In, AlwaysGet!NewCall,
   NewCall, AlwaysGet!Whole, Whole, AlwaysGet!Nothing, Nothing,
   AlwaysGet!Items, Items, AlwaysGet!Error, Error, AlwaysGet!Failure, Failure,
   AlwaysGet!Read, Read, AlwaysGet!Part, Part, AlwaysGet!FailuresFor,
   FailuresFor, AlwaysGet!AnyFailure, AnyFailure, AlwaysGet!Unwrapped,
   Unwrapped, AlwaysGet!WithItem, WithItem, AlwaysGet!WithListed, WithListed,
   AlwaysGet!WithError, WithError, AlwaysGet!WithRawError, WithRawError,
   AlwaysGet!GetErrorKey, GetErrorKey, AlwaysGet!ListErrorKey, ListErrorKey,
   AlwaysGet!cacheDuration, cacheDuration, AlwaysGet!Resources, Resources,
   AlwaysGet!NoAnswer, NoAnswer, AlwaysGet!CacheTypeOK, CacheTypeOK,
   AlwaysGet!Failures, Failures, AlwaysGet!AnyErrors, AnyErrors,
   AlwaysGet!Errors, Errors, AlwaysGet!Put, Put, AlwaysGet!ItemEntry,
   ItemEntry, AlwaysGet!ErrorEntry, ErrorEntry, AlwaysGet!ItemKey, ItemKey,
   AlwaysGet!ListedKey, ListedKey, AlwaysGet!Key, Key, AlwaysGet!Holds, Holds,
   AlwaysGet!At, At, AlwaysGet!ListedIn, ListedIn, AlwaysGet!Idle, Idle,
   AlwaysGet!NoError, NoError, AlwaysGet!Change, Change, AlwaysGet!Tick, Tick,
   AlwaysGet!EndContext, EndContext, AlwaysGet!Return, Return,
   AlwaysGet!AgeAfter, AgeAfter, AlwaysGet!Older, Older, AlwaysGet!GetHit,
   GetHit, AlwaysGet!ListHit, ListHit

LEMMA AlwaysGetGet ==
  ASSUME SourcesInv, source.kind = "AlwaysGetSource", NEW c \in Callers,
         NEW rec, New(rec), rec.r \in Resources, rec.op # "LIST",
         AlwaysGet!Get(c, rec)
  PROVE  StepKeeps(c)
<1> DEFINE new == [rec EXCEPT !.at = "get", !.left = {rec.r}]
<1>1. /\ UNCHANGED <<world, steady, cache>> /\ ready' \in BOOLEAN
      /\ \/ GetHit(rec.r, ~(~rec.ignore)) /\ Set(c, AlwaysGet!Found(rec, GetCached(rec.r)))
         \/ Set(c, new)
  BY AlwaysGetNames DEF AlwaysGet!Get
<1>2. new \in CallType /\ CallFits(source, new, world, steady)
  <2>1. Asks(new, rec, "get", {rec.r})
    BY DEF Asks, New, CallType, Steps
  <2> HIDE DEF new
  <2>2. Shape(source.kind, new, steady)
    BY <2>1 DEF Asks, Shape, AlwaysGetShape, Gathered
  <2> QED BY <2>1, <2>2, NewAsks
<1> HIDE DEF new
<1>3. CASE GetHit(rec.r, ~(~rec.ignore)) /\ Set(c, AlwaysGet!Found(rec, GetCached(rec.r)))
  <2> DEFINE answer == GetCached(rec.r)
             then == [rec EXCEPT !.at = "again", !.left = {rec.r}, !.got = answer.items]
  <2>1. \/ Set(c, Done(rec, answer))
        \/ Set(c, then) /\ rec.op = "SEARCH"
    BY <1>3, AlwaysGetNames DEF AlwaysGet!Found
  <2>2. rec \in CallType
    BY DEF New
  <2>3. GetHit(rec.r, rec.ignore) /\ rec.ignore \in BOOLEAN
    BY <1>3, <2>2, CallFields DEF GetHit
  <2>4. answer \in AnswerType /\ ~rec.ignore
    BY <2>3, GetCachedFits
  <2>5. /\ then \in CallType /\ then.at = "again" /\ then.left = {rec.r}
        /\ then.got = answer.items
        /\ then.op = rec.op /\ then.r = rec.r /\ then.arn = rec.arn /\ then.ignore = rec.ignore
        /\ then.ticks = rec.ticks /\ then.answer = NoAnswer
    <3> HIDE DEF answer
    <3> QED BY <2>4 DEF New, CallType, Steps, AnswerType
  <2> HIDE DEF answer, then
  <2>6. ASSUME rec.op = "SEARCH"
        PROVE  CallFits(source, then, world, steady)
    <3>1. Begun(source, then, world)
      BY <2>4, <2>5, <2>6 DEF New, Begun, StoresOnce
    <3>2. Shape(source.kind, then, steady)
      BY <2>5, <2>6 DEF Shape, AlwaysGetShape
    <3> QED BY <2>5, <3>1, <3>2 DEF CallFits, UnderWay
  <2> QED BY <1>1, <1>3, <2>1, <2>2, <2>5, <2>6, HitFits, NothingStored DEF answer
<1>4. CASE Set(c, new)
  BY <1>1, <1>2, <1>4, NothingStored
<1> QED BY <1>1, <1>3, <1>4

LEMMA AlwaysGetList ==
  ASSUME SourcesInv, source.kind = "AlwaysGetSource", NEW c \in Callers,
         NEW rec, New(rec), NEW s \in OwnScopes, rec.r = Whole(s), rec.op = "LIST",
         rec.arn = Nothing, AlwaysGet!List(c, rec)
  PROVE  StepKeeps(c)
<1> DEFINE new == [rec EXCEPT !.at = "list", !.left = In(s)]
<1>1. /\ UNCHANGED <<world, steady, cache>> /\ ready' \in BOOLEAN
      /\ \/ ListHit(s, ~(~rec.ignore)) /\ Set(c, Done(rec, ListCached(s)))
         \/ Set(c, new)
  <2>1. rec.r.scope = s
    BY DEF Whole
  <2> QED BY <2>1, AlwaysGetNames DEF AlwaysGet!List
<1>2. new \in CallType /\ CallFits(source, new, world, steady)
  <2>1. Asks(new, rec, "list", In(s))
    BY SomeName DEF Asks, New, CallType, Steps
  <2> HIDE DEF new
  <2>2. Gathered(new, new.got, new.left, steady)
    BY <2>1, AllToCome DEF Asks
  <2>3. Shape(source.kind, new, steady)
    BY <2>1, <2>2, SomeName DEF Asks, Shape, AlwaysGetShape
  <2> QED BY <2>1, <2>3, NewAsks
<1> HIDE DEF new
<1>3. rec \in CallType
  BY DEF New
<1> QED BY <1>1, <1>2, <1>3, HitFits, NothingStored

LEMMA AlwaysGetSearches ==
  ASSUME SourcesInv, source.kind = "AlwaysGetSource", NEW c \in Callers,
         NEW how, NEW s \in OwnScopes, NEW ignore \in BOOLEAN,
         AlwaysGet!Search(c, how, s, ignore)
  PROVE  StepKeeps(c)
<1>1. CASE \E r \in In(s) : AlwaysGet!SearchARN(c, NewCall("SEARCH", r, ignore))
  <2>1. PICK r \in Resources : AlwaysGet!SearchARN(c, NewCall("SEARCH", r, ignore))
    BY <1>1 DEF In
  <2> DEFINE rec == NewCall("SEARCH", r, ignore)
             new == [rec EXCEPT !.arn = rec.r]
  <2>2. New(rec) /\ rec.r = r /\ rec.op = "SEARCH" /\ r \in Place
    BY NewCallIsNew, NoResource
  <2>3. AlwaysGet!Get(c, new)
    BY <2>1 DEF AlwaysGet!SearchARN
  <2> HIDE DEF rec
  <2>4. New(new) /\ new.r = r /\ new.op = "SEARCH"
    BY <2>2, NewSearch
  <2> HIDE DEF new
  <2> QED BY <2>3, <2>4, AlwaysGetGet
<1>2. CASE \E found \in (SUBSET In(s)) \ {{}} :
             AlwaysGet!SearchList(c, NewCall("SEARCH", Whole(s), ignore), found)
  <2>1. PICK found \in (SUBSET In(s)) \ {{}} :
               AlwaysGet!SearchList(c, NewCall("SEARCH", Whole(s), ignore), found)
    BY <1>2
  <2> DEFINE rec == NewCall("SEARCH", Whole(s), ignore)
             new == [rec EXCEPT !.at = "list", !.left = found]
  <2>2. Set(c, new) /\ UNCHANGED <<world, steady, cache, ready>>
    BY <2>1, AlwaysGetNames DEF AlwaysGet!SearchList
  <2>3. New(rec) /\ rec.op = "SEARCH" /\ rec.arn = Nothing
    BY NewCallIsNew
  <2>4. found \in SUBSET Resources /\ found # {}
    BY SomeName
  <2> HIDE DEF rec
  <2>5. Asks(new, rec, "list", found)
    BY <2>3, <2>4 DEF Asks, New, CallType, Steps
  <2> HIDE DEF new
  <2>6. new \in CallType /\ CallFits(source, new, world, steady)
    <3>1. Shape(source.kind, new, steady)
      BY <2>3, <2>4, <2>5 DEF Asks, Shape, AlwaysGetShape, Gathered
    <3> QED BY <2>3, <2>5, <3>1, NewAsks
  <2> QED BY <2>2, <2>6, ReadyKept, NothingStored
<1>3. CASE \E r \in In(s) : AlwaysGet!SearchGet(c, NewCall("SEARCH", r, ignore))
  <2>1. PICK r \in Resources : AlwaysGet!SearchGet(c, NewCall("SEARCH", r, ignore))
    BY <1>3 DEF In
  <2> DEFINE rec == NewCall("SEARCH", r, ignore)
             new == [rec EXCEPT !.at = "get", !.left = {rec.r}]
  <2>2. Set(c, new) /\ UNCHANGED <<world, steady, cache, ready>>
    BY <2>1, AlwaysGetNames DEF AlwaysGet!SearchGet
  <2>3. New(rec) /\ rec.r = r /\ rec.op = "SEARCH" /\ rec.arn = Nothing
    BY NewCallIsNew
  <2> HIDE DEF rec
  <2>4. Asks(new, rec, "get", {rec.r})
    BY <2>3 DEF Asks, New, CallType, Steps
  <2> HIDE DEF new
  <2>5. new \in CallType /\ CallFits(source, new, world, steady)
    <3>1. Shape(source.kind, new, steady)
      BY <2>3, <2>4 DEF Asks, Shape, AlwaysGetShape
    <3> QED BY <2>3, <2>4, <3>1, NewAsks
  <2> QED BY <2>2, <2>5, ReadyKept, NothingStored
<1> QED BY <1>1, <1>2, <1>3, AlwaysGetNames DEF AlwaysGet!Search

LEMMA AlwaysGetBegins ==
  ASSUME SourcesInv, source.kind = "AlwaysGetSource", NEW c \in Callers,
         NEW m \in Methods, NEW s \in OwnScopes, NEW ignore \in BOOLEAN,
         AlwaysGet!Begin(c, m, s, ignore)
  PROVE  StepKeeps(c)
<1>1. CASE \E r \in In(s) : AlwaysGet!Get(c, NewCall("GET", r, ignore))
  <2>1. PICK r \in Resources : AlwaysGet!Get(c, NewCall("GET", r, ignore))
    BY <1>1 DEF In
  <2>2. /\ New(NewCall("GET", r, ignore)) /\ NewCall("GET", r, ignore).r = r
        /\ NewCall("GET", r, ignore).op = "GET" /\ NewCall("GET", r, ignore).arn = Nothing
    BY NewCallIsNew
  <2> QED BY <2>1, <2>2, AlwaysGetGet
<1>2. CASE AlwaysGet!List(c, NewCall("LIST", Whole(s), ignore))
  <2> DEFINE rec == NewCall("LIST", Whole(s), ignore)
  <2>1. New(rec) /\ rec.r = Whole(s) /\ rec.op = "LIST" /\ rec.arn = Nothing
    BY NewCallIsNew
  <2> HIDE DEF rec
  <2> QED BY <1>2, <2>1, AlwaysGetList DEF rec
<1>3. CASE \E how \in Searches : AlwaysGet!Search(c, how, s, ignore)
  BY <1>3, AlwaysGetSearches
<1>4. CASE AlwaysGet!Refuse(c, NewCall(m, Whole(s), ignore))
  <2>1. /\ UNCHANGED <<world, steady, cache, ready>>
        /\ \E e \in {"NOSCOPE", "OTHER"} :
             Set(c, Done(NewCall(m, Whole(s), ignore), Error(Failure(e, "other"))))
    BY <1>4, AlwaysGetNames DEF AlwaysGet!Refuse
  <2> QED BY <2>1, RefusalFits, ReadyKept, NothingStored
<1> QED BY <1>1, <1>2, <1>3, <1>4, AlwaysGetNames DEF AlwaysGet!Begin

LEMMA AlwaysGetFails ==
  ASSUME SourcesInv, source.kind = "AlwaysGetSource", NEW c \in Callers,
         call[c].at \in {"get", "list"}, NEW e \in ErrorType, ErrorFits(source, call[c], e, steady),
         Set(c, AlwaysGet!Failed(call[c], e)), UNCHANGED <<world, steady, cache, ready>>
  PROVE  StepKeeps(c)
<1> DEFINE rec == call[c]
           new == [rec EXCEPT !.at = "error", !.got = {}, !.answer = Error(e)]
<1>1. Set(c, new)
  BY AlwaysGetNames DEF AlwaysGet!Failed
<1>2. /\ rec \in CallType /\ Begun(source, rec, world) /\ Shape(source.kind, rec, steady)
  BY AtStep
<1> HIDE DEF rec
<1>3. Error(e) \in AnswerType
  BY AnswerTypes
<1>4. /\ new \in CallType /\ new.at = "error" /\ new.answer = Error(e) /\ new.got = {}
      /\ new.op = rec.op /\ new.r = rec.r /\ new.ignore = rec.ignore /\ new.ever = rec.ever
      /\ new.ticks = rec.ticks /\ new.ended = rec.ended /\ new.arn = rec.arn
  BY <1>2, <1>3 DEF CallType, Steps
<1> HIDE DEF new
<1>5. Shape(source.kind, new, steady)
  BY <1>2, <1>4 DEF Shape, AlwaysGetShape
<1>6. CallFits(source, new, world, steady)
  BY <1>2, <1>4, <1>5, ComesToError DEF rec
<1> QED BY <1>1, <1>4, <1>6, ReadyKept, NothingStored

LEMMA AlwaysGetFetchOne ==
  ASSUME SourcesInv, source.kind = "AlwaysGetSource", NEW c \in Callers,
         AlwaysGet!FetchOne(c)
  PROVE  StepKeeps(c)
<1> DEFINE rec == call[c]
           new == [rec EXCEPT !.at = "store", !.got = {Read(rec.r, 0)}]
<1>1. /\ rec.at = "get"
      /\ UNCHANGED <<world, steady, cache, ready>>
      /\ \/ rec.r \in world /\ Set(c, new)
         \/ \E e \in FailuresFor(rec, rec.r) : Set(c, AlwaysGet!Failed(rec, e))
  BY AlwaysGetNames DEF AlwaysGet!FetchOne
<1>2. /\ rec \in CallType /\ Begun(source, rec, world) /\ Shape(source.kind, rec, steady)
      /\ Around /\ rec.answer = NoAnswer
  BY <1>1, AtStep
<1>3. rec.r \in Resources /\ rec.op # "LIST" /\ rec.left # {}
  BY <1>1, <1>2 DEF Shape, AlwaysGetShape
<1>4. CASE rec.r \in world /\ Set(c, new)
  <2>1. /\ new \in CallType /\ new.at = "store" /\ new.got = {Read(rec.r, 0)}
        /\ new.answer = NoAnswer
        /\ new.op = rec.op /\ new.r = rec.r /\ new.ignore = rec.ignore /\ new.ever = rec.ever
        /\ new.ticks = rec.ticks /\ new.arn = rec.arn /\ new.left = rec.left
    <3> HIDE DEF rec
    <3> QED BY <1>2, <1>3, OneRead DEF CallType, Steps
  <2> HIDE DEF rec, new
  <2>2. Shape(source.kind, new, steady)
    BY <1>2, <1>3, <2>1 DEF Shape, AlwaysGetShape, Gathered
  <2>3. \A i \in new.got : i.age = 0 /\ i.of \in world
    BY <1>3, <1>4, <2>1, OneRead
  <2>4. CallFits(source, new, world, steady)
    BY <1>2, <2>1, <2>2, <2>3, GoesOn
  <2> QED BY <1>1, <1>4, <2>1, <2>4, ReadyKept, NothingStored
<1>5. ASSUME NEW e \in FailuresFor(rec, rec.r), Set(c, AlwaysGet!Failed(rec, e))
      PROVE  StepKeeps(c)
  <2>1. e \in ErrorType /\ ErrorFits(source, rec, e, steady)
    BY <1>2, <1>5, FailuresFit DEF ErrorFits
  <2> QED BY <1>1, <1>5, <2>1, AlwaysGetFails
<1> QED BY <1>1, <1>4, <1>5

(* After a name: the next one, the answer that there are none, or storing. *)
LEMMA AlwaysGetAfterInput ==
  ASSUME SourcesInv, source.kind = "AlwaysGetSource", NEW c \in Callers,
         NEW new \in CallType, Begun(source, new, world), new.at = "list",
         new.answer = NoAnswer, AlwaysGetShape(call[c], steady),
         new.arn = call[c].arn, new.r = call[c].r,
         Gathered(new, new.got, new.left, steady),
         Set(c, AlwaysGet!AfterInput(new)), UNCHANGED <<world, steady, cache, ready>>
  PROVE  StepKeeps(c)
<1>0. Around /\ (new.arn # Nothing => new.r \in Resources)
  BY DEF SourcesInv, AlwaysGetShape
<1>1. CASE new.left # {}
  <2>1. Set(c, new)
    BY <1>1 DEF AlwaysGet!AfterInput
  <2>2. Shape(source.kind, new, steady)
    BY <1>1 DEF Shape, AlwaysGetShape
  <2>3. CallFits(source, new, world, steady)
    BY <2>2 DEF CallFits, UnderWay
  <2> QED BY <2>1, <2>3, ReadyKept, NothingStored
<1>2. CASE new.left = {} /\ new.got = {}
  <2>1. Set(c, Done(new, Items(new.got)))
    BY <1>2, AlwaysGetNames DEF AlwaysGet!AfterInput
  <2>2. Gathered(new, new.got, {}, steady)
    BY <1>2
  <2> QED BY <1>0, <2>1, <2>2, AnswersGot, ReadyKept, NothingStored
<1>3. CASE new.left = {} /\ new.got # {}
  <2> DEFINE then == [new EXCEPT !.at = "store", !.left = {i.of : i \in new.got}]
  <2>1. Set(c, then)
    BY <1>3, AlwaysGetNames DEF AlwaysGet!AfterInput
  <2>2. {i.of : i \in new.got} \in SUBSET Resources /\ {i.of : i \in new.got} # {}
    BY <1>3, CallFields DEF ItemType
  <2>3. /\ then \in CallType /\ then.at = "store" /\ then.got = new.got /\ then.left # {}
        /\ then.op = new.op /\ then.r = new.r /\ then.arn = new.arn
        /\ then.answer = new.answer /\ then.ever = new.ever /\ then.ignore = new.ignore
        /\ then.ticks = new.ticks /\ then.failed = new.failed
    BY <2>2 DEF CallType, Steps
  <2> HIDE DEF then
  <2>4. Gathered(then, then.got, {}, steady)
    BY <1>3, <2>3 DEF Gathered
  <2>5. Shape(source.kind, then, steady)
    BY <1>0, <1>3, <2>3, <2>4 DEF Shape, AlwaysGetShape
  <2>6. CallFits(source, then, world, steady)
    BY <2>3, <2>5, GoesOn
  <2> QED BY <2>1, <2>3, <2>6, ReadyKept, NothingStored
<1> QED BY <1>1, <1>2, <1>3

LEMMA AlwaysGetFetchInput ==
  ASSUME SourcesInv, source.kind = "AlwaysGetSource", NEW c \in Callers,
         NEW r \in call[c].left, AlwaysGet!FetchInput(c, r)
  PROVE  StepKeeps(c)
<1> DEFINE rec == call[c]
           rest == [rec EXCEPT !.left = @ \ {r}]
           got == [rest EXCEPT !.got = @ \cup {Read(r, 0)}]
           lost == [rest EXCEPT !.failed = TRUE]
<1>1. /\ rec.at = "list" /\ UNCHANGED <<world, steady, cache, ready>>
      /\ \/ r \in world /\ Set(c, AlwaysGet!AfterInput(got))
         \/ r \notin world /\ Set(c, AlwaysGet!AfterInput(rest))
         \/ Set(c, AlwaysGet!AfterInput(lost))
         \/ \E e \in AnyFailure(rec) : Set(c, AlwaysGet!Failed(rec, e))
  BY AlwaysGetNames DEF AlwaysGet!FetchInput
<1>2. /\ rec \in CallType /\ Begun(source, rec, world) /\ Shape(source.kind, rec, steady)
      /\ Around /\ rec.answer = NoAnswer
  BY <1>1, AtStep
<1>3. /\ AlwaysGetShape(rec, steady) /\ Gathered(rec, rec.got, rec.left, steady)
      /\ r \in Resources
  BY <1>1, <1>2, CallFields DEF Shape, AlwaysGetShape
<1>4. CASE r \in world /\ Set(c, AlwaysGet!AfterInput(got))
  <2>1. /\ got \in CallType /\ got.at = rec.at /\ got.op = rec.op /\ got.r = rec.r
        /\ got.arn = rec.arn /\ got.answer = rec.answer /\ got.ignore = rec.ignore
        /\ got.ever = rec.ever /\ got.ticks = rec.ticks /\ got.failed = rec.failed
        /\ got.left = rec.left \ {r} /\ got.got = rec.got \cup {Read(r, 0)}
    <3> HIDE DEF rec
    <3> QED BY <1>2, <1>3, OneRead DEF CallType
  <2> HIDE DEF got, rest
  <2>2. Begun(source, got, world)
    <3> HIDE DEF rec
    <3>1. Read(r, 0).age = 0 /\ Read(r, 0).of = r
      BY <1>3, OneRead
    <3>2. \A i \in got.got : i \in rec.got \/ (i.age = 0 /\ i.of \in world)
      BY <1>4, <2>1, <3>1
    <3> QED BY <1>2, <2>1, <3>2, BegunStays
  <2>3. Of(got.got) = Of(rec.got) \cup {r}
    BY <1>3, <2>1, OneRead DEF Of
  <2>4. Gathered(got, got.got, got.left, steady)
    BY <1>3, <2>1, <2>3, OneRead DEF Gathered
  <2> QED BY <1>1, <1>2, <1>3, <1>4, <2>1, <2>2, <2>4, AlwaysGetAfterInput
<1>5. CASE r \notin world /\ Set(c, AlwaysGet!AfterInput(rest))
  <2>1. /\ rest \in CallType /\ rest.at = rec.at /\ rest.op = rec.op /\ rest.r = rec.r
        /\ rest.arn = rec.arn /\ rest.answer = rec.answer /\ rest.ignore = rec.ignore
        /\ rest.ever = rec.ever /\ rest.ticks = rec.ticks /\ rest.failed = rec.failed
        /\ rest.left = rec.left \ {r} /\ rest.got = rec.got
    <3> HIDE DEF rec
    <3> QED BY <1>2 DEF CallType
  <2> HIDE DEF rest
  <2>2. Begun(source, rest, world)
    BY <1>2, <2>1, BegunStays
  <2>3. Gathered(rest, rest.got, rest.left, steady)
    BY <1>2, <1>3, <1>5, <2>1 DEF Gathered, Around
  <2> QED BY <1>1, <1>2, <1>3, <1>5, <2>1, <2>2, <2>3, AlwaysGetAfterInput
<1>6. CASE Set(c, AlwaysGet!AfterInput(lost))
  <2>1. /\ lost \in CallType /\ lost.at = rec.at /\ lost.op = rec.op /\ lost.r = rec.r
        /\ lost.arn = rec.arn /\ lost.answer = rec.answer /\ lost.ignore = rec.ignore
        /\ lost.ever = rec.ever /\ lost.ticks = rec.ticks /\ lost.failed
        /\ lost.left = rec.left \ {r} /\ lost.got = rec.got
    <3> HIDE DEF rec
    <3> QED BY <1>2 DEF CallType
  <2> HIDE DEF lost, rest
  <2>2. Begun(source, lost, world)
    BY <1>2, <2>1, BegunStays
  <2>3. Gathered(lost, lost.got, lost.left, steady)
    BY <2>1 DEF Gathered
  <2> QED BY <1>1, <1>2, <1>3, <1>6, <2>1, <2>2, <2>3, AlwaysGetAfterInput
<1>7. ASSUME NEW e \in AnyFailure(rec), Set(c, AlwaysGet!Failed(rec, e))
      PROVE  StepKeeps(c)
  <2>1. e \in ErrorType /\ ErrorFits(source, rec, e, steady)
    BY <1>2, <1>7, FailuresFit DEF ErrorFits
  <2> QED BY <1>1, <1>7, <2>1, AlwaysGetFails
<1> QED BY <1>1, <1>4, <1>5, <1>6, <1>7

LEMMA AlwaysGetStores ==
  ASSUME SourcesInv, source.kind = "AlwaysGetSource", NEW c \in Callers,
         call[c].at \in {"store", "again"}, NEW item \in call[c].got, NEW op,
         cache' = AlwaysGet!Stored(op, item)
  PROVE  CacheFits(source, cache', steady)
<1>1. \/ cache' = WithListed(cache, item, cacheDuration)
      \/ cache' = WithItem(cache, item, cacheDuration)
      \/ cache' = cache
  <2>1. CASE op = "LIST"
    BY <2>1, AlwaysGetNames DEF AlwaysGet!Stored
  <2>2. CASE op # "LIST"
    BY <2>2, AlwaysGetNames DEF AlwaysGet!Stored
  <2> QED BY <2>1, <2>2
<1>2. /\ call[c] \in CallType /\ Begun(source, call[c], world)
      /\ Around /\ CacheFits(source, cache, steady)
  BY AtStep
<1> QED BY <1>1, <1>2, GotIsYoung, HowLong, WithItemFits DEF Around

(* The next item, and what comes after the last one.                       *)
LEMMA AlwaysGetAfterItem ==
  ASSUME SourcesInv, source.kind = "AlwaysGetSource", NEW c \in Callers,
         call[c].at \in {"store", "again"}, NEW item \in call[c].got
  PROVE  LET rec == call[c]
             rest == rec.left \ {item.of}
             new == [rec EXCEPT !.left = rest]
             then == [rec EXCEPT !.at = "again", !.left = {i.of : i \in rec.got}] IN
         /\ rest # {} => new \in CallType /\ CallFits(source, new, world, steady)
         /\ rec.op = "SEARCH" => then \in CallType /\ CallFits(source, then, world, steady)
         /\ Done(rec, Items(rec.got)) \in CallType
         /\ CallFits(source, Done(rec, Items(rec.got)), world, steady)
<1> DEFINE rec == call[c]
           rest == rec.left \ {item.of}
           new == [rec EXCEPT !.left = rest]
           all == {i.of : i \in rec.got}
           then == [rec EXCEPT !.at = "again", !.left = all]
<1>1. /\ rec \in CallType /\ Begun(source, rec, world) /\ Shape(source.kind, rec, steady)
      /\ Around /\ rec.answer = NoAnswer
  BY AtStep
<1>2. rec.at \in {"store", "again"} /\ item \in rec.got
  OBVIOUS
<1>3. all \in SUBSET Resources /\ all # {}
  BY <1>1, <1>2, CallFields DEF ItemType
<1> HIDE DEF rec
<1>4. /\ new \in CallType /\ new.at = rec.at /\ new.got = rec.got /\ new.op = rec.op
      /\ new.r = rec.r /\ new.arn = rec.arn /\ new.answer = rec.answer
      /\ new.ever = rec.ever /\ new.ignore = rec.ignore /\ new.ticks = rec.ticks
      /\ new.failed = rec.failed /\ new.left = rest
  BY <1>1 DEF CallType
<1> HIDE DEF all
<1>5. /\ then \in CallType /\ then.at = "again" /\ then.got = rec.got /\ then.op = rec.op
      /\ then.r = rec.r /\ then.arn = rec.arn /\ then.answer = rec.answer
      /\ then.ever = rec.ever /\ then.ignore = rec.ignore /\ then.ticks = rec.ticks
      /\ then.left = all
  BY <1>1, <1>3 DEF CallType, Steps
<1> HIDE DEF new, then, rest
<1>6. ASSUME rest # {}
      PROVE  CallFits(source, new, world, steady)
  <2>1. Shape(source.kind, new, steady)
    BY <1>1, <1>2, <1>4, <1>6 DEF Shape, AlwaysGetShape, Gathered
  <2> QED BY <1>1, <1>2, <1>4, <2>1, GoesOn
<1>7. ASSUME rec.op = "SEARCH"
      PROVE  CallFits(source, then, world, steady)
  <2>1. Shape(source.kind, then, steady)
    BY <1>1, <1>3, <1>5, <1>7 DEF Shape, AlwaysGetShape
  <2> QED BY <1>1, <1>5, <2>1, GoesOn
<1>8. Gathered(rec, rec.got, {}, steady)
  BY <1>1, <1>2 DEF Shape, AlwaysGetShape, Gathered
<1> QED BY <1>1, <1>4, <1>5, <1>6, <1>7, <1>8, AnswersGot DEF new, then, rest, all, rec

LEMMA AlwaysGetStoreNext ==
  ASSUME SourcesInv, source.kind = "AlwaysGetSource", NEW c \in Callers,
         NEW item \in call[c].got, AlwaysGet!StoreNext(c, item) \/ AlwaysGet!StoreAgain(c, item)
  PROVE  StepKeeps(c)
<1> DEFINE rec == call[c]
           rest == rec.left \ {item.of}
           new == [rec EXCEPT !.left = rest]
           then == [rec EXCEPT !.at = "again", !.left = {i.of : i \in rec.got}]
<1>1. /\ rec.at \in {"store", "again"} /\ UNCHANGED <<world, steady, ready>>
      /\ \E op : cache' = AlwaysGet!Stored(op, item)
      /\ \/ rest # {} /\ Set(c, new)
         \/ rec.op = "SEARCH" /\ Set(c, then)
         \/ Set(c, Done(rec, Items(rec.got)))
  BY AlwaysGetNames DEF AlwaysGet!StoreNext, AlwaysGet!StoreAgain
<1>2. CacheFits(source, cache', steady)
  BY <1>1, AlwaysGetStores
<1>3. /\ rest # {} => new \in CallType /\ CallFits(source, new, world, steady)
      /\ rec.op = "SEARCH" => then \in CallType /\ CallFits(source, then, world, steady)
      /\ Done(rec, Items(rec.got)) \in CallType
      /\ CallFits(source, Done(rec, Items(rec.got)), world, steady)
  BY <1>1, AlwaysGetAfterItem
<1> HIDE DEF rec, new, then, rest
<1> QED BY <1>1, <1>2, <1>3, SomethingStored

LEMMA AlwaysGetStoreFailure ==
  ASSUME SourcesInv, source.kind = "AlwaysGetSource", NEW c \in Callers,
         AlwaysGet!StoreFailure(c)
  PROVE  StepKeeps(c)
<1> DEFINE rec == call[c]
           error == rec.answer.error
<1>1. /\ rec.at = "error" /\ UNCHANGED <<world, steady, ready>>
      /\ Set(c, Done(rec, rec.answer))
      /\ \/ /\ AlwaysGet!FromGet(rec)
            /\ cache' = WithError(cache, GetErrorKey(rec.r), error, cacheDuration)
         \/ /\ rec.op = "LIST"
            /\ cache' = WithError(cache, ListErrorKey(rec.r.scope), error, cacheDuration)
         \/ cache' = cache
  BY AlwaysGetNames DEF AlwaysGet!StoreFailure
<1>2. /\ rec \in CallType /\ UnderWay(source, rec, world, steady)
      /\ Begun(source, rec, world) /\ Shape(source.kind, rec, steady)
      /\ Around /\ CacheFits(source, cache, steady)
  BY <1>1, AtStep
<1> HIDE DEF rec
<1>3. error \in ErrorType /\ KindKept(source, error) /\ Truthful(error, rec.r, steady)
  BY <1>1, <1>2, CallFields DEF UnderWay, ErrorFits, AnswerType
<1>4. CASE AlwaysGet!FromGet(rec)
           /\ cache' = WithError(cache, GetErrorKey(rec.r), error, cacheDuration)
  <2>1. rec.r \in Resources
    BY <1>2, <1>4, AlwaysGetNames DEF Shape, AlwaysGetShape, Begun, AlwaysGet!FromGet
  <2>2. CacheFits(source, cache', steady)
    BY <1>2, <1>3, <1>4, <2>1, HowLong, WithErrorFits DEF Around
  <2> QED BY <1>1, <1>2, <2>2, AnswersError, SomethingStored
<1>5. CASE rec.op = "LIST"
           /\ cache' = WithError(cache, ListErrorKey(rec.r.scope), error, cacheDuration)
  <2>1. rec.r.scope \in OwnScopes
    BY <1>2, <1>5, ScopeOfList
  <2>2. CacheFits(source, cache', steady)
    BY <1>2, <1>3, <1>5, <2>1, HowLong, WithErrorFits DEF Around
  <2> QED BY <1>1, <1>2, <2>2, AnswersError, SomethingStored
<1>6. CASE cache' = cache
  BY <1>1, <1>2, <1>6, AnswersError, SomethingStored
<1> QED BY <1>1, <1>4, <1>5, <1>6

LEMMA AlwaysGetStepKeeps ==
  ASSUME SourcesInv, source.kind = "AlwaysGetSource", NEW c \in Callers, AlwaysGet!Step(c)
  PROVE  StepKeeps(c)
<1>1. CASE \E m \in Methods, s \in OwnScopes, ignore \in BOOLEAN : AlwaysGet!Begin(c, m, s, ignore)
  BY <1>1, AlwaysGetBegins
<1>2. CASE \E r \in call[c].left : AlwaysGet!FetchInput(c, r)
  BY <1>2, AlwaysGetFetchInput
<1>3. CASE \E item \in call[c].got :
             AlwaysGet!StoreNext(c, item) \/ AlwaysGet!StoreAgain(c, item)
  BY <1>3, AlwaysGetStoreNext
<1> QED BY <1>1, <1>2, <1>3, AlwaysGetFetchOne, AlwaysGetStoreFailure DEF AlwaysGet!Step

-----------------------------------------------------------------------------
(* The S3 source. Its duration is the constant.                            *)

LEMMA S3Names ==
  /\ S3!Environment <=> Environment
  /\ \A c, rec : S3!Set(c, rec) <=> Set(c, rec)
  /\ \A rec, answer : S3!Done(rec, answer) = Done(rec, answer)
  /\ \A r : S3!GetCached(r) = GetCached(r)
  /\ \A s : S3!ListCached(s) = ListCached(s)
  /\ \A s : S3!In(s) = In(s)
  /\ \A op, r, ignore : S3!NewCall(op, r, ignore) = NewCall(op, r, ignore)
  /\ \A s : S3!Whole(s) = Whole(s)
  /\ S3!Nothing = Nothing
  /\ S3!NoAnswer = NoAnswer
  /\ \A items : S3!Items(items) = Items(items)
  /\ \A error : S3!Error(error) = Error(error)
  /\ \A kind, cause : S3!Failure(kind, cause) = Failure(kind, cause)
  /\ \A error : S3!Unwrapped(error) = Unwrapped(error)
  /\ \A r, age, lacks : S3!Part(r, age, lacks) = Part(r, age, lacks)
  /\ \A rec, r : S3!FailuresFor(rec, r) = FailuresFor(rec, r)
  /\ \A rec : S3!AnyFailure(rec) = AnyFailure(rec)
  /\ \A entries, item, duration :
       S3!WithItem(entries, item, duration)
       = WithItem(entries, item, duration)
  /\ \A entries, item, duration :
       S3!WithListed(entries, item, duration)
       = WithListed(entries, item, duration)
  /\ \A entries, key, error, duration :
       S3!WithError(entries, key, error, duration)
       = WithError(entries, key, error, duration)
  /\ \A r : S3!GetErrorKey(r) = GetErrorKey(r)
  /\ \A s : S3!ListErrorKey(s) = ListErrorKey(s)
  /\ S3!Resources = Resources
  /\ S3!CacheTypeOK <=> CacheTypeOK
  /\ \A rec, r : S3!GetHit(r, ~S3!UsesCache(rec)) <=> GetHit(r, ~(~rec.ignore))
  /\ \A rec, s : S3!ListHit(s, ~S3!UsesCache(rec)) <=> ListHit(s, ~(~rec.ignore))
BY Zenon DEF S3!UsesCache, S3!Environment, Environment, S3!Set, Set, S3!Done,
   Done, S3!GetCached, GetCached, S3!ListCached, ListCached, S3!In, In,
   S3!NewCall, NewCall, S3!Whole, Whole, S3!Nothing, Nothing, S3!Items, Items,
   S3!Error, Error, S3!Failure, Failure, S3!Read, Read, S3!Part, Part,
   S3!FailuresFor, FailuresFor, S3!AnyFailure, AnyFailure, S3!Unwrapped,
   Unwrapped, S3!WithItem, WithItem, S3!WithListed, WithListed, S3!WithError,
   WithError, S3!WithRawError, WithRawError, S3!GetErrorKey, GetErrorKey,
   S3!ListErrorKey, ListErrorKey, S3!cacheDuration, cacheDuration,
   S3!Resources, Resources, S3!NoAnswer, NoAnswer, S3!CacheTypeOK,
   CacheTypeOK, S3!Failures, Failures, S3!AnyErrors, AnyErrors, S3!Errors,
   Errors, S3!Put, Put, S3!ItemEntry, ItemEntry, S3!ErrorEntry, ErrorEntry,
   S3!ItemKey, ItemKey, S3!ListedKey, ListedKey, S3!Key, Key, S3!Holds, Holds,
   S3!At, At, S3!ListedIn, ListedIn, S3!Idle, Idle, S3!NoError, NoError,
   S3!Change, Change, S3!Tick, Tick, S3!EndContext, EndContext, S3!Return,
   Return, S3!AgeAfter, AgeAfter, S3!Older, Older, S3!GetHit, GetHit,
   S3!ListHit, ListHit

(* After a bucket, of which a List keeps what it got: the next one, the    *)
(* answer that there are none, or storing all of them. A Get has its       *)
(* answer.                                                                 *)
LEMMA S3AfterBucket ==
  ASSUME SourcesInv, source.kind = "S3Source",
         NEW rec \in CallType, Begun(source, rec, world),
         NEW answer \in AnswerType, answer.kind # "none",
         rec.op # "LIST" => AnswerFits(source, rec, answer, steady),
         rec.op = "LIST" /\ rec.ignore => Of(answer.items) \subseteq rec.ever,
         rec.op = "LIST" /\ ~BadRequests =>
           Gathered(rec, rec.got \cup answer.items, rec.left, steady)
  PROVE  /\ S3!AfterBucket(rec, answer) \in CallType
         /\ CallFits(source, S3!AfterBucket(rec, answer), world, steady)
<1> DEFINE all == rec.got \cup answer.items
           rest == [rec EXCEPT !.got = all, !.lacks = {}, !.on = Nothing, !.answer = NoAnswer]
           after == S3!AfterBucket(rec, answer)
           of == {i.of : i \in all}
<1>1. CASE rec.op # "LIST"
  <2>1. after = Done(rec, answer)
    BY <1>1, S3Names DEF S3!AfterBucket
  <2> QED BY <1>1, <2>1, DoneFits
<1>2. CASE rec.op = "LIST"
  <2>1. all \in SUBSET ItemType
    BY CallFields DEF AnswerType
  <2> HIDE DEF all
  <2>2. NoAnswer \in AnswerType /\ Nothing \in Place
    BY IdleType, NoResource
  <2>3. /\ rest \in CallType
        /\ rest.at = rec.at /\ rest.op = rec.op /\ rest.r = rec.r /\ rest.ignore = rec.ignore
        /\ rest.ever = rec.ever /\ rest.ticks = rec.ticks /\ rest.failed = rec.failed
        /\ rest.left = rec.left /\ rest.got = all /\ rest.on = Nothing
        /\ rest.answer = NoAnswer
    BY <2>1, <2>2 DEF CallType
  <2>4. after = IF rest.left # {} THEN [rest EXCEPT !.at = "next"]
                ELSE IF rest.got = {} THEN Done(rest, Items({}))
                ELSE [rest EXCEPT !.at = "again", !.left = {i.of : i \in rest.got}]
    BY <1>2, <2>3, S3Names DEF S3!AfterBucket, all
  <2> HIDE DEF rest, after
  <2>5. Begun(source, rest, world)
    <3>1. rec.ignore => Of(all) \subseteq rec.ever
      BY <1>2 DEF Begun, Of, all
    <3> QED BY <2>3, <3>1 DEF Begun, StoresOnce
  <2>6. ~BadRequests => Gathered(rest, all, rest.left, steady)
    BY <1>2, <2>3 DEF Gathered, all
  <2>7. CASE rest.left # {}
    <3> DEFINE next == [rest EXCEPT !.at = "next"]
    <3>1. /\ next \in CallType /\ next.at = "next"
          /\ next.op = rest.op /\ next.r = rest.r /\ next.ignore = rest.ignore
          /\ next.ever = rest.ever /\ next.ticks = rest.ticks /\ next.failed = rest.failed
          /\ next.left = rest.left /\ next.got = rest.got /\ next.on = rest.on
          /\ next.answer = rest.answer
      BY <2>3 DEF CallType, Steps
    <3>2. after = next
      BY <2>4, <2>7
    <3> HIDE DEF next
    <3>3. Shape(source.kind, next, steady)
      BY <1>2, <2>3, <2>6, <2>7, <3>1, NoResource DEF Shape, S3Shape, S3Gathered, Gathered
    <3>4. CallFits(source, next, world, steady)
      BY <2>3, <2>5, <3>1, <3>3, GoesOn
    <3> QED BY <3>1, <3>2, <3>4 DEF after
  <2>8. CASE rest.left = {} /\ rest.got = {}
    <3>1. after = Done(rest, Items(rest.got))
      BY <2>4, <2>8
    <3>2. Around /\ (~BadRequests => Gathered(rest, rest.got, {}, steady))
      BY <2>3, <2>6, <2>8 DEF SourcesInv
    <3> QED BY <2>3, <2>5, <3>1, <3>2, AnswersGot DEF after
  <2>9. CASE rest.left = {} /\ rest.got # {}
    <3> DEFINE again == [rest EXCEPT !.at = "again", !.left = of]
    <3>1. of \in SUBSET Resources /\ of # {}
      BY <2>1, <2>3, <2>9 DEF ItemType
    <3>2. after = again
      BY <2>3, <2>4, <2>9
    <3> HIDE DEF of
    <3>3. /\ again \in CallType /\ again.at = "again" /\ again.left = of
          /\ again.op = rest.op /\ again.r = rest.r /\ again.ignore = rest.ignore
          /\ again.ever = rest.ever /\ again.ticks = rest.ticks /\ again.failed = rest.failed
          /\ again.got = rest.got /\ again.on = rest.on /\ again.answer = rest.answer
      BY <2>3, <3>1 DEF CallType, Steps
    <3> HIDE DEF again
    <3>4. S3Gathered(again, {}, steady)
      BY <2>3, <2>6, <2>9, <3>3 DEF S3Gathered, Gathered
    <3>5. Shape(source.kind, again, steady)
      BY <1>2, <2>3, <3>1, <3>3, <3>4, NoResource DEF Shape, S3Shape
    <3>6. CallFits(source, again, world, steady)
      BY <2>3, <2>5, <3>3, <3>5, GoesOn
    <3> QED BY <3>2, <3>3, <3>6 DEF after
  <2> QED BY <2>7, <2>8, <2>9 DEF after
<1> QED BY <1>1, <1>2

LEMMA S3Look ==
  ASSUME SourcesInv, source.kind = "S3Source", NEW c \in Callers,
         NEW rec \in CallType, Begun(source, rec, world), rec.answer = NoAnswer,
         NEW r \in Resources, rec.op # "LIST" => rec.r = r,
         S3Gathered(rec, rec.left \cup {r}, steady),
         S3!Look(c, rec, r), UNCHANGED <<world, steady, cache>>, ready' \in BOOLEAN
  PROVE  StepKeeps(c)
<1> DEFINE new == [rec EXCEPT !.at = "location", !.on = r]
<1>1. \/ GetHit(r, ~(~rec.ignore)) /\ Set(c, S3!AfterBucket(rec, GetCached(r)))
      \/ Set(c, new)
  BY S3Names DEF S3!Look
<1>2. CASE GetHit(r, ~(~rec.ignore)) /\ Set(c, S3!AfterBucket(rec, GetCached(r)))
  <2>1. GetHit(r, rec.ignore) /\ rec.ignore \in BOOLEAN
    BY <1>2, CallFields DEF GetHit
  <2>2. ~rec.ignore /\ GetCached(r) \in AnswerType /\ GetCached(r).kind # "none"
    BY <2>1, GetCachedFits
  <2>3. rec.op # "LIST" => AnswerFits(source, rec, GetCached(r), steady)
    BY <2>1, GetCachedAnswers
  <2>4. /\ S3!AfterBucket(rec, GetCached(r)) \in CallType
        /\ CallFits(source, S3!AfterBucket(rec, GetCached(r)), world, steady)
    BY <2>2, <2>3, S3AfterBucket DEF Gathered
  <2> QED BY <1>2, <2>4, NothingStored
<1>3. CASE Set(c, new)
  <2>1. r \in Place
    BY NoResource
  <2>2. /\ new \in CallType /\ new.at = "location" /\ new.on = r /\ new.left = rec.left
        /\ new.op = rec.op /\ new.r = rec.r /\ new.ignore = rec.ignore
        /\ new.ever = rec.ever /\ new.ticks = rec.ticks /\ new.failed = rec.failed
        /\ new.got = rec.got /\ new.answer = NoAnswer
    BY <2>1 DEF CallType, Steps
  <2> HIDE DEF new
  <2>3. Shape(source.kind, new, steady)
    BY <2>2 DEF Shape, S3Shape, S3Gathered, Gathered
  <2>4. CallFits(source, new, world, steady)
    BY <2>2, <2>3, GoesOn
  <2> QED BY <1>3, <2>2, <2>4, NothingStored
<1> QED BY <1>1, <1>2, <1>3

LEMMA S3List ==
  ASSUME SourcesInv, source.kind = "S3Source", NEW c \in Callers,
         NEW rec, New(rec), NEW s \in OwnScopes, rec.r = Whole(s), rec.op = "LIST",
         S3!List(c, rec)
  PROVE  StepKeeps(c)
<1> DEFINE new == [rec EXCEPT !.at = "list"]
<1>1. /\ UNCHANGED <<world, steady, cache>> /\ ready' \in BOOLEAN
      /\ \/ ListHit(s, ~(~rec.ignore)) /\ Set(c, Done(rec, ListCached(s)))
         \/ Set(c, new)
  <2>1. rec.r.scope = s
    BY DEF Whole
  <2> QED BY <2>1, S3Names DEF S3!List
<1>2. new \in CallType /\ CallFits(source, new, world, steady)
  <2>1. Asks(new, rec, "list", {})
    BY DEF Asks, New, CallType, Steps
  <2> HIDE DEF new
  <2>2. Shape(source.kind, new, steady)
    BY <2>1, NoResource DEF Asks, Shape, S3Shape
  <2> QED BY <2>1, <2>2, NewAsks
<1> HIDE DEF new
<1>3. rec \in CallType
  BY DEF New
<1> QED BY <1>1, <1>2, <1>3, HitFits, NothingStored

LEMMA S3Begins ==
  ASSUME SourcesInv, source.kind = "S3Source", NEW c \in Callers,
         NEW m \in Methods, NEW s \in OwnScopes, NEW ignore \in BOOLEAN,
         S3!Begin(c, m, s, ignore)
  PROVE  StepKeeps(c)
<1>1. CASE \E r \in In(s) : S3!Get(c, NewCall("GET", r, ignore))
  <2>1. PICK r \in Resources : S3!Get(c, NewCall("GET", r, ignore))
    BY <1>1 DEF In
  <2> DEFINE rec == NewCall("GET", r, ignore)
  <2>2. New(rec) /\ rec.r = r /\ rec.op = "GET"
    BY NewCallIsNew
  <2>3. S3!Look(c, rec, rec.r) /\ UNCHANGED <<world, steady, cache>> /\ ready' \in BOOLEAN
    BY <2>1 DEF S3!Get
  <2> HIDE DEF rec
  <2>4. /\ rec \in CallType /\ Begun(source, rec, world) /\ rec.answer = NoAnswer
        /\ S3Gathered(rec, rec.left \cup {r}, steady)
    BY <2>2 DEF New, S3Gathered, Gathered
  <2> QED BY <2>2, <2>3, <2>4, S3Look
<1>2. CASE S3!List(c, NewCall("LIST", Whole(s), ignore))
  <2> DEFINE rec == NewCall("LIST", Whole(s), ignore)
  <2>1. New(rec) /\ rec.r = Whole(s) /\ rec.op = "LIST"
    BY NewCallIsNew
  <2> HIDE DEF rec
  <2> QED BY <1>2, <2>1, S3List DEF rec
<1>3. CASE S3!Refuse(c, NewCall(m, Whole(s), ignore))
  <2>1. /\ UNCHANGED <<world, steady, cache>> /\ ready' \in {ready, TRUE}
        /\ \E e \in {"NOSCOPE", "OTHER"} :
             Set(c, Done(NewCall(m, Whole(s), ignore), Error(Failure(e, "other"))))
    BY <1>3, S3Names DEF S3!Refuse
  <2>2. ready' \in BOOLEAN
    BY <2>1 DEF SourcesInv, Around
  <2> QED BY <2>1, <2>2, RefusalFits, NothingStored
<1> QED BY <1>1, <1>2, <1>3, S3Names DEF S3!Begin

(* Of a List as such nothing is NOTFOUND, and of a bucket what is said of  *)
(* it is true.                                                             *)
LEMMA S3Fails ==
  ASSUME SourcesInv, source.kind = "S3Source", NEW c \in Callers,
         call[c].at \in {"list", "location", "store"}, NEW e \in ErrorType,
         KindKept(source, e), call[c].ignore /\ e.cause = "context" => call[c].ended,
         Truthful(e, call[c].on, steady),
         Set(c, S3!Failed(call[c], e)), UNCHANGED <<world, steady, cache, ready>>
  PROVE  StepKeeps(c)
<1> DEFINE rec == call[c]
           new == [rec EXCEPT !.at = "error", !.answer = Error(e)]
<1>1. Set(c, new)
  BY S3Names DEF S3!Failed
<1>2. /\ rec \in CallType /\ Begun(source, rec, world) /\ Shape(source.kind, rec, steady)
      /\ Around
  BY AtStep
<1>3. Error(e) \in AnswerType /\ Error(e).error = e
  BY AnswerTypes
<1>4. /\ rec.at \in {"list", "location", "store"} /\ Truthful(e, rec.on, steady)
      /\ rec.ignore /\ e.cause = "context" => rec.ended
  OBVIOUS
<1> HIDE DEF rec
<1>5. /\ new \in CallType /\ new.at = "error" /\ new.answer = Error(e) /\ new.got = rec.got
      /\ new.op = rec.op /\ new.r = rec.r /\ new.ignore = rec.ignore /\ new.ever = rec.ever
      /\ new.ticks = rec.ticks /\ new.ended = rec.ended /\ new.on = rec.on
      /\ new.left = rec.left /\ new.failed = rec.failed
  BY <1>2, <1>3 DEF CallType, Steps
<1> HIDE DEF new
<1>6. Shape(source.kind, new, steady)
  BY <1>2, <1>3, <1>4, <1>5 DEF Shape, S3Shape, S3Gathered, Gathered
<1>7. ErrorFits(source, rec, e, steady)
  <2>1. Truthful(e, rec.r, steady)
    <3>1. CASE rec.op = "LIST"
      <4>1. rec.r \notin Resources
        BY <1>2, <3>1, NoResource DEF Begun
      <4> QED BY <1>2, <4>1 DEF Truthful, Around
    <3>2. CASE rec.op # "LIST"
      BY <1>2, <1>4, <3>2 DEF Shape, S3Shape
    <3> QED BY <3>1, <3>2
  <2> QED BY <1>4, <2>1 DEF ErrorFits
<1>8. CallFits(source, new, world, steady)
  BY <1>2, <1>5, <1>6, <1>7, ComesToError
<1> QED BY <1>1, <1>5, <1>8, ReadyKept, NothingStored

LEMMA S3ListBuckets ==
  ASSUME SourcesInv, source.kind = "S3Source", NEW c \in Callers, S3!ListBuckets(c)
  PROVE  StepKeeps(c)
<1> DEFINE rec == call[c]
           found == In(rec.r.scope) \cap world
           new == [rec EXCEPT !.at = "next", !.left = found]
<1>1. /\ rec.at = "list" /\ UNCHANGED <<world, steady, cache, ready>>
      /\ \/ found = {} /\ Set(c, Done(rec, Items({})))
         \/ found # {} /\ Set(c, new)
         \/ \E e \in AnyFailure(rec) : Set(c, S3!Failed(rec, Unwrapped(e)))
  BY S3Names DEF S3!ListBuckets
<1>2. /\ rec \in CallType /\ Begun(source, rec, world) /\ Shape(source.kind, rec, steady)
      /\ Around /\ rec.answer = NoAnswer
  BY <1>1, AtStep
<1>3. rec.got = {} /\ rec.on = Nothing /\ rec.op = "LIST"
  BY <1>1, <1>2 DEF Shape, S3Shape
<1>4. Gathered(rec, {}, found, steady)
  BY <1>2 DEF Gathered, Around
<1>5. CASE found = {} /\ Set(c, Done(rec, Items({})))
  <2> HIDE DEF rec, found
  <2>1. Gathered(rec, {}, {}, steady)
    BY <1>4, <1>5
  <2> QED BY <1>1, <1>2, <1>3, <1>5, <2>1, AnswersGot, ReadyKept, NothingStored
<1>6. CASE found # {} /\ Set(c, new)
  <2>1. found \in SUBSET Resources
    BY DEF In
  <2> HIDE DEF rec, found
  <2>2. /\ new \in CallType /\ new.at = "next" /\ new.left = found /\ new.on = rec.on
        /\ new.op = rec.op /\ new.r = rec.r /\ new.ignore = rec.ignore
        /\ new.ever = rec.ever /\ new.ticks = rec.ticks /\ new.failed = rec.failed
        /\ new.got = rec.got /\ new.answer = rec.answer
    BY <1>2, <2>1 DEF CallType, Steps
  <2> HIDE DEF new
  <2>3. Shape(source.kind, new, steady)
    BY <1>3, <1>4, <1>6, <2>2, NoResource DEF Shape, S3Shape, S3Gathered, Gathered
  <2>4. CallFits(source, new, world, steady)
    BY <1>2, <2>2, <2>3, GoesOn
  <2> QED BY <1>1, <1>6, <2>2, <2>4, ReadyKept, NothingStored
<1>7. ASSUME NEW e \in AnyFailure(rec), Set(c, S3!Failed(rec, Unwrapped(e)))
      PROVE  StepKeeps(c)
  <2>1. /\ e \in ErrorType /\ KindKept(source, e) /\ (e.cause = "context" => rec.ended)
        /\ ~BadRequests => e.sees = "OTHER"
    BY <1>2, <1>7, FailuresFit
  <2>2. /\ Unwrapped(e) \in ErrorType
        /\ Unwrapped(e).sees = "OTHER" /\ Unwrapped(e).wraps = e.wraps
        /\ Unwrapped(e).cause = e.cause
    BY <2>1, AnswerTypes
  <2>3. KindKept(source, Unwrapped(e)) /\ Truthful(Unwrapped(e), rec.on, steady)
    BY <2>1, <2>2 DEF KindKept, Truthful
  <2> QED BY <1>1, <1>7, <2>1, <2>2, <2>3, S3Fails
<1> QED BY <1>1, <1>5, <1>6, <1>7

LEMMA S3NextBucket ==
  ASSUME SourcesInv, source.kind = "S3Source", NEW c \in Callers,
         NEW r \in call[c].left, S3!NextBucket(c, r)
  PROVE  StepKeeps(c)
<1> DEFINE rec == call[c]
           new == [rec EXCEPT !.left = @ \ {r}]
<1>1. /\ rec.at = "next" /\ UNCHANGED <<world, steady, cache, ready>> /\ r \in rec.left
      /\ S3!Look(c, new, r)
  BY DEF S3!NextBucket
<1>2. /\ rec \in CallType /\ Begun(source, rec, world) /\ Shape(source.kind, rec, steady)
      /\ rec.answer = NoAnswer
  BY <1>1, AtStep
<1> HIDE DEF rec
<1>3. /\ new \in CallType /\ new.at = rec.at /\ new.left = rec.left \ {r}
      /\ new.op = rec.op /\ new.r = rec.r /\ new.ignore = rec.ignore
      /\ new.ever = rec.ever /\ new.ticks = rec.ticks /\ new.failed = rec.failed
      /\ new.got = rec.got /\ new.answer = rec.answer
  BY <1>2 DEF CallType
<1> HIDE DEF new
<1>4. Begun(source, new, world)
  BY <1>2, <1>3, BegunStays
<1>5. new.op = "LIST" /\ S3Gathered(new, new.left \cup {r}, steady) /\ r \in Resources
  BY <1>1, <1>2, <1>3, CallFields DEF Shape, S3Shape, S3Gathered, Gathered
<1> QED BY <1>1, <1>2, <1>3, <1>4, <1>5, ReadyKept, S3Look

LEMMA S3GetLocation ==
  ASSUME SourcesInv, source.kind = "S3Source", NEW c \in Callers, S3!GetLocation(c)
  PROVE  StepKeeps(c)
<1> DEFINE rec == call[c]
           new == [rec EXCEPT !.at = "parts"]
<1>1. /\ rec.at = "location" /\ UNCHANGED <<world, steady, cache, ready>>
      /\ \/ rec.on \in world /\ Set(c, new)
         \/ \E e \in FailuresFor(rec, rec.on) : Set(c, S3!Failed(rec, e))
  BY S3Names DEF S3!GetLocation
<1>2. /\ rec \in CallType /\ Begun(source, rec, world) /\ Shape(source.kind, rec, steady)
      /\ Around /\ rec.answer = NoAnswer
  BY <1>1, AtStep
<1>3. CASE rec.on \in world /\ Set(c, new)
  <2> HIDE DEF rec
  <2>1. /\ new \in CallType /\ new.at = "parts" /\ new.left = rec.left /\ new.on = rec.on
        /\ new.op = rec.op /\ new.r = rec.r /\ new.ignore = rec.ignore
        /\ new.ever = rec.ever /\ new.ticks = rec.ticks /\ new.failed = rec.failed
        /\ new.got = rec.got /\ new.answer = rec.answer
    BY <1>2 DEF CallType, Steps
  <2> HIDE DEF new
  <2>2. rec.ignore => rec.on \in rec.ever
    BY <1>2, <1>3 DEF Begun
  <2>3. Shape(source.kind, new, steady)
    BY <1>1, <1>2, <2>1, <2>2 DEF Shape, S3Shape, S3Gathered, Gathered
  <2>4. CallFits(source, new, world, steady)
    BY <1>2, <2>1, <2>3, GoesOn
  <2> QED BY <1>1, <1>3, <2>1, <2>4, ReadyKept, NothingStored
<1>4. ASSUME NEW e \in FailuresFor(rec, rec.on), Set(c, S3!Failed(rec, e))
      PROVE  StepKeeps(c)
  <2>1. /\ e \in ErrorType /\ KindKept(source, e)
        /\ e.cause = "context" => rec.ended
        /\ Truthful(e, rec.on, steady)
    BY <1>2, <1>4, FailuresFit
  <2> QED BY <1>1, <1>4, <2>1, S3Fails
<1> QED BY <1>1, <1>3, <1>4

LEMMA S3GetParts ==
  ASSUME SourcesInv, source.kind = "S3Source", NEW c \in Callers, S3!GetParts(c)
  PROVE  StepKeeps(c)
<1> DEFINE rec == call[c]
<1>1. rec.at = "parts" /\ UNCHANGED <<world, steady, cache, ready>>
  BY DEF S3!GetParts
<1>2. PICK lost \in SUBSET Parts :
        Set(c, [rec EXCEPT !.at = "store", !.lacks = lost, !.failed = @ \/ lost # {}])
  BY S3Names DEF S3!GetParts
<1> DEFINE new == [rec EXCEPT !.at = "store", !.lacks = lost, !.failed = @ \/ lost # {}]
<1>3. /\ rec \in CallType /\ Begun(source, rec, world) /\ Shape(source.kind, rec, steady)
      /\ rec.answer = NoAnswer
  BY <1>1, AtStep
<1> HIDE DEF rec
<1>4. /\ new \in CallType /\ new.at = "store" /\ new.left = rec.left /\ new.on = rec.on
      /\ new.op = rec.op /\ new.r = rec.r /\ new.ignore = rec.ignore
      /\ new.ever = rec.ever /\ new.ticks = rec.ticks
      /\ new.got = rec.got /\ new.answer = rec.answer /\ new.lacks = lost
      /\ new.failed <=> rec.failed \/ lost # {}
  BY <1>3 DEF CallType, Steps
<1> HIDE DEF new
<1>5. Shape(source.kind, new, steady)
  BY <1>1, <1>3, <1>4 DEF Shape, S3Shape, S3Gathered, Gathered
<1>6. CallFits(source, new, world, steady)
  BY <1>3, <1>4, <1>5, GoesOn
<1> QED BY <1>1, <1>2, <1>4, <1>6, ReadyKept, NothingStored DEF new

LEMMA S3StoreOne ==
  ASSUME SourcesInv, source.kind = "S3Source", NEW c \in Callers, S3!StoreOne(c)
  PROVE  StepKeeps(c)
<1> DEFINE rec == call[c]
           item == Part(rec.on, 0, rec.lacks)
<1>1. /\ rec.at = "store" /\ UNCHANGED <<world, steady, ready>>
      /\ cache' = WithItem(cache, item, DefaultCacheDuration)
      /\ Set(c, S3!AfterBucket(rec, Items({item})))
  BY S3Names DEF S3!StoreOne, S3!Duration
<1>2. /\ rec \in CallType /\ Begun(source, rec, world) /\ Shape(source.kind, rec, steady)
      /\ Around /\ CacheFits(source, cache, steady)
  BY <1>1, AtStep
<1> HIDE DEF rec
<1>3. /\ rec.on \in Resources /\ (rec.ignore => rec.on \in rec.ever)
      /\ S3Gathered(rec, rec.left \cup {rec.on}, steady)
      /\ ~rec.failed => rec.lacks = {}
  BY <1>1, <1>2 DEF Shape, S3Shape
<1>4. item \in ItemType /\ item.of = rec.on /\ item.lacks = rec.lacks
  BY <1>2, <1>3, CallFields DEF Part, ItemType
<1> HIDE DEF item
<1>5. CacheFits(source, cache', steady)
  BY <1>1, <1>2, <1>4, HowLong, WithItemFits DEF Around, StoresOnce
<1>6. {item} \in SUBSET ItemType /\ Of({item}) = {rec.on}
  BY <1>4 DEF Of
<1>7. /\ Items({item}) \in AnswerType /\ Items({item}).kind # "none"
      /\ Items({item}).items = {item}
  BY <1>6, AnswerTypes
<1>8. rec.op # "LIST" => AnswerFits(source, rec, Items({item}), steady)
  BY <1>2, <1>3, <1>6, ItemsFit DEF Around, StoresOnce, Gathered
<1>9. ~BadRequests => Gathered(rec, rec.got \cup {item}, rec.left, steady)
  <2>1. Of(rec.got \cup {item}) = Of(rec.got) \cup {rec.on}
    BY <1>4 DEF Of
  <2> QED BY <1>3, <1>4, <2>1 DEF S3Gathered, Gathered
<1>10. /\ S3!AfterBucket(rec, Items({item})) \in CallType
       /\ CallFits(source, S3!AfterBucket(rec, Items({item})), world, steady)
  BY <1>2, <1>3, <1>6, <1>7, <1>8, <1>9, S3AfterBucket
<1> QED BY <1>1, <1>5, <1>10, SomethingStored

LEMMA S3Unconverted ==
  ASSUME SourcesInv, source.kind = "S3Source", NEW c \in Callers, S3!Unconverted(c)
  PROVE  StepKeeps(c)
<1> DEFINE e == Failure("OTHER", "other")
<1>1. /\ call[c].at = "store" /\ UNCHANGED <<world, steady, cache, ready>>
      /\ Set(c, S3!Failed(call[c], e))
  BY S3Names DEF S3!Unconverted
<1>2. /\ e \in ErrorType /\ e.sees = "OTHER" /\ e.wraps = "OTHER" /\ e.cause = "other"
  BY AnswerTypes DEF Seen
<1> HIDE DEF e
<1>3. KindKept(source, e) /\ Truthful(e, call[c].on, steady)
  BY <1>2 DEF KindKept, Truthful
<1> QED BY <1>1, <1>2, <1>3, S3Fails

LEMMA S3StoreFailure ==
  ASSUME SourcesInv, source.kind = "S3Source", NEW c \in Callers, S3!StoreFailure(c)
  PROVE  StepKeeps(c)
<1> DEFINE rec == call[c]
           error == rec.answer.error
           new == [rec EXCEPT !.failed = @ \/ error.sees # "NOTFOUND"]
<1>1. /\ rec.at = "error" /\ UNCHANGED <<world, steady, ready>>
      /\ \/ /\ rec.on = Nothing
            /\ cache' = WithError(cache, ListErrorKey(rec.r.scope), error, DefaultCacheDuration)
            /\ Set(c, Done(rec, rec.answer))
         \/ /\ rec.on # Nothing
            /\ cache' = WithError(cache, GetErrorKey(rec.on), error, DefaultCacheDuration)
            /\ Set(c, S3!AfterBucket(new, rec.answer))
  BY S3Names DEF S3!StoreFailure, S3!Duration
<1>2. /\ rec \in CallType /\ UnderWay(source, rec, world, steady)
      /\ Begun(source, rec, world) /\ Shape(source.kind, rec, steady)
      /\ Around /\ CacheFits(source, cache, steady)
  BY <1>1, AtStep
<1> HIDE DEF rec
<1>3. /\ rec.answer \in AnswerType /\ error \in ErrorType
      /\ rec.answer.kind = "error" /\ rec.answer.items = {}
      /\ ErrorFits(source, rec, error, steady) /\ KindKept(source, error)
      /\ Truthful(error, rec.on, steady)
  BY <1>1, <1>2, CallFields DEF UnderWay, ErrorFits, AnswerType, Shape, S3Shape
<1>4. CASE /\ rec.on = Nothing
           /\ cache' = WithError(cache, ListErrorKey(rec.r.scope), error, DefaultCacheDuration)
           /\ Set(c, Done(rec, rec.answer))
  <2>1. rec.op = "LIST"
    BY <1>2, <1>4, NoResource DEF Shape, S3Shape
  <2>2. CacheFits(source, cache', steady)
    BY <1>2, <1>3, <1>4, <2>1, ScopeOfList, HowLong, WithErrorFits DEF Around
  <2> QED BY <1>1, <1>2, <1>4, <2>2, AnswersError, SomethingStored
<1>5. CASE /\ rec.on # Nothing
           /\ cache' = WithError(cache, GetErrorKey(rec.on), error, DefaultCacheDuration)
           /\ Set(c, S3!AfterBucket(new, rec.answer))
  <2>1. rec.on \in Resources
    BY <1>1, <1>2, <1>5 DEF Shape, S3Shape
  <2>2. CacheFits(source, cache', steady)
    BY <1>2, <1>3, <1>5, <2>1, HowLong, WithErrorFits DEF Around
  <2> HIDE DEF error
  <2>3. /\ new \in CallType /\ new.op = rec.op /\ new.r = rec.r /\ new.ignore = rec.ignore
        /\ new.ever = rec.ever /\ new.ticks = rec.ticks /\ new.left = rec.left
        /\ new.got = rec.got /\ new.ended = rec.ended
        /\ new.failed <=> rec.failed \/ error.sees # "NOTFOUND"
    BY <1>2 DEF CallType
  <2> HIDE DEF new
  <2>4. Begun(source, new, world)
    BY <1>2, <2>3, BegunStays
  <2>5. AnswerFits(source, new, rec.answer, steady)
    BY <1>3, <2>3 DEF AnswerFits, ErrorFits, Of, error
  <2>6. ~BadRequests => Gathered(new, new.got, new.left, steady)
    <3>1. S3Gathered(rec, rec.left \cup {rec.on}, steady)
      BY <1>2, <2>1 DEF Shape, S3Shape
    <3> QED BY <1>3, <2>3, <3>1 DEF S3Gathered, Gathered, Truthful
  <2>7. new.got \cup rec.answer.items = new.got /\ Of(rec.answer.items) = {}
    BY <1>3 DEF Of
  <2>8. /\ S3!AfterBucket(new, rec.answer) \in CallType
        /\ CallFits(source, S3!AfterBucket(new, rec.answer), world, steady)
    BY <1>3, <2>3, <2>4, <2>5, <2>6, <2>7, S3AfterBucket
  <2> QED BY <1>1, <1>5, <2>2, <2>8, SomethingStored
<1> QED BY <1>1, <1>4, <1>5

LEMMA S3StoreListed ==
  ASSUME SourcesInv, source.kind = "S3Source", NEW c \in Callers,
         NEW item \in call[c].got, S3!StoreListed(c, item)
  PROVE  StepKeeps(c)
<1> DEFINE rec == call[c]
           rest == rec.left \ {item.of}
           new == [rec EXCEPT !.left = rest]
<1>1. /\ rec.at = "again" /\ UNCHANGED <<world, steady, ready>>
      /\ cache' = WithListed(cache, item, DefaultCacheDuration)
      /\ \/ Set(c, Done(rec, Items(rec.got)))
         \/ rest # {} /\ Set(c, new)
  BY S3Names DEF S3!StoreListed, S3!Duration
<1>2. /\ rec \in CallType /\ Begun(source, rec, world) /\ Shape(source.kind, rec, steady)
      /\ Around /\ CacheFits(source, cache, steady) /\ rec.answer = NoAnswer
  BY <1>1, AtStep
<1>3. CacheFits(source, cache', steady)
  BY <1>1, <1>2, GotIsYoung, HowLong, WithItemFits DEF Around
<1>4. S3Gathered(rec, {}, steady) /\ rec.on = Nothing /\ rec.op = "LIST"
  BY <1>1, <1>2 DEF Shape, S3Shape
<1> HIDE DEF rec
<1>5. ASSUME rest # {}
      PROVE  new \in CallType /\ CallFits(source, new, world, steady)
  <2>1. /\ new \in CallType /\ new.left = rest /\ new.at = rec.at /\ new.got = rec.got
        /\ new.op = rec.op /\ new.r = rec.r /\ new.on = rec.on /\ new.answer = rec.answer
        /\ new.ever = rec.ever /\ new.ignore = rec.ignore /\ new.ticks = rec.ticks
        /\ new.failed = rec.failed
    BY <1>2 DEF CallType
  <2> HIDE DEF new, rest
  <2>2. Shape(source.kind, new, steady)
    BY <1>1, <1>4, <1>5, <2>1, NoResource DEF Shape, S3Shape, S3Gathered, Gathered
  <2> QED BY <1>1, <1>2, <2>1, <2>2, GoesOn
<1> HIDE DEF new, rest
<1>6. Done(rec, Items(rec.got)) \in CallType
      /\ CallFits(source, Done(rec, Items(rec.got)), world, steady)
  BY <1>2, <1>4, AnswersGot DEF S3Gathered
<1> QED BY <1>1, <1>3, <1>5, <1>6, SomethingStored

LEMMA S3StepKeeps ==
  ASSUME SourcesInv, source.kind = "S3Source", NEW c \in Callers, S3!Step(c)
  PROVE  StepKeeps(c)
<1>1. CASE \E m \in Methods, s \in OwnScopes, ignore \in BOOLEAN : S3!Begin(c, m, s, ignore)
  BY <1>1, S3Begins
<1>2. CASE \E r \in call[c].left : S3!NextBucket(c, r)
  BY <1>2, S3NextBucket
<1>3. CASE \E item \in call[c].got : S3!StoreListed(c, item)
  BY <1>3, S3StoreListed
<1> QED BY <1>1, <1>2, <1>3, S3ListBuckets, S3GetLocation, S3GetParts, S3StoreOne,
          S3Unconverted, S3StoreFailure DEF S3!Step

-----------------------------------------------------------------------------
(* The invariant, of all kinds.                                            *)

LEMMA NextKeepsInv ==
  ASSUME SourcesInv, [Next]_sourceVars
  PROVE  SourcesInv'
<1>1. CASE UNCHANGED sourceVars
  BY <1>1 DEF sourceVars, SourcesInv, Around
<1>2. CASE source.kind = "DescribeOnlySource" /\ Describe!Next
  BY <1>2, DescribeNames, EnvironmentKeepsInv, DescribeStepKeeps, StepKeepsInv
     DEF Describe!Next
<1>3. CASE source.kind = "GetListSource" /\ GetList!Next
  BY <1>3, GetListNames, EnvironmentKeepsInv, GetListStepKeeps, StepKeepsInv
     DEF GetList!Next
<1>4. CASE source.kind = "AlwaysGetSource" /\ AlwaysGet!Next
  BY <1>4, AlwaysGetNames, EnvironmentKeepsInv, AlwaysGetStepKeeps, StepKeepsInv
     DEF AlwaysGet!Next
<1>5. CASE source.kind = "S3Source" /\ S3!Next
  BY <1>5, S3Names, EnvironmentKeepsInv, S3StepKeeps, StepKeepsInv DEF S3!Next
<1> QED BY <1>1, <1>2, <1>3, <1>4, <1>5 DEF Next

(* The invariant holds of a source of any kind, always.                    *)
THEOREM AlwaysSourcesInv == Spec => []SourcesInv
BY InitInv, NextKeepsInv, PTL DEF Spec

(* What the invariant says of a call that is answered.                     *)
LEMMA AnswerIs ==
  ASSUME SourcesInv, NEW c \in Callers
  PROVE  LET answer == call[c].answer IN
         /\ answer \in AnswerType
         /\ answer.kind # "none" => \/ call[c].at = "done" /\ Answering(source, call[c], steady)
                                    \/ /\ call[c].at = "error" /\ answer.items = {}
                                       /\ ErrorFits(source, call[c], answer.error, steady)
         /\ answer.kind = "none" => answer = NoAnswer /\ call[c].at # "done"
<1>1. call[c] \in CallType /\ CallFits(source, call[c], world, steady)
  BY DEF SourcesInv
<1>2. Idle.answer = NoAnswer /\ Idle.at = "idle" /\ NoAnswer.kind = "none"
  BY DEF Idle, NoAnswer
<1>3. call[c].answer \in AnswerType
  BY <1>1, CallFields
<1> QED BY <1>1, <1>2, <1>3 DEF CallFits, UnderWay, Answering

-----------------------------------------------------------------------------
(* Types of the cache and of the calls, and of what a call holds at each   *)
(* step of its source.                                                     *)
LEMMA CacheTypes == ASSUME SourcesInv PROVE CacheTypeOK
<1>1. /\ world \subseteq Resources /\ steady \subseteq world /\ ready \in BOOLEAN
  BY DEF SourcesInv, Around
<1>2. ASSUME NEW e \in cache
      PROVE  /\ e.key.index \in {"item", "listed", "get-error", "list-error"}
             /\ e.left \in 0..cacheDuration
             /\ \A f \in cache : e.key = f.key => e = f
  <2>1. /\ e \in EntryType /\ e.left <= Lasts(source)
        /\ \A f \in cache : e.key = f.key => e = f
    BY DEF SourcesInv, CacheFits, EntryFits
  <2>2. e.left \in Nat /\ e.key.index \in {"item", "listed", "get-error", "list-error"}
    BY <2>1 DEF EntryType, KeyType
  <2>3. cacheDuration = Lasts(source) /\ Lasts(source) \in Nat
    BY HowLong DEF SourcesInv
  <2> QED BY <2>1, <2>2, <2>3
<1> QED BY <1>1, <1>2 DEF CacheTypeOK

LEMMA CallTypes ==
  ASSUME SourcesInv, NEW c \in Callers
  PROVE  /\ call[c].left \subseteq Resources /\ call[c].lacks \subseteq Parts
         /\ call[c].at = "done" => call[c].answer.kind # "none"
         /\ \/ call[c].at \in {"idle", "done"}
            \/ Shape(source.kind, call[c], steady)
<1>1. call[c] \in CallType /\ CallFits(source, call[c], world, steady)
  BY DEF SourcesInv
<1>2. Idle.at = "idle"
  BY DEF Idle
<1>3. call[c].left \subseteq Resources /\ call[c].lacks \subseteq Parts
  BY <1>1, CallFields
<1> QED BY <1>1, <1>2, <1>3 DEF CallFits, UnderWay, Answering

LEMMA TypesByKind ==
  ASSUME SourcesInv
  PROVE  /\ source.kind = "DescribeOnlySource" => Describe!TypeOK
         /\ source.kind = "GetListSource" => GetList!TypeOK
         /\ source.kind = "AlwaysGetSource" => AlwaysGet!TypeOK
         /\ source.kind = "S3Source" => S3!TypeOK
<1>1. /\ Describe!CacheTypeOK /\ GetList!CacheTypeOK
      /\ AlwaysGet!CacheTypeOK /\ S3!CacheTypeOK
  BY CacheTypes, DescribeNames, GetListNames, AlwaysGetNames, S3Names
<1>2. /\ Describe!Resources = Resources /\ GetList!Resources = Resources
      /\ AlwaysGet!Resources = Resources /\ S3!Resources = Resources
  BY DescribeNames, GetListNames, AlwaysGetNames, S3Names
<1>3. ASSUME source.kind = "DescribeOnlySource" PROVE Describe!TypeOK
  BY <1>1, <1>2, <1>3, CallTypes DEF Describe!TypeOK, Shape, DescribeShape
<1>4. ASSUME source.kind = "GetListSource" PROVE GetList!TypeOK
  BY <1>1, <1>2, <1>4, CallTypes DEF GetList!TypeOK, Shape, GetListShape
<1>5. ASSUME source.kind = "AlwaysGetSource" PROVE AlwaysGet!TypeOK
  BY <1>1, <1>2, <1>5, CallTypes DEF AlwaysGet!TypeOK, Shape, AlwaysGetShape
<1>6. ASSUME source.kind = "S3Source" PROVE S3!TypeOK
  BY <1>1, <1>2, <1>6, CallTypes DEF S3!TypeOK, Shape, S3Shape
<1> QED BY <1>3, <1>4, <1>5, <1>6

(* Whatever calls meet on a source, of any kind, its state keeps its       *)
(* types: one entry for a key, none kept longer than the cache duration    *)
(* (describe_source.go:78), and a call at each step of the method it runs  *)
(* holds what the step needs.                                              *)
THEOREM TypeCorrect == Spec => []TypeOK
<1>1. ASSUME SourcesInv PROVE TypeOK
  <2>1. source.kind \in Kinds
    BY <1>1, SourceTypes DEF SourcesInv, Around
  <2>2. CASE source.kind = "DescribeOnlySource"
    <3>1. Describe!TypeOK
      BY <1>1, <2>2, TypesByKind
    <3> QED BY <2>2, <3>1, Zenon DEF TypeOK
  <2>3. CASE source.kind = "GetListSource"
    <3>1. GetList!TypeOK
      BY <1>1, <2>3, TypesByKind
    <3> QED BY <2>3, <3>1, Zenon DEF TypeOK
  <2>4. CASE source.kind = "AlwaysGetSource"
    <3>1. AlwaysGet!TypeOK
      BY <1>1, <2>4, TypesByKind
    <3> QED BY <2>4, <3>1, Zenon DEF TypeOK
  <2>5. CASE source.kind = "S3Source"
    <3>1. S3!TypeOK
      BY <1>1, <2>5, TypesByKind
    <3> QED BY <2>5, <3>1, Zenon DEF TypeOK
  <2> QED BY <2>1, <2>2, <2>3, <2>4, <2>5 DEF Kinds
<1> QED BY <1>1, AlwaysSourcesInv, PTL

(* A caller that ignores the cache is told of what existed while it        *)
(* waited, and only of the end of its own context.                         *)
THEOREM ToldFresh == Spec => []FreshWhenAsked
<1>1. ASSUME SourcesInv PROVE FreshWhenAsked
  <2> SUFFICES ASSUME NEW c \in Answered({"GET", "LIST", "SEARCH"}), call[c].ignore
               PROVE  /\ \A i \in call[c].answer.items : i.of \in call[c].ever
                      /\ call[c].answer.error.cause = "context" => call[c].ended
    BY DEF FreshWhenAsked
  <2>1. c \in Callers /\ call[c].at = "done"
    BY DEF Answered
  <2>2. AnswerFits(source, call[c], call[c].answer, steady)
    BY <1>1, <2>1, AnswerIs DEF Answering
  <2> QED BY <2>2 DEF AnswerFits, ErrorFits, Of
<1> QED BY <1>1, AlwaysSourcesInv, PTL

(* Only the S3 source's own List says OTHER of what AWS called NOTFOUND,   *)
(* and AWS does so only by a bad request.                                  *)
S3IsAskedWell == BadRequests => \A s \in Sources : s.kind # "S3Source"

(* The kind of an error is what WrapAWSError (util.go:97) makes of what    *)
(* AWS said, in the first answer and in those from the cache; with a       *)
(* GetListSource it may become OTHER.                                      *)
THEOREM KindOfErrors == ASSUME S3IsAskedWell PROVE Spec => []ErrorsKeepKind
<1>1. ASSUME SourcesInv PROVE ErrorsKeepKind
  <2>1. source.kind = "S3Source" => ~BadRequests
    BY <1>1 DEF S3IsAskedWell, SourcesInv, Around
  <2>2. ASSUME NEW c \in Callers
        PROVE  KindKept(source, call[c].answer.error)
    <3>1. CASE call[c].answer.kind = "none"
      BY <1>1, <3>1, AnswerIs DEF NoAnswer, NoError, KindKept
    <3>2. CASE call[c].answer.kind # "none"
      BY <1>1, <3>2, AnswerIs DEF Answering, AnswerFits, ErrorFits
    <3> QED BY <3>1, <3>2
  <2> QED BY <2>1, <2>2 DEF ErrorsKeepKind, ErrorKindKept, KindKept
<1> QED BY <1>1, AlwaysSourcesInv, PTL

(* A List that ignores the cache leaves nothing out that was there all     *)
(* along, and no part of it, unless a request of its own failed and was    *)
(* dropped; an S3 List takes a NOTFOUND for the end of a bucket.           *)
THEOREM FreshListIsWhole == ASSUME S3IsAskedWell PROVE Spec => []FreshListsAll
<1>1. ASSUME SourcesInv PROVE FreshListsAll
  <2>1. source.kind = "S3Source" => ~BadRequests
    BY <1>1 DEF S3IsAskedWell, SourcesInv, Around
  <2> SUFFICES ASSUME NEW c \in Answered({"LIST"}), call[c].ignore,
                      call[c].answer.kind = "items", ~call[c].failed
               PROVE  Complete(c) /\ \A i \in call[c].answer.items : i.lacks = {}
    BY DEF FreshListsAll
  <2>2. c \in Callers /\ call[c].at = "done" /\ call[c].op = "LIST"
    BY DEF Answered
  <2>3. AnswerFits(source, call[c], call[c].answer, steady)
    BY <1>1, <2>2, AnswerIs DEF Answering
  <2> QED BY <2>1, <2>2, <2>3 DEF AnswerFits, Gathered, Complete, Of
<1> QED BY <1>1, AlwaysSourcesInv, PTL

(* An entry is kept for cacheDuration after it was read, but for those     *)
(* that a GetListSource which leaves its field unset does not keep at all  *)
(* (get_list_source.go:170, :214), if the ages are told as far as that.    *)
THEOREM KeptLongEnough ==
  ASSUME \A s \in Sources : Measured(s)
  PROVE  Spec => []KeptUnlessUnset
<1>1. ASSUME SourcesInv PROVE KeptUnlessUnset
  <2>1. Measured(source) /\ cacheDuration = Lasts(source)
    BY <1>1, HowLong DEF SourcesInv, Around
  <2>2. \A e \in cache :
          e.left + e.age >= Lasts(source) \/ (Unset(source, e.key.index) /\ e.left = 0)
    BY <1>1, <2>1 DEF SourcesInv, CacheFits, EntryFits
  <2> QED BY <2>1, <2>2 DEF KeptUnlessUnset, StoredUnset, Unset
<1> QED BY <1>1, AlwaysSourcesInv, PTL

(* Where nothing read from the cache is stored again no answer is older    *)
(* than the cache duration and the time of two calls.                      *)
LEMMA StoredOnceIsYoung ==
  ASSUME SourcesInv, StoresOnce(source)
  PROVE  NotTooOld
<1> SUFFICES ASSUME NEW c \in Callers, NEW i \in call[c].answer.items
             PROVE  i.age <= MaxAge
  BY DEF NotTooOld
<1>1. cacheDuration = Lasts(source)
  BY HowLong DEF SourcesInv
<1>2. call[c].answer.kind # "none"
  BY AnswerIs DEF NoAnswer
<1>3. AnswerFits(source, call[c], call[c].answer, steady)
  BY <1>2, AnswerIs DEF Answering, AnswerFits
<1> QED BY <1>1, <1>3 DEF AnswerFits, MaxAge
=============================================================================
