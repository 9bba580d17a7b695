---------------------------- MODULE SourceCache ----------------------------
(***************************************************************************)
(* What the generic sources (DescribeOnlySource, GetListSource and         *)
(* AlwaysGetSource) and the S3 source have in common: the resources in     *)
(* AWS, the sdpcache each source owns, and the calls the discovery engine  *)
(* runs on it at the same time.                                            *)
(*                                                                         *)
(* sdpcache is not in this repository. It is modelled by how it is used:   *)
(* an item is found again by its name whatever method stored it, by LIST   *)
(* only when LIST stored it; storing it again replaces it; an error under  *)
(* the key of a call comes before items; SEARCH keys are stored but never  *)
(* looked up, so they are left out. An entry is purged at the first tick   *)
(* after its time, and served until then.                                  *)
(***************************************************************************)
EXTENDS Naturals

CONSTANTS
  Callers,        \* calls the engine runs on the source at the same time
  OwnScopes,      \* Scopes()
  Names,          \* unique attribute values
  Sources,        \* the sources one of which is looked at, each with
                  \*   kind           its Go type
                  \*   CacheDuration  the field, in ticks; 0 is unset
                  \*   Deadline       ticks after which a request's context has ended
                  \*   cancels        whether contexts end before their calls
                  \*   told           bound: an age is not told from a greater one
  DefaultCacheDuration,
  BadRequests,    \* AWS may answer 400 for a resource that exists
  Methods         \* the methods called: "GET", "LIST", "SEARCH"

Kinds == {"DescribeOnlySource", "GetListSource", "AlwaysGetSource", "S3Source"}

ASSUME SourceCacheAssumption ==
  /\ Sources \subseteq [kind : Kinds, CacheDuration : Nat, Deadline : Nat,
                        cancels : BOOLEAN, told : Nat]
  /\ DefaultCacheDuration \in Nat \ {0}
  /\ BadRequests \in BOOLEAN
  /\ Methods \subseteq {"GET", "LIST", "SEARCH"}
  /\ Names # {} /\ "any" \notin Names   \* "any" stands for no name

VARIABLES
  source,  \* the source
  world,   \* the resources that exist
  steady,  \* history: those that have existed from the start
  cache,   \* the live entries of the sdpcache
  ready,   \* ensureCache has been called
  call     \* each call: what it asks and how far it is

sourceVars == <<source, world, steady, cache, ready, call>>

Resources == [scope : OwnScopes, name : Names]
In(s) == {r \in Resources : r.scope = s}
Errors == {"NOTFOUND", "OTHER"}   \* what WrapAWSError tells apart

(* An error as the caller sees it, as WrapAWSError would have it, and      *)
(* its cause: the "context" of the call that met it, which ended, or any   *)
(* "other".                                                                *)
NoError == [sees |-> "none", wraps |-> "none", cause |-> "none"]
Failure(kind, cause) == [sees |-> kind, wraps |-> kind, cause |-> cause]

(* sdp.NewQueryError, which knows nothing of AWS                           *)
Unwrapped(error) == [error EXCEPT !.sees = "OTHER"]

(* s.cacheDuration()                                                       *)
cacheDuration ==
  IF source.CacheDuration = 0 THEN DefaultCacheDuration ELSE source.CacheDuration

(* An item that was read age ticks ago. lacks are the parts of it that     *)
(* were asked for and not received, for a source that asks for parts.      *)
Part(r, age, lacks) == [of |-> r, age |-> age, lacks |-> lacks]
Read(r, age) == Part(r, age, {})

-----------------------------------------------------------------------------
(* The sdpcache. Keys: an item by name, an item of LIST, an error of GET,  *)
(* an error of LIST (which has no name).                                   *)

Key(index, scope, name) == [index |-> index, scope |-> scope, name |-> name]
ItemKey(r) == Key("item", r.scope, r.name)
ListedKey(r) == Key("listed", r.scope, r.name)
GetErrorKey(r) == Key("get-error", r.scope, r.name)
ListErrorKey(s) == Key("list-error", s, "any")

Put(entries, e) == {f \in entries : f.key # e.key} \cup {e}

ItemEntry(key, item, duration) ==
  [key |-> key, error |-> NoError, left |-> duration, age |-> item.age, lacks |-> item.lacks]
ErrorEntry(key, error, duration) ==
  [key |-> key, error |-> error, left |-> duration, age |-> 0, lacks |-> {}]

(* StoreItem, under the key of a GET or SEARCH, and under that of a LIST   *)
WithItem(entries, item, duration) ==
  Put(entries, ItemEntry(ItemKey(item.of), item, duration))
WithListed(entries, item, duration) ==
  Put(WithItem(entries, item, duration), ItemEntry(ListedKey(item.of), item, duration))

(* StoreError of an error that WrapAWSError has seen, and of one straight  *)
(* from AWS: an sdp.QueryError keeps its type, and Lookup, which returns a *)
(* QueryError too, makes one of any other error                            *)
WithError(entries, key, error, duration) == Put(entries, ErrorEntry(key, error, duration))
WithRawError(entries, key, error, duration) ==
  WithError(entries, key, Unwrapped(error), duration)

Holds(key) == \E e \in cache : e.key = key
At(key) == CHOOSE e \in cache : e.key = key
ListedIn(s) == {e \in cache : e.key.index = "listed" /\ e.key.scope = s}

-----------------------------------------------------------------------------
(* Calls. Steps: "idle", those of the source, "done" with an answer.       *)

NoAnswer == [kind |-> "none", items |-> {}, error |-> NoError]
Items(items) == [NoAnswer EXCEPT !.kind = "items", !.items = items]
Error(error) == [NoAnswer EXCEPT !.kind = "error", !.error = error]

(* What a call has: what it asks (op, r, the ARN of a search, ignore), what *)
(* it has still to ask AWS for (left) and the resource it is on, what it   *)
(* got and what the item it is on lacks, its answer, its time, and         *)
(* whether its context has ended. History: whether a request of it failed  *)
(* and was dropped, and, if it ignores the cache, what existed at some     *)
(* time of it.                                                             *)
Nothing == [scope |-> "any", name |-> "any"]
Idle ==
  [at |-> "idle", op |-> "none", r |-> Nothing, arn |-> Nothing, ignore |-> FALSE,
   left |-> {}, on |-> Nothing, got |-> {}, lacks |-> {},
   answer |-> NoAnswer, ticks |-> 0, ended |-> FALSE, failed |-> FALSE, ever |-> {}]

(* A new call of op about r, which for a LIST is only a scope.             *)
NewCall(op, r, ignore) ==
  [Idle EXCEPT !.op = op, !.r = r, !.ignore = ignore, !.ever = IF ignore THEN world ELSE {}]
Whole(s) == [scope |-> s, name |-> "any"]

Set(c, record) == call' = [call EXCEPT ![c] = record]
Done(record, answer) ==
  [record EXCEPT !.at = "done", !.answer = answer, !.left = {}, !.on = Nothing,
                 !.got = {}, !.lacks = {}, !.ticks = 0]

(* Lookup for a GET: its answer, if there is one.                          *)
GetHit(r, ignore) == ~ignore /\ (Holds(GetErrorKey(r)) \/ Holds(ItemKey(r)))
GetCached(r) ==
  IF Holds(GetErrorKey(r)) THEN Error(At(GetErrorKey(r)).error)
  ELSE LET e == At(ItemKey(r)) IN Items({Part(r, e.age, e.lacks)})

(* Lookup for a LIST. An empty List leaves nothing to find.                *)
ListHit(s, ignore) == ~ignore /\ (Holds(ListErrorKey(s)) \/ ListedIn(s) # {})
ListCached(s) ==
  IF Holds(ListErrorKey(s)) THEN Error(At(ListErrorKey(s)).error)
  ELSE Items({Part([scope |-> s, name |-> e.key.name], e.age, e.lacks) : e \in ListedIn(s)})

(* How AWS may fail a request of a call for a list, and for r; a request   *)
(* whose context has ended fails, and nothing is known of what it is about. *)
AnyErrors == IF BadRequests THEN Errors ELSE {"OTHER"}
Failures(record, errors) ==
  IF record.ended THEN {Failure("OTHER", "context")} ELSE {Failure(e, "other") : e \in errors}
AnyFailure(record) == Failures(record, AnyErrors)
FailuresFor(record, r) == Failures(record, IF r \in world THEN AnyErrors ELSE Errors)

-----------------------------------------------------------------------------
Init ==
  /\ source \in Sources
  /\ world \in SUBSET Resources
  /\ steady = world
  /\ cache = {}
  /\ ready \in BOOLEAN   \* the engine may have asked for Cache()
  /\ call = [c \in Callers |-> Idle]

(* Somebody creates or deletes r in AWS.                                   *)
Change(r) ==
  /\ world' = IF r \in world THEN world \ {r} ELSE world \cup {r}
  /\ steady' = steady \cap world'
  /\ call' = [c \in Callers |->
                IF call[c].ignore /\ call[c].at # "done"
                THEN [call[c] EXCEPT !.ever = @ \cup world'] ELSE call[c]]
  /\ UNCHANGED <<cache, ready>>

(* Ages are history, and counted up to a bound.                            *)
AgeAfter(age) == IF age < source.told THEN age + 1 ELSE age
Older(items) == {[i EXCEPT !.age = AgeAfter(@)] : i \in items}

(* A unit of time passes: the purger drops the entries whose time was up,  *)
(* and no request is carried on past its deadline. An answer is given at   *)
(* the time it is made.                                                    *)
Tick ==
  /\ \A c \in Callers : call[c].at = "idle" \/ (call[c].at # "done" /\ call[c].ticks < source.Deadline)
  /\ cache' = {[e EXCEPT !.left = @ - 1, !.age = AgeAfter(@)] : e \in {f \in cache : f.left > 0}}
  /\ call' = [c \in Callers |->
                IF call[c].at = "idle" THEN call[c]
                ELSE [call[c] EXCEPT !.ticks = @ + 1, !.got = Older(@)]]
  /\ UNCHANGED <<world, steady, ready>>

(* The context of a call under way ends: it was cancelled, or its time is  *)
(* up. A call that has only to store what it got does not notice.          *)
EndContext(c) ==
  /\ source.cancels
  /\ call[c].at \notin {"idle", "store", "again", "error", "done"}
  /\ ~call[c].ended
  /\ Set(c, [call[c] EXCEPT !.ended = TRUE])
  /\ UNCHANGED <<world, steady, cache, ready>>

Return(c) ==
  /\ call[c].at = "done"
  /\ Set(c, Idle)
  /\ UNCHANGED <<world, steady, cache, ready>>

Environment ==
  \/ \E r \in Resources : Change(r)
  \/ Tick
  \/ \E c \in Callers : EndContext(c) \/ Return(c)

-----------------------------------------------------------------------------
(* What is asked of each of the sources.                                   *)

(* The answers given and not yet returned.                                 *)
Answered(ops) == {c \in Callers : call[c].at = "done" /\ call[c].op \in ops}

(* Types, and what is stored under one key once.                           *)
CacheTypeOK ==
  /\ world \subseteq Resources
  /\ steady \subseteq world
  /\ ready \in BOOLEAN
  /\ \A e \in cache :
       /\ e.key.index \in {"item", "listed", "get-error", "list-error"}
       /\ e.left \in 0..cacheDuration
       /\ \A f \in cache : e.key = f.key => e = f

(* A caller that ignores the cache is told of what exists while it waits,  *)
(* whatever other calls store and look up meanwhile, and never that the    *)
(* context of another has ended.                                           *)
FreshWhenAsked ==
  \A c \in Answered({"GET", "LIST", "SEARCH"}) :
    call[c].ignore =>
      /\ \A i \in call[c].answer.items : i.of \in call[c].ever
      /\ call[c].answer.error.cause = "context" => call[c].ended

(* How old an answer may be: cacheDuration, and the time its request and   *)
(* the request that read it were under way. If what was read from the      *)
(* cache is stored once more, twice that.                                  *)
MaxAge == cacheDuration + 2 * source.Deadline
MaxAgeStoredAgain == 2 * MaxAge

(* No answer is older than that: nothing prolongs an entry.                *)
NotTooOld ==
  \A c \in Callers : \A i \in call[c].answer.items : i.age <= MaxAge

(* No answer is older than twice that: nothing prolongs an entry twice.    *)
StoredAgainOnce ==
  \A c \in Callers : \A i \in call[c].answer.items : i.age <= MaxAgeStoredAgain

(* The kind of an error is what WrapAWSError makes of what AWS said, in    *)
(* the first answer and in those from the cache.                           *)
ErrorKindKept ==
  \A c \in Callers : call[c].answer.error.sees = call[c].answer.error.wraps

(* Nothing is left out that has been there all along.                      *)
Complete(c) ==
  steady \cap In(call[c].r.scope) \subseteq {i.of : i \in call[c].answer.items}

(* A List that ignores the cache is complete and has all it asked for, or  *)
(* it is an error: a page that fails never shortens the answer. Only a     *)
(* request of its own that failed and was dropped leaves something out.    *)
FreshListsAll ==
  \A c \in Answered({"LIST"}) :
    call[c].ignore /\ call[c].answer.kind = "items" /\ ~call[c].failed =>
      Complete(c) /\ \A i \in call[c].answer.items : i.lacks = {}

(* "List Lists all items in a given scope" (describe_source.go:248), "List *)
(* Lists all available items" (get_list_source.go:175), from AWS or from   *)
(* the cache.                                                              *)
ListsAll ==
  \A c \in Answered({"LIST"}) : call[c].answer.kind = "items" => Complete(c)
=============================================================================
