-------------------------- MODULE AlwaysGetSource --------------------------
(***************************************************************************)
(* AlwaysGetSource (sources/always_get_source.go): a List gives names, and *)
(* each is then passed to GetFunc. The goroutines of listInternal are in   *)
(* module ListPipeline; here a List goes through its names one by one and  *)
(* drops those whose GetFunc fails.                                        *)
(***************************************************************************)
EXTENDS SourceCache

CONSTANT Searches   \* "arn"; "list", with a SearchInputMapper; "get", with a SearchGetInputMapper

vars == sourceVars

(* One item is asked for: by Get, by an ARN, or by a SearchGetInputMapper. *)
OneItem(record) == record.r.name # "any"
FromGet(record) == record.op = "GET" \/ record.arn # Nothing

-----------------------------------------------------------------------------
(* How a call begins.                                                      *)

UsesCache(record) == ~record.ignore

(* What Get finds in the cache is its answer. Search, which called it for  *)
(* an ARN, then goes on to store what Get returned.                        *)
Found(record, answer) ==
  IF record.op = "SEARCH" /\ answer.kind = "items"
  THEN [record EXCEPT !.at = "again", !.left = {record.r}, !.got = answer.items]
  ELSE Done(record, answer)

Get(c, record) ==
  /\ ready' = TRUE
  /\ IF GetHit(record.r, ~UsesCache(record))
     THEN Set(c, Found(record, GetCached(record.r)))
     ELSE Set(c, [record EXCEPT !.at = "get", !.left = {record.r}])
  /\ UNCHANGED <<world, steady, cache>>

List(c, record) ==
  LET s == record.r.scope IN
  /\ ready' = TRUE
  /\ IF ListHit(s, ~UsesCache(record))
     THEN Set(c, Done(record, ListCached(s)))
     ELSE Set(c, [record EXCEPT !.at = "list", !.left = In(s)])
  /\ UNCHANGED <<world, steady, cache>>

SearchARN(c, record) == Get(c, [record EXCEPT !.arn = record.r])

(* SearchCustom looks in no cache: a list of what the query matches, or    *)
(* one GetFunc.                                                            *)
SearchList(c, record, found) ==
  /\ Set(c, [record EXCEPT !.at = "list", !.left = found])
  /\ UNCHANGED <<world, steady, cache, ready>>

SearchGet(c, record) ==
  /\ Set(c, [record EXCEPT !.at = "get", !.left = {record.r}])
  /\ UNCHANGED <<world, steady, cache, ready>>

(* A scope that is not the source's; an ARN that does not parse or is of   *)
(* another scope; a query the mapper does not take.                        *)
Refuse(c, record) ==
  /\ \E e \in {"NOSCOPE", "OTHER"} : Set(c, Done(record, Error(Failure(e, "other"))))
  /\ UNCHANGED <<world, steady, cache, ready>>

Search(c, how, s, ignore) ==
  /\ call[c].at = "idle"
  /\ \/ how = "arn" /\ \E r \in In(s) : SearchARN(c, NewCall("SEARCH", r, ignore))
     \/ how = "get" /\ \E r \in In(s) : SearchGet(c, NewCall("SEARCH", r, ignore))
     \/ /\ how = "list"
        /\ \E found \in (SUBSET In(s)) \ {{}} :
             SearchList(c, NewCall("SEARCH", Whole(s), ignore), found)

(* DisableList: no items, and no error (a List that finds none).           *)
Begin(c, method, s, ignore) ==
  /\ call[c].at = "idle"
  /\ \/ method = "GET" /\ \E r \in In(s) : Get(c, NewCall("GET", r, ignore))
     \/ method = "LIST" /\ List(c, NewCall("LIST", Whole(s), ignore))
     \/ method = "SEARCH" /\ \E how \in Searches : Search(c, how, s, ignore)
     \/ Refuse(c, NewCall(method, Whole(s), ignore))

-----------------------------------------------------------------------------
(* What AWS answers.                                                       *)

Failed(record, error) ==
  [record EXCEPT !.at = "error", !.got = {}, !.answer = Error(error)]

FetchOne(c) ==
  /\ call[c].at = "get"
  /\ \/ /\ ~call[c].ended
        /\ call[c].r \in world
        /\ Set(c, [call[c] EXCEPT !.at = "store", !.got = {Read(call[c].r, 0)}])
     \/ \E e \in FailuresFor(call[c], call[c].r) : Set(c, Failed(call[c], e))
  /\ UNCHANGED <<world, steady, cache, ready>>

(* mutant: when the last name was dealt with the call goes on listing      *)
AfterInputEndless(record) == record

(* After the last name what was got is stored.                             *)
AfterInput(record) ==
  IF record.left # {} THEN record
  ELSE IF record.got = {} THEN Done(record, Items({}))
  ELSE [record EXCEPT !.at = "store", !.left = {i.of : i \in record.got}]

(* listInternal comes to one name: GetFunc returns the item, the name was  *)
(* not listed or is gone, GetFunc's error is dropped, or a page is one.    *)
FetchInput(c, r) ==
  LET rest == [call[c] EXCEPT !.left = @ \ {r}] IN
  /\ call[c].at = "list"
  /\ \/ /\ ~call[c].ended
        /\ r \in world
        /\ Set(c, AfterInput([rest EXCEPT !.got = @ \cup {Read(r, 0)}]))
     \/ r \notin world /\ Set(c, AfterInput(rest))
     \/ r \in world /\ Set(c, AfterInput([rest EXCEPT !.failed = TRUE]))
     \/ \E e \in AnyFailure(call[c]) : Set(c, Failed(call[c], e))
  /\ UNCHANGED <<world, steady, cache, ready>>

-----------------------------------------------------------------------------
(* Storing. A Search before the first Get or List has no cache to store in *)
(* (a nil *Cache, which stores nothing).                                   *)

Stored(op, item) ==
  CASE op = "LIST"                -> WithListed(cache, item, cacheDuration)
    [] op # "LIST" /\ ready  -> WithItem(cache, item, cacheDuration)
    [] op # "LIST" /\ ~ready -> cache

(* The StoreItem of Get, List or SearchCustom, one item after the other.   *)
StoreNext(c, item) ==
  LET rest == call[c].left \ {item.of} IN
  /\ call[c].at = "store"
  /\ item.of \in call[c].left
  /\ cache' = Stored(call[c].op, item)
  /\ Set(c, IF rest # {} THEN [call[c] EXCEPT !.left = rest]
            ELSE IF call[c].op = "SEARCH"
            THEN [call[c] EXCEPT !.at = "again", !.left = {i.of : i \in call[c].got}]
            ELSE Done(call[c], Items(call[c].got)))
  /\ UNCHANGED <<world, steady, ready>>

(* The StoreItem of Search, of what SearchARN or SearchCustom returned.    *)
StoreAgain(c, item) ==
  LET rest == call[c].left \ {item.of} IN
  /\ call[c].at = "again"
  /\ item.of \in call[c].left
  /\ cache' = Stored("SEARCH", item)
  /\ Set(c, IF rest = {} THEN Done(call[c], Items(call[c].got))
            ELSE [call[c] EXCEPT !.left = rest])
  /\ UNCHANGED <<world, steady, ready>>

(* The error of a Search is stored where nobody looks.                     *)
StoreFailure(c) ==
  /\ call[c].at = "error"
  /\ cache' = IF FromGet(call[c])
              THEN WithError(cache, GetErrorKey(call[c].r), call[c].answer.error, cacheDuration)
              ELSE IF call[c].op = "LIST"
              THEN WithError(cache, ListErrorKey(call[c].r.scope), call[c].answer.error, cacheDuration)
              ELSE cache
  /\ Set(c, Done(call[c], call[c].answer))
  /\ UNCHANGED <<world, steady, ready>>

-----------------------------------------------------------------------------
Step(c) ==
  \/ \E m \in Methods, s \in OwnScopes, ignore \in BOOLEAN : Begin(c, m, s, ignore)
  \/ FetchOne(c)
  \/ \E r \in call[c].left : FetchInput(c, r)
  \/ \E item \in call[c].got : StoreNext(c, item) \/ StoreAgain(c, item)
  \/ StoreFailure(c)

Next ==
  /\ Environment \/ \E c \in Callers : Step(c)
  /\ UNCHANGED source

Spec == Init /\ [][Next]_vars

(* Types, and what a call holds at each step.                              *)
TypeOK ==
  /\ CacheTypeOK
  /\ \A c \in Callers :
       /\ call[c].at \in {"idle", "get", "list", "store", "again", "error", "done"}
       /\ call[c].left \subseteq Resources
       /\ call[c].at \in {"get", "list", "store", "again"} => call[c].left # {}
       /\ call[c].at = "done" => call[c].answer.kind # "none"
=============================================================================
