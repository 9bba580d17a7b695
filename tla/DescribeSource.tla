--------------------------- MODULE DescribeSource ---------------------------
(***************************************************************************)
(* DescribeOnlySource (sources/describe_source.go): Get, List and Search   *)
(* with one Describe API behind them. Every method looks in the cache,     *)
(* calls AWS and stores what it got in separate steps, and nothing stops   *)
(* another call in between.                                                *)
(***************************************************************************)
EXTENDS SourceCache

vars == sourceVars

(* One item is asked for, by Get or by Search with an ARN.                 *)
OneItem(record) == record.op = "GET" \/ record.arn # Nothing

-----------------------------------------------------------------------------
(* How a call begins.                                                      *)

UsesCache(record) == ~record.ignore

(* mutant: an item found in the cache is stored again                      *)
GetRestores(c, record) ==
  /\ ready' = TRUE
  /\ IF ~GetHit(record.r, ~UsesCache(record))
     THEN Set(c, [record EXCEPT !.at = "fetch", !.left = {record.r}])
     ELSE IF GetCached(record.r).kind = "error" THEN Set(c, Done(record, GetCached(record.r)))
     ELSE Set(c, [record EXCEPT !.at = "store", !.got = GetCached(record.r).items])
  /\ UNCHANGED <<world, steady, cache>>

Get(c, record) ==
  /\ ready' = TRUE
  /\ IF GetHit(record.r, ~UsesCache(record))
     THEN Set(c, Done(record, GetCached(record.r)))
     ELSE Set(c, [record EXCEPT !.at = "fetch", !.left = {record.r}])
  /\ UNCHANGED <<world, steady, cache>>

List(c, record) ==
  LET s == record.r.scope IN
  /\ ready' = TRUE
  /\ IF ListHit(s, ~UsesCache(record))
     THEN Set(c, Done(record, ListCached(s)))
     ELSE Set(c, [record EXCEPT !.at = "fetch", !.left = In(s)])
  /\ UNCHANGED <<world, steady, cache>>

(* searchARN is Get; the cache is made there and not by Search itself      *)
SearchARN(c, record) == Get(c, [record EXCEPT !.arn = record.r])

(* searchCustom never looks in the cache; found is what the query matches. *)
SearchCustom(c, record, found) ==
  /\ Set(c, [record EXCEPT !.at = "fetch", !.left = found])
  /\ UNCHANGED <<world, steady, cache, ready>>

(* A scope that is not the source's, a List that is not supported, an ARN  *)
(* that does not parse or is of another scope, a query no mapper takes.    *)
Refuse(c, record) ==
  /\ \E e \in {"NOSCOPE", "NOTFOUND", "OTHER"} : Set(c, Done(record, Error(Failure(e, "other"))))
  /\ UNCHANGED <<world, steady, cache, ready>>

Begin(c, method, s, ignore) ==
  /\ call[c].at = "idle"
  /\ \/ method = "GET" /\ \E r \in In(s) : Get(c, NewCall("GET", r, ignore))
     \/ method = "LIST" /\ List(c, NewCall("LIST", Whole(s), ignore))
     \/ method = "SEARCH" /\ \E r \in In(s) : SearchARN(c, NewCall("SEARCH", r, ignore))
     \/ /\ method = "SEARCH"
        /\ \E found \in (SUBSET In(s)) \ {{}} :
             SearchCustom(c, NewCall("SEARCH", Whole(s), ignore), found)
     \/ Refuse(c, NewCall(method, Whole(s), ignore))

-----------------------------------------------------------------------------
(* What AWS answers.                                                       *)

Failed(record, error) ==
  [record EXCEPT !.at = "error", !.got = {}, !.answer = Error(error)]

(* One DescribeFunc and OutputMapper. More than one item is an error, none *)
(* is NOTFOUND, and UseListForGet picks the one that was asked for.        *)
FetchOne(c) ==
  /\ call[c].at = "fetch"
  /\ OneItem(call[c])
  /\ \/ /\ ~call[c].ended
        /\ call[c].r \in world
        /\ Set(c, [call[c] EXCEPT !.at = "store", !.got = {Read(call[c].r, 0)}])
     \/ \E e \in FailuresFor(call[c], call[c].r) : Set(c, Failed(call[c], e))
  /\ UNCHANGED <<world, steady, cache, ready>>

(* After the last page what was got is stored, or answered if it is none.  *)
AfterPage(record) ==
  IF record.left # {} THEN record
  ELSE IF record.got = {} THEN Done(record, Items({}))
  ELSE [record EXCEPT !.at = "store", !.left = {i.of : i \in record.got}]

(* describe: NextPage and OutputMapper. AWS is read page by page; without  *)
(* a paginator there is one page.                                          *)
FetchPage(c, page) ==
  LET more == {Read(r, 0) : r \in page \cap world} IN
  /\ call[c].at = "fetch"
  /\ ~OneItem(call[c])
  /\ \/ ~call[c].ended /\ Set(c, AfterPage([call[c] EXCEPT !.got = @ \cup more, !.left = @ \ page]))
     \/ \E e \in AnyFailure(call[c]) : Set(c, Failed(call[c], e))
  /\ UNCHANGED <<world, steady, cache, ready>>

-----------------------------------------------------------------------------
(* Storing. A Search before the first Get or List has no cache to store in *)
(* (a nil *Cache, which stores nothing).                                   *)

StoreOne(c) ==
  /\ call[c].at = "store"
  /\ OneItem(call[c])
  /\ \E item \in call[c].got : cache' = WithItem(cache, item, cacheDuration)
  /\ Set(c, Done(call[c], Items(call[c].got)))
  /\ UNCHANGED <<world, steady, ready>>

(* for _, item := range items: one StoreItem after the other               *)
StoreNext(c, item) ==
  LET rest == call[c].left \ {item.of} IN
  /\ call[c].at = "store"
  /\ ~OneItem(call[c])
  /\ item.of \in call[c].left
  /\ cache' = CASE call[c].op = "LIST"              -> WithListed(cache, item, cacheDuration)
                [] call[c].op = "SEARCH" /\ ready  -> WithItem(cache, item, cacheDuration)
                [] call[c].op = "SEARCH" /\ ~ready -> cache
  /\ Set(c, IF rest = {} THEN Done(call[c], Items(call[c].got))
            ELSE [call[c] EXCEPT !.left = rest])
  /\ UNCHANGED <<world, steady, ready>>

(* mutant: the error is stored before WrapAWSError                         *)
StoreRawFailure(c) ==
  /\ call[c].at = "error"
  /\ cache' = IF OneItem(call[c])
              THEN WithRawError(cache, GetErrorKey(call[c].r), call[c].answer.error, cacheDuration)
              ELSE IF call[c].op = "LIST"
              THEN WithRawError(cache, ListErrorKey(call[c].r.scope), call[c].answer.error, cacheDuration)
              ELSE cache
  /\ Set(c, Done(call[c], call[c].answer))
  /\ UNCHANGED <<world, steady, ready>>

(* The error of a searchCustom is stored where nobody looks.               *)
StoreFailure(c) ==
  /\ call[c].at = "error"
  /\ cache' = IF OneItem(call[c])
              THEN WithError(cache, GetErrorKey(call[c].r), call[c].answer.error, cacheDuration)
              ELSE IF call[c].op = "LIST"
              THEN WithError(cache, ListErrorKey(call[c].r.scope), call[c].answer.error, cacheDuration)
              ELSE cache
  /\ Set(c, Done(call[c], call[c].answer))
  /\ UNCHANGED <<world, steady, ready>>

-----------------------------------------------------------------------------
Step(c) ==
  \/ \E m \in Methods, s \in OwnScopes, ignore \in BOOLEAN : Begin(c, m, s, ignore)
  \/ FetchOne(c)
  \/ \E page \in (SUBSET call[c].left) \ {{}} : FetchPage(c, page)
  \/ StoreOne(c)
  \/ \E item \in call[c].got : StoreNext(c, item)
  \/ StoreFailure(c)

Next ==
  /\ Environment \/ \E c \in Callers : Step(c)
  /\ UNCHANGED source

Spec == Init /\ [][Next]_vars

-----------------------------------------------------------------------------
(* Types, and what a call holds at each step.                              *)
TypeOK ==
  /\ CacheTypeOK
  /\ \A c \in Callers :
       /\ call[c].at \in {"idle", "fetch", "store", "error", "done"}
       /\ call[c].left \subseteq Resources
       /\ call[c].at = "fetch" => call[c].left # {}
       /\ call[c].at = "store" => call[c].got # {}
       /\ call[c].at = "done" => call[c].answer.kind # "none"
=============================================================================
