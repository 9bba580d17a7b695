--------------------------- MODULE GetListSource ---------------------------
(***************************************************************************)
(* GetListSource (sources/get_list_source.go): GetFunc and ListFunc both   *)
(* return whole items; tags may need a call of their own for each. A       *)
(* resource that ItemMapper cannot map is left out of a List and an error  *)
(* of a Get: for the source it does not exist, nor does it here.           *)
(***************************************************************************)
EXTENDS SourceCache

CONSTANT
  ListsTags   \* ListTagsFunc is set

vars == sourceVars

-----------------------------------------------------------------------------
(* How a call begins.                                                      *)

UsesCacheAlways(record) == TRUE   \* mutant: ignoreCache is not passed on
UsesCache(record) == ~record.ignore

Get(c, record) ==
  /\ ready' = TRUE
  /\ IF GetHit(record.r, ~UsesCache(record))
     THEN Set(c, Done(record, GetCached(record.r)))
     ELSE Set(c, [record EXCEPT !.at = "get", !.left = {record.r}])
  /\ UNCHANGED <<world, steady, cache>>

List(c, record) ==
  LET s == record.r.scope IN
  /\ ready' = TRUE
  /\ IF ListHit(s, ~UsesCache(record))
     THEN Set(c, Done(record, ListCached(s)))
     ELSE Set(c, [record EXCEPT !.at = "list", !.left = In(s)])
  /\ UNCHANGED <<world, steady, cache>>

(* SearchARN: the scope of the ARN must be one of the source's; the item   *)
(* is looked for under the name in the ARN and the scope of the request.   *)
HasArnScope(arn, scope) == arn.scope \in OwnScopes

Arns == [scope : OwnScopes \cup {"elsewhere"}, name : Names]

SearchARN(c, arn, scope, ignore) ==
  LET record == [NewCall("SEARCH", [scope |-> scope, name |-> arn.name], ignore)
                   EXCEPT !.arn = arn] IN
  IF HasArnScope(arn, scope) THEN Get(c, record)
  ELSE /\ Set(c, Done(record, Error(Failure("NOSCOPE", "other"))))
       /\ UNCHANGED <<world, steady, cache, ready>>

(* SearchCustom neither looks in the cache nor stores anything.            *)
SearchCustom(c, record, found) ==
  /\ Set(c, [record EXCEPT !.at = "list", !.left = found])
  /\ UNCHANGED <<world, steady, cache, ready>>

(* A scope the source has not; an ARN that does not parse.                 *)
Refuse(c, record) ==
  /\ \E e \in {"NOSCOPE", "OTHER"} : Set(c, Done(record, Error(Failure(e, "other"))))
  /\ UNCHANGED <<world, steady, cache, ready>>

(* DisableList: no items, and no error (a List that finds none).           *)
Begin(c, method, s, ignore) ==
  /\ call[c].at = "idle"
  /\ \/ method = "GET" /\ \E r \in In(s) : Get(c, NewCall("GET", r, ignore))
     \/ method = "LIST" /\ List(c, NewCall("LIST", Whole(s), ignore))
     \/ method = "SEARCH" /\ \E arn \in Arns : SearchARN(c, arn, s, ignore)
     \/ /\ method = "SEARCH"
        /\ \E found \in (SUBSET In(s)) \ {{}} :
             SearchCustom(c, NewCall("SEARCH", Whole(s), ignore), found)
     \/ Refuse(c, NewCall(method, Whole(s), ignore))

-----------------------------------------------------------------------------
(* What AWS answers.                                                       *)

Fails(record, error) == [record EXCEPT !.at = "error", !.answer = Error(error)]

(* GetFunc and ItemMapper                                                  *)
FetchOne(c) ==
  /\ call[c].at = "get"
  /\ \/ /\ ~call[c].ended
        /\ call[c].r \in world
        /\ Set(c, [call[c] EXCEPT !.at = "tags", !.got = {Read(call[c].r, 0)}])
     \/ \E e \in FailuresFor(call[c], call[c].r) : Set(c, Fails(call[c], e))
  /\ UNCHANGED <<world, steady, cache, ready>>

(* After the last page: a Search answers, a List goes through its items.   *)
AfterPage(record) ==
  IF record.left # {} THEN record
  ELSE IF record.op = "SEARCH" \/ record.got = {} THEN Done(record, Items(record.got))
  ELSE [record EXCEPT !.at = "items", !.left = {i.of : i \in record.got}]

(* ListFunc or SearchFunc, which follows the pages of the API and gives up *)
(* at the first error; that one is not cached.                             *)
FetchPage(c, page) ==
  LET more == {Read(r, 0) : r \in page \cap world} IN
  /\ call[c].at = "list"
  /\ \/ ~call[c].ended /\ Set(c, AfterPage([call[c] EXCEPT !.got = @ \cup more, !.left = @ \ page]))
     \/ \E e \in AnyFailure(call[c]) : Set(c, Done(call[c], Error(e)))
  /\ UNCHANGED <<world, steady, cache, ready>>

-----------------------------------------------------------------------------
(* Tags and storing.                                                       *)

(* Get: tags that cannot be had are replaced by the error. The item is     *)
(* stored for s.CacheDuration, be it 0.                                    *)
StoreOne(c) ==
  /\ call[c].at = "tags"
  /\ \E item \in call[c].got : cache' = WithItem(cache, item, source.CacheDuration)
  /\ Set(c, Done(call[c], Items(call[c].got)))
  /\ UNCHANGED <<world, steady, ready>>

(* mutant: the field is read here too                                      *)
StoreNextField(c, item) ==
  LET rest == call[c].left \ {item.of} IN
  /\ call[c].at = "items"
  /\ ~(ListsTags /\ call[c].ended)
  /\ item.of \in call[c].left
  /\ cache' = WithListed(cache, item, source.CacheDuration)
  /\ Set(c, IF rest = {} THEN Done(call[c], Items(call[c].got))
            ELSE [call[c] EXCEPT !.left = rest])
  /\ UNCHANGED <<world, steady, ready>>

(* List: the tags of one item, and the item stored before the next.        *)
StoreNext(c, item) ==
  LET rest == call[c].left \ {item.of} IN
  /\ call[c].at = "items"
  /\ ~(ListsTags /\ call[c].ended)
  /\ item.of \in call[c].left
  /\ cache' = WithListed(cache, item, cacheDuration)
  /\ Set(c, IF rest = {} THEN Done(call[c], Items(call[c].got))
            ELSE [call[c] EXCEPT !.left = rest])
  /\ UNCHANGED <<world, steady, ready>>

(* List: tags that cannot be had end it. The error is stored for           *)
(* s.CacheDuration, and what was stored before it stays.                   *)
TagsFail(c) ==
  /\ ListsTags
  /\ call[c].at = "items"
  /\ \E e \in AnyFailure(call[c]) :
       /\ cache' = WithRawError(cache, ListErrorKey(call[c].r.scope), e, source.CacheDuration)
       /\ Set(c, Done(call[c], Error(e)))
  /\ UNCHANGED <<world, steady, ready>>

(* Get: the error is stored as AWS gave it, and returned wrapped.          *)
StoreFailure(c) ==
  /\ call[c].at = "error"
  /\ cache' = WithRawError(cache, GetErrorKey(call[c].r), call[c].answer.error, cacheDuration)
  /\ Set(c, Done(call[c], call[c].answer))
  /\ UNCHANGED <<world, steady, ready>>

-----------------------------------------------------------------------------
Step(c) ==
  \/ \E m \in Methods, s \in OwnScopes, ignore \in BOOLEAN : Begin(c, m, s, ignore)
  \/ FetchOne(c)
  \/ \E page \in (SUBSET call[c].left) \ {{}} : FetchPage(c, page)
  \/ StoreOne(c)
  \/ \E item \in call[c].got : StoreNext(c, item)
  \/ TagsFail(c)
  \/ StoreFailure(c)

Next ==
  /\ Environment \/ \E c \in Callers : Step(c)
  /\ UNCHANGED source

Spec == Init /\ [][Next]_vars

(* Types, and what a call holds at each step.                              *)
TypeOK ==
  /\ CacheTypeOK
  /\ \A c \in Callers :
       /\ call[c].at \in {"idle", "get", "list", "tags", "items", "error", "done"}
       /\ call[c].left \subseteq Resources
       /\ call[c].at \in {"get", "list", "items"} => call[c].left # {}
       /\ call[c].at = "done" => call[c].answer.kind # "none"
=============================================================================
