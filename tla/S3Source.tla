------------------------------ MODULE S3Source ------------------------------
(***************************************************************************)
(* The S3 source (sources/s3/s3.go), which is none of the generic ones.    *)
(* getImpl asks for the location of a bucket, then for its parts (ACL,     *)
(* tags, ...) with a goroutine each, and drops those that fail. listImpl   *)
(* passes every bucket to getImpl, cache included, and then stores again   *)
(* what it was given. The field CacheDuration is never read.               *)
(***************************************************************************)
EXTENDS SourceCache

CONSTANT Parts   \* what is asked for besides the location

vars == sourceVars

Duration == DefaultCacheDuration   \* the constant CacheDuration

-----------------------------------------------------------------------------
UsesCache(record) == ~record.ignore

(* After a bucket of a List comes the next one; after the last what was    *)
(* got is stored. A Get has its answer.                                    *)
AfterBucket(record, answer) ==
  LET rest == [record EXCEPT !.got = @ \cup answer.items, !.lacks = {}, !.on = Nothing,
                             !.answer = NoAnswer] IN
  CASE record.op # "LIST" -> Done(record, answer)
    [] record.op = "LIST" /\ rest.left # {} -> [rest EXCEPT !.at = "next"]
    [] record.op = "LIST" /\ rest.left = {} /\ rest.got = {} -> Done(rest, Items({}))
    [] OTHER -> [rest EXCEPT !.at = "again", !.left = {i.of : i \in rest.got}]

(* getImpl, up to its first request                                        *)
Look(c, record, r) ==
  Set(c, IF GetHit(r, ~UsesCache(record)) THEN AfterBucket(record, GetCached(r))
         ELSE [record EXCEPT !.at = "location", !.on = r])

Get(c, record) ==
  /\ ready' = TRUE
  /\ Look(c, record, record.r)
  /\ UNCHANGED <<world, steady, cache>>

List(c, record) ==
  LET s == record.r.scope IN
  /\ ready' = TRUE
  /\ Set(c, IF ListHit(s, ~UsesCache(record)) THEN Done(record, ListCached(s))
            ELSE [record EXCEPT !.at = "list"])
  /\ UNCHANGED <<world, steady, cache>>

(* A scope that is not the source's; an ARN that does not parse or is of   *)
(* another scope. The cache is made for those as well.                     *)
Refuse(c, record) ==
  /\ \E e \in {"NOSCOPE", "OTHER"} : Set(c, Done(record, Error(Failure(e, "other"))))
  /\ ready' \in {ready, TRUE}
  /\ UNCHANGED <<world, steady, cache>>

(* Search is Get with the name in the ARN, and is not told from it.        *)
Begin(c, method, s, ignore) ==
  /\ call[c].at = "idle"
  /\ \/ method \in {"GET", "SEARCH"} /\ \E r \in In(s) : Get(c, NewCall("GET", r, ignore))
     \/ method = "LIST" /\ List(c, NewCall("LIST", Whole(s), ignore))
     \/ Refuse(c, NewCall(method, Whole(s), ignore))

-----------------------------------------------------------------------------
(* What AWS answers.                                                       *)

Failed(record, error) == [record EXCEPT !.at = "error", !.answer = Error(error)]

(* ListBuckets gives all of them; its error has not been wrapped.          *)
ListBuckets(c) ==
  LET found == In(call[c].r.scope) \cap world IN
  /\ call[c].at = "list"
  /\ \/ /\ ~call[c].ended
        /\ Set(c, IF found = {} THEN Done(call[c], Items({}))
                  ELSE [call[c] EXCEPT !.at = "next", !.left = found])
     \/ \E e \in AnyFailure(call[c]) : Set(c, Failed(call[c], Unwrapped(e)))
  /\ UNCHANGED <<world, steady, cache, ready>>

(* listImpl calls getImpl with its own ignoreCache; an error found in the  *)
(* cache is the end of that bucket.                                        *)
NextBucket(c, r) ==
  /\ call[c].at = "next"
  /\ r \in call[c].left
  /\ Look(c, [call[c] EXCEPT !.left = @ \ {r}], r)
  /\ UNCHANGED <<world, steady, cache, ready>>

GetLocation(c) ==
  /\ call[c].at = "location"
  /\ \/ /\ ~call[c].ended
        /\ call[c].on \in world
        /\ Set(c, [call[c] EXCEPT !.at = "parts"])
     \/ \E e \in FailuresFor(call[c], call[c].on) : Set(c, Failed(call[c], e))
  /\ UNCHANGED <<world, steady, cache, ready>>

(* mutant: what a failed request leaves out is not seen to be missing      *)
GetPartsUnnoticed(c) ==
  /\ call[c].at = "parts"
  /\ \E lost \in SUBSET Parts : Set(c, [call[c] EXCEPT !.at = "store", !.lacks = lost])
  /\ UNCHANGED <<world, steady, cache, ready>>

(* The goroutines and wg.Wait: the parts whose requests failed are lost.   *)
(* Any of them may be, and nobody sees them come in one by one.            *)
GetParts(c) ==
  LET certain == IF call[c].ended \/ call[c].on \notin world THEN Parts ELSE {} IN
  /\ call[c].at = "parts"
  /\ \E lost \in SUBSET Parts :
       /\ certain \subseteq lost
       /\ Set(c, [call[c] EXCEPT !.at = "store", !.lacks = lost,
                                !.failed = @ \/ lost # {}])
  /\ UNCHANGED <<world, steady, cache, ready>>

-----------------------------------------------------------------------------
(* Storing.                                                                *)

(* The item is made of what was received and stored, whatever it lacks.    *)
StoreOne(c) ==
  LET item == Part(call[c].on, 0, call[c].lacks) IN
  /\ call[c].at = "store"
  /\ cache' = WithItem(cache, item, Duration)
  /\ Set(c, AfterBucket(call[c], Items({item})))
  /\ UNCHANGED <<world, steady, ready>>

(* ToAttributesCase could not convert the bucket.                          *)
Unconverted(c) ==
  /\ call[c].at = "store"
  /\ Set(c, Failed(call[c], Failure("OTHER", "other")))
  /\ UNCHANGED <<world, steady, cache, ready>>

(* The error of getImpl ends a Get, and in a List (continue) the bucket;   *)
(* that of ListBuckets ends the List.                                      *)
StoreFailure(c) ==
  LET record == call[c]  error == record.answer.error IN
  /\ record.at = "error"
  /\ IF record.on = Nothing
     THEN /\ cache' = WithError(cache, ListErrorKey(record.r.scope), error, Duration)
          /\ Set(c, Done(record, record.answer))
     ELSE /\ cache' = WithError(cache, GetErrorKey(record.on), error, Duration)
          /\ Set(c, AfterBucket([record EXCEPT !.failed = @ \/ error.sees # "NOTFOUND"],
                                record.answer))
  /\ UNCHANGED <<world, steady, ready>>

(* The StoreItem of listImpl, of what getImpl made or found in the cache.  *)
StoreListed(c, item) ==
  LET rest == call[c].left \ {item.of} IN
  /\ call[c].at = "again"
  /\ item.of \in call[c].left
  /\ cache' = WithListed(cache, item, Duration)
  /\ Set(c, IF rest = {} THEN Done(call[c], Items(call[c].got))
            ELSE [call[c] EXCEPT !.left = rest])
  /\ UNCHANGED <<world, steady, ready>>

-----------------------------------------------------------------------------
Step(c) ==
  \/ \E m \in Methods, s \in OwnScopes, ignore \in BOOLEAN : Begin(c, m, s, ignore)
  \/ ListBuckets(c)
  \/ \E r \in call[c].left : NextBucket(c, r)
  \/ GetLocation(c)
  \/ GetParts(c)
  \/ StoreOne(c)
  \/ Unconverted(c)
  \/ StoreFailure(c)
  \/ \E item \in call[c].got : StoreListed(c, item)

Next ==
  /\ Environment \/ \E c \in Callers : Step(c)
  /\ UNCHANGED source

Spec == Init /\ [][Next]_vars

(* Types, and what a call holds at each step.                              *)
TypeOK ==
  /\ CacheTypeOK
  /\ \A c \in Callers :
       /\ call[c].at \in {"idle", "list", "next", "location", "parts", "store", "error",
                          "again", "done"}
       /\ call[c].left \subseteq Resources
       /\ call[c].at \in {"next", "again"} => call[c].left # {}
       /\ call[c].at \in {"location", "parts", "store"} => call[c].on \in Resources
       /\ call[c].lacks \subseteq Parts
       /\ call[c].at = "done" => call[c].answer.kind # "none"
=============================================================================
