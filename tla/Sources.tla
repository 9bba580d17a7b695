------------------------------ MODULE Sources ------------------------------
(***************************************************************************)
(* The sources of the process: each is of one of four kinds, with a cache  *)
(* and callers of its own and nothing in common with the others, so one    *)
(* source of each kind stands for all. What the kinds promise is stated    *)
(* once, here, with what some of them do not keep.                         *)
(***************************************************************************)
EXTENDS SourceCache

CONSTANTS ListsTags, Searches, Parts   \* those of the kinds

(* The field CacheDuration of the S3 source is never read, and never set.  *)
ASSUME FieldUnset == \A s \in Sources : s.kind = "S3Source" => s.CacheDuration = 0

Describe == INSTANCE DescribeSource
GetList == INSTANCE GetListSource
AlwaysGet == INSTANCE AlwaysGetSource
S3 == INSTANCE S3Source

Next ==
  \/ source.kind = "DescribeOnlySource" /\ Describe!Next
  \/ source.kind = "GetListSource" /\ GetList!Next
  \/ source.kind = "AlwaysGetSource" /\ AlwaysGet!Next
  \/ source.kind = "S3Source" /\ S3!Next

Spec == Init /\ [][Next]_sourceVars

-----------------------------------------------------------------------------
(* The types of the kind of source it is.                                  *)
TypeOK ==
  CASE source.kind = "DescribeOnlySource" -> Describe!TypeOK
    [] source.kind = "GetListSource"      -> GetList!TypeOK
    [] source.kind = "AlwaysGetSource"    -> AlwaysGet!TypeOK
    [] source.kind = "S3Source"           -> S3!TypeOK

(* Nothing read from the cache is stored again, but by an S3 List, once,   *)
(* and by an AlwaysGetSource without end (AlwaysGetSource_stale.cfg): an   *)
(* answer is as old as the cache duration allows.                          *)
NeverProlonged ==
  CASE source.kind \in {"DescribeOnlySource", "GetListSource"} -> NotTooOld
    [] source.kind = "S3Source" -> StoredAgainOnce
    [] OTHER -> TRUE

(* What GetListSource stores for the time in its field, and not for        *)
(* cacheDuration: the item of a Get (get_list_source.go:170) and the error *)
(* of a List whose tags cannot be had (:214). Outside IAM nobody sets the  *)
(* field.                                                                  *)
StoredUnset(e) ==
  /\ source.kind = "GetListSource" /\ source.CacheDuration = 0
  /\ e.key.index \in {"item", "list-error"}

(* "Returns the duration that items should be cached for"                  *)
(* (describe_source.go:78): whatever method stored it, an entry is kept    *)
(* for cacheDuration from when it was read, with one exception: of a       *)
(* GetListSource whose CacheDuration is not set, the item of a Get and the *)
(* error of a List are not kept at all.                                    *)
KeptUnlessUnset ==
  \A e \in cache : e.left + e.age >= cacheDuration \/ (StoredUnset(e) /\ e.left = 0)

(* The kind of an error is what WrapAWSError makes of what AWS said, in    *)
(* the first answer and in those from the cache. GetListSource remembers   *)
(* the error of a Get as AWS gave it, and then says OTHER of what was      *)
(* NOTFOUND, but no more than that.                                        *)
ErrorsKeepKind ==
  /\ source.kind # "GetListSource" => ErrorKindKept
  /\ \A c \in Callers :
       LET error == call[c].answer.error IN error.sees \in {error.wraps, "OTHER"}
=============================================================================
