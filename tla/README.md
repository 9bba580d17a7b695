# aws-source: a verification project in TLA+

`aws-source` answers questions about an AWS account. It connects to NATS,
registers one *source* per item type and region with a discovery engine, and
answers GET, LIST and SEARCH queries with *items* and with queries for the items
they link to. The code is in `src/`; the paths below are relative to it.

The project models the parts of the program that decide *what* is answered and
*whether* it is: the limiter in front of AWS and the adapters that wait for it, the
concurrent list pipeline, the caches of the three generic sources and of S3, the
start and the stop of the process, and the links of all the adapters against the
sources they lead to.
`PROJECT.json` lists every run, the code each definition stands for, the hazards
and the theorems.

## Inventory

| Part | Code | State | Operations |
|---|---|---|---|
| Process | `cmd/root.go`, `main.go` | flags, tracing, engine, limiters, exit code | start, initialise the regions, signals, stop, exit |
| AWS settings | `cmd/root.go:345` | none: a function of the settings | `GetAWSConfig` |
| Limiter | `sources/limit_bucket.go` | tokens in a channel, a refill goroutine | `Start`, `Wait`, `refill` |
| Describe source | `sources/describe_source.go` | a cache | `Get`, `List`, `Search` |
| Get-and-list source | `sources/get_list_source.go` | a cache | `Get`, `List`, `Search` |
| Always-get source | `sources/always_get_source.go` | a cache, per List three channels and its goroutines | `Get`, `List`, `Search`, `listInternal` |
| ARN, scope, errors | `sources/util.go` | none | `ParseARN`, `FormatScope`, `WrapAWSError` |
| Attribute case | `sources/case.go` | none | `ToAttributesCase` |
| S3 | `sources/s3/s3.go` | a cache, per Get eighteen goroutines | `Get`, `List`, `Search` |
| Adapters | `sources/<service>/` (about 100) | none but a limiter they share | an input mapper and an output mapper each, given to a generic source |
| Enrichment | `lambda/function.go`, `iam`, `elb`, `rds`, `networkfirewall`, ... | none | the requests an adapter sends beyond the one that describes |
| Tracing | `tracing/tracing.go` | exporters | init, shutdown |

How they interact. The process makes, for every region, five limiters and some
hundred sources, adds the sources to the engine and starts it. The engine runs
queries on its own goroutines, `MaxParallelExecutions` at a time; a query goes to
every source of its type and scope. A source looks the query up in its cache,
asks AWS through the adapter, whose calls wait for a token of the limiter, maps
the output to items, stores them and answers. Items carry linked queries, which
the engine runs in their turn.

What is hard. *Concurrency*: callers and refills share a channel; a List of an
always-get source runs a caller, a dispatcher, a collector and up to `MaxParallel`
workers over four channels; queries on one source share its cache with no lock
across lookup, request and store. *Failure*: a page, a worker, the tags of an item
or one of several requests may fail half way; goroutines may panic; a region may
fail after others were set up. *Time*: entries expire, errors are remembered,
contexts end. *Order*: signals against start-up and stop, deferred cancels against
the goroutines they cancel, `os.Exit` against hooks.

What would make each part correct (where the code falls short is said under "What the
runs found"):

- limiter: never more than the capacity and the refills of the time allow; who
  waits is served or leaves when its context ends; a refill never blocks;
- list pipeline: an answer without an error has tried every input and holds what
  was got; no send on a closed channel; never more than `MaxParallel` at once;
  every goroutine ends;
- caches: no answer older than the cache duration; asked to ignore the cache, a
  source answers what is there now, and never with the end of another caller's
  context; what is stored is kept for that duration; a list is complete or an error;
  an error keeps its kind; NOTFOUND means not there;
- adapters under a limiter: what waits is throttled, every query ends, and what the end
  of one caller's context costs an item that is then cached for all is known: most
  queries fail instead, some drop a part, some put a note in the place of the tags;
- adapters: a link leads to a source that takes its query; an item is found again by
  its own name and by its ARN; two ends of a link agree how a change travels; a
  query goes to one source;
- process: it serves every region or does not start; mixed settings are refused;
  every signal ends it and none cuts its stop short; limiters work as long as it
  serves; tracing is shut down.

## Modules

| Module | Models | State and actions against the code |
|---|---|---|
| `LimitBucket` | `limit_bucket.go` | `tokens`, `recvq` are the channel and its blocked receivers; `refiller` walks through the select, the sends and the report of `refill`; a caller calls `Wait`, gets a token or leaves; contexts end |
| `ListPipeline` | `listInternal` | one program counter per goroutine, `permissions` is `len(permissions)`; a send on an unbuffered channel and its receive are one step; pages and outputs fail, `GetFunc` fails or panics |
| `ListContract` | what a List promises | list, fetch or drop, answer or fail: `ListPipeline` refines it with `listed`, `fetched` and the answer computed from its own state |
| `AdapterRequests` | the requests of 19 queries, one per way of asking | a sequence of requests each: whether it waits, what comes next, and what happens when it fails (the query fails, it is noted, dropped or sent again) |
| `Calls` | queries under way in adapters that share a bucket | each caller sends its requests one after the other; those that wait take `LimitBucket`'s own actions, and contexts end at any moment |
| `SourceCache` | what the four sources share | the account (`world`), the cache, the calls under way and whether their contexts have ended, time; the properties asked of every source |
| `DescribeSource`, `GetListSource`, `AlwaysGetSource` | the three sources | `Begin` is a call up to its lookup, `FetchOne`/`FetchPage`/`FetchInput` one request, `StoreOne`/`StoreNext` one `StoreItem`, `StoreFailure` one `StoreError`: between them other calls run |
| `S3Source` | `s3.go` | the location of a bucket, then its parts in any order, each dropped when it fails; a List that gets every bucket, from the cache if it can, and stores it again |
| `Sources` | one source of any of the four kinds | picks the kind's next-state relation and says what of the common properties each kind keeps |
| `AuthConfig` | `GetAWSConfig` | the checks as a function from a record of settings to a strategy or an error |
| `Startup` | `root.go`, `main.go` | the main goroutine from the flags to the exit, the regions one at a time, the limiters it starts, the signals and the channel with room for one of them, the stop of the engine as a step of its own, the deferred cancel, the queries that wait on a bucket |
| `Adapters` | what an adapter is | constructors: the generic source, its scopes, the names GET takes, the search of its own, the links |
| `ComputeAdapters`, `ContainerAdapters`, `DeliveryAdapters`, `DataAdapters`, `NetworkAdapters` | the 107 adapters of `sources/<service>/` | one constant each: the links of its output mapper, and of its constructor what the source takes |
| `Discovery` | linked queries meeting sources | the item a walk is at, the query asked for it, and whether a source answers; the scopes, `ParseARN`, `ResourceID` and the searches by ARN of the generic sources |

`MC*` modules give the constants their values. `*Proofs` modules hold theorems.
`Startup` extends `AuthConfig`; the four sources extend `SourceCache` and `Sources`
instantiates them; `Calls` extends `LimitBucket` and `AdapterRequests`; `Discovery`
extends the five catalogues, and they `Adapters`; `ListPipeline` instantiates
`ListContract`. Definitions whose comment begins with "mutant:" are plausible slips
of the definition after them, used to see that a property notices.

`ListPipeline` and `AlwaysGetSource` model the same code at two grains:
`AlwaysGetSource` takes `listInternal` as one request per input and looks at the
cache; `ListPipeline` leaves the cache out and looks at the goroutines. What
`ListPipeline` promises of an answer (`ImplementsContract`) is what
`AlwaysGetSource` takes for granted.

`Calls` looks at what lies between a source and AWS: the request that `FetchOne` of a
source takes in one step is there a sequence of requests, waits and failures, and
`ShortOnlyWhereListed` says of its answers, which the source caches for every caller,
what the end of the one caller's context may have cost them. A caller of `Calls` is a caller of `LimitBucket`
(`ImplementsBucket`), so that what holds of the bucket alone holds of it in use.

In the same way `Discovery` leaves out caches, failures and time: a resource is there
whenever it is asked for, so that a query goes unanswered only because of what the
code makes of it. The name of a resource is the sequence of its parts
(`<<"cluster", "name">>`), and a mapper that joins, splits or shortens a name changes
that sequence. The shapes of ARNs are AWS's; those used here are the ones the
repository's tests show, and a type none of them shows has an unknown shape, which
no property speaks of. Types that no source of this program has (`ip`, `dns`,
`kms-key`, ...) are for other programs to answer and are left out likewise.

### What is not in the repository

The cache library (`sdpcache`), the discovery engine, NATS and AWS are modelled
from how the code uses them and marked external. Of the cache: an item is found by
its name whatever method stored it, by LIST only when a LIST stored it; storing it
again replaces it; an error under the key of a call comes before items; an entry is
served until the first tick after its time; a source whose cache was never made
(`ready`) stores nothing and finds nothing. SEARCH keys are stored and never looked
up, and are left out. Of the engine: it calls a source at any time, several calls at
once, and returns what it answers. Of the Go runtime: blocked receivers queue in
order, a send hands over to the first, a ticker keeps one tick, select picks any
ready case.

## Runs

| Run | Expect | Properties | What it shows |
|---|---|---|---|
| `bucket` | pass | `TypeOK`, `RefillNeverBlocks`, `WindowBound`, `WaitersServed`, `CancelledLeave`, `RefillerEnds` | callers taking, parking and giving up while the bucket refills and reports: the refill never blocks, no window of time grants more than its allowance, nobody waits for ever in a live bucket, a cancelled request leaves, and the goroutine ends with its context |
| `list` | pass | `TypeOK`, `BoundedParallel`, `ReleaseNeverBlocks`, `NoSendAfterClose`, `ImplementsContract`, `Answers`, `WorkersEnd` | every interleaving of pages, workers, failures and one panic fewer than there are permissions: bounded parallelism, no send on a closed channel, the List is answered, its workers end, and the pipeline implements ListContract |
| `list_leak` | violation | `ErrorEndsGoroutines` | after a page error the dispatcher waits for ever on a channel nobody closes |
| `startup` | pass | `TypeOK`, `ServesEverything`, `OneStrategy`, `NoLimiterLeftBehind`, `SignalEnds`, `StopNotCutShort` | all 320 configurations, two regions, any step failing, two signals at any time, also while the engine stops |
| `startup_refill` | violation | `QueriesAnswered` | the buckets are no longer refilled once InitializeAwsSourceEngine has returned |
| `calls` | pass | `CallsTypeOK`, `PaidBound`, `ShortOnlyWhereListed`, `EveryQueryEnds`, `ImplementsBucket` | adapters answering queries over one limiter, request by request, with failures, pages and contexts that end: what waits is throttled, every query but a Lambda function's ends, the end of a context shortens the answers of six queries and puts notes into the tags of eleven, and the callers keep to what `LimitBucket` assumes |
| `calls_burst` | violation | `AllBound` | the pages of a list of EC2 volumes are requested without a token, so that nothing bounds what EC2 is sent |
| `sources` | pass | `TypeOK`, `FreshWhenAsked`, `NeverProlonged`, `KeptUnlessUnset`, `ErrorsKeepKind`, `FreshListsAll` | two calls of any method on a source of each of the four kinds, a `GetListSource` with its `CacheDuration` set and one without, each with its lookup, its requests and its stores apart, while the resource comes and goes, time passes and contexts end |
| `describe_partial` | violation | `ListsAll` | the items of a List are stored one by one and another List looks in between |
| `alwaysget_stale` | violation | `NotTooOld` | a search by ARN stores what it found in the cache and so keeps it for ever |
| `discovery` | pass | `TypeOK`, `LinkAnswered`, `FoundAgain`, `FoundByArn`, `OtherScopeRefused`, `BlastMirrored`, `AskedOnce` | every link of the 107 adapters followed to the source of its target, every item asked for again by its unique attribute and by ARNs of either region, and how many sources each query goes to |
| `discovery_arn` | violation | `DocumentedSearch` | sources documented as searched by ARN take what follows the first separator of the ARN for the name and do not find it |

`sources` (3.7 million states) takes about two minutes, `calls` one, the others
seconds. Every property of a passing run has a mutant of the code that breaks
it (`PROJECT.json`).

### Bounds

- `bucket`: two callers, capacity 3, rate 2, windows of two ticks. The rate does not
  divide the capacity, so a refill is cut short by the room left as well as by the
  rate; two callers are enough to queue, overtake and leave. The theorems drop the
  bounds.
- `list`: four inputs over two pages with two permissions, so that the dispatcher
  waits for a permission with work left, and one panic. With as many panics as
  permissions a List never ends (see below): `MaxPanics < MaxParallel` is the
  condition under which it does.
- `calls`: capacity 1, rate 1, one caller that is asked every query and one that
  competes with it for the tokens, since what a query does to another is to take its
  token. `MoreMax = 1`: one page or item after the first, enough to come back to a
  request. A window is followed over one tick and, for `c1`, over one query
  (`OneQueryWatched`: `PolicyGet`, which waits most); the theorem `PaidThrottled` has
  no such bound. `calls_burst` counts further, to nine requests without a token
  (`UnpaidMax`), as its counterexample needs more pages than the bucket has tokens.
- `sources`: two calls at once on one name. The races are between two calls, each of
  any method; a third adds orders and no new pair. Each kind is given what makes its
  own behaviour hard (`MCSources`): contexts that end before their calls for
  `DescribeOnlySource`, which stores errors; for one `GetListSource` a `CacheDuration`
  (as the IAM sources set) and a tick during a call (`Deadline = 1`), for another no
  `CacheDuration` (as all others have it). AWS answers 400 for what does not exist only
  (`BadRequests = FALSE`), as an S3 List is cut short by any other 400
  (`S3IsAskedWell`). S3 has one part
  besides the location. Ages are told apart up to `told`, above which no property of
  that kind tells them. An answer that is given is taken before anything else happens
  (`AnswersTakenAtOnce`): nothing else reads it, and what is asked of it only gets
  easier to keep. `describe_partial` needs two names to have half a list.
- `startup`: two regions, so that a later one may fail after an earlier was set up,
  all 320 combinations of settings, and two signals (`SignalsMax`): one that is taken
  and one that finds the channel full, or comes while the engine stops. `startup_refill` needs one region and one signal.
- `discovery`: two regions of one account: enough for a link or an ARN to be of the
  scope at hand or of another, and for a source to be added once or twice. The theorems
  take any finite set of them.

Callers are alike in the sources and the runs use that symmetry (they check
invariants only); those of `calls` are not. Deadlock is checked wherever the system never
stops: not in `list` (a List ends), `startup` (the process exits) and `discovery` (a
walk ends at a query nobody answers).

### Fairness

Only what the Go scheduler and the clock give: a goroutine that can take a step takes
it (`WF` of the refiller, of the caller, the dispatcher, the collector and each
worker of a List, of the main goroutine), a tick comes again and again, a reader of
the report reads, and a context that has ended is noticed (`GiveUp`). The two places
where a step is enabled only now and then need `SF`: the refiller's `select` has to
see the end of its context although ticks go on being ready (Go's select chooses
among ready cases at random), and a query waiting on a bucket gets its turn among
others in `startup_refill`, where it makes the counterexample stronger: even so the
query waits for ever. In `calls` time passes, the bucket is refilled
(nobody reads its report, as in `root.go`), who waits stays in line, a request that can be sent is sent and
one on its way has an outcome: AWS answers or the SDK's attempt ends. In `startup` the
main goroutine goes on, so `e.Stop()` is taken to return. Nothing else is
assumed of callers, of AWS, of signals and of the ends of contexts: they may never
come. `EveryQueryEnds` excepts a query whose bucket has lost its refill goroutine
(`startup_refill`) until its context ends.

## What is proved

TLAPS proves, for every value of the constants that the named assumptions allow:

| Theorem | Of | From |
|---|---|---|
| `LimitBucketProofs!TypeCorrect`, `NeverBlocks`, `Throttled` | `TypeOK`, `RefillNeverBlocks`, `WindowBound` | `BucketAssumption` |
| `LimitBucketProofs!QueuedOnce` | who is in the queue waits, and is there once | `BucketAssumption` |
| `CallsProofs!CallsImplement` | `ImplementsBucket`: every step of a query is a step of `LimitBucket` or invisible in it | nothing |
| `CallsProofs!CallsTypes`, `PaidThrottled`, `ShortWhereListed` | `CallsTypeOK`, `PaidBound`, `ShortOnlyWhereListed` | `BucketAssumption`, `CallsAssumption` |
| `ListPipelineProofs!TypeCorrect`, `ParallelismBounded`, `PermissionsFit`, `ClosedAfterLastSend` | `TypeOK`, `BoundedParallel`, `ReleaseNeverBlocks`, `NoSendAfterClose` | `PipelineAssumption` |
| `ListPipelineProofs!Implements` | `ImplementsContract`: every step of the pipeline is a step of `ListContract` or invisible in it | `PipelineAssumption` |
| `StartupProofs!TypeCorrect`, `AllRegionsServed`, `OneStrategyServes`, `LimitersEnded`, `StopNotInterrupted` | `TypeOK`, `ServesEverything`, `OneStrategy`, `NoLimiterLeftBehind`, `StopNotCutShort` | `StartupAssumption` |
| `SourcesProofs!TypeCorrect`, `ToldFresh` | `TypeOK`, `FreshWhenAsked`, of a source of any kind | `SourceCacheAssumption`, `FieldUnset` |
| `SourcesProofs!KindOfErrors`, `FreshListIsWhole` | `ErrorsKeepKind`, `FreshListsAll` | the same, and `S3IsAskedWell` |
| `SourcesProofs!KeptLongEnough` | `KeptUnlessUnset` | `SourceCacheAssumption`, `FieldUnset`, and `Measured` of the sources |
| `S3AgeProofs!NothingProlongs` | `NeverProlonged` | the same, and `ShortCalls` |
| `DiscoveryProofs!DiscoveryTypes`, `DiscoveryLinkAnswered`, `DiscoveryFoundAgain`, `DiscoveryFoundByArn`, `DiscoveryOtherScopeRefused`, `DiscoveryAskedOnce`, `DiscoveryBlastMirrored` | `TypeOK`, `LinkAnswered`, `FoundAgain`, `FoundByArn`, `OtherScopeRefused`, `AskedOnce`, `BlastMirrored` | `ScopesAssumption` |

*The bucket.* `RefillNeverBlocks` is not inductive: that a send has room rests on what
the refill computed earlier, while callers took tokens in between. `CapacityInv` says
that the tokens there and the ones still to send fit together, which takers only make
easier. `WindowBound` needs a potential: tokens granted in a window, plus the tokens
there, plus those the refill in progress and a buffered tick may still add, never
exceed the capacity and the refills of the window's ticks (`WindowInv`). A grant moves
one unit of it, a tick adds one refill to both sides.

*The calls.* `CallsImplement` comes first: with it `WindowInv` and the rest hold of the
composition without being proved again. `PaidBound` is then a matter of who holds
what: `Holding` are the callers that have their token and have not sent their
request, and `PaidInv` says that the requests sent, and the callers of `Holding`, are
no more than the tokens granted in the window and one of each caller, which may have
had its token before the window opened. `ShortWhereListed` has a half for what is
dropped and one for what is noted. The first rests on `LostInv`: a query that
dropped something because its context had ended (`Lost`) and is not one of the six
of `Dropping` is a role that still has requests to send which it needs, and cannot send
them in a context that has ended (`Doomed`), so it ends with an error. The second,
`NotedInv`, needs only that no other query has a request whose failure is noted. That a
caller handed
a token by the refill is one that waits is `QueueInv`.

*The pipeline.* Four facts carry each other. `PermissionInv`: permissions in the
channel and workers that hold one (panicked ones included) add up to `MaxParallel`;
that bounds the calls and leaves room for every release. `JobInv` ties the numbers of
the inputs received to the workers started. `CloseInv` orders the ends of the
goroutines: the channel of items is closed only when no worker is left to send.
`ItemInv` says where each item that was got is. The refinement then takes one lemma
per goroutine. What the permissions add up to is counted with `Cardinality`, whose
changes the lemmas `InMove` and `InMoveCardinality` state once.

*Start-up.* `SetupInv` has four parts, and none is inductive without the others.
`RegionInv` ties the regions set up so far, the sources added and the place of the main
goroutine in the loop over the regions to each other, so that what is left undone at an
exit is known. `LimiterInv` says which buckets run under which context: those of the
regions already set up, while `InitializeAwsSourceEngine` runs, and none once its
deferred cancel has run. `HandledInv` says that from `signal.Notify` to the exit signals
go to the channel, which is what keeps one from ending the process while its engine
stops (`StopNotInterrupted`). `Types` is the rest. The checks of `GetAWSConfig` need no invariant: that two strategies are
never mixed (`OneStrategyServes`) is a fact about the function, proved over all settings
and not over the 320 combinations of the run.

*The sources.* One invariant, `SourcesInv`, does for the four kinds. `CacheFits` is what
holds of an entry: the kind of its error, what NOTFOUND says, how long it is kept (or,
of a `GetListSource` that leaves its field unset, that it is not) and how old it may
become. `CallFits` is what holds of a call: what it began with (`Begun`),
what it holds at each step of its source (`Shape`, one predicate for each kind), and of
an answer what is asked of answers (`AnswerFits`). The properties follow from it at
once, `TypeOK` included. That it is kept is one lemma for each operation of each kind
and three for the environment. The parts are operators of the state they are about, so that a
lemma about them speaks of any cache and any call. `FreshListsAll` shows why the
invariant is needed: of a call under way it says that what has always existed was got or
is still to come (`Gathered`), which a page, a request and a NOTFOUND move from one side
to the other, and which a `NOTFOUND` in the cache would spoil, if it could be of
something that was always there (`Truthful`). The lemmas `DescribeNames`,
`GetListNames`, `AlwaysGetNames` and `S3Names` say that a definition of `SourceCache` is
the same seen through each instance.

*S3.* That what a List stores again is not stored again for ever is the hardest of these
(module `S3AgeProofs`). An entry that is kept for longer than one duration in all has a
twin that was stored by a List and lasts as long (`AgesOfCache`): a List that begins
finds the twin and stores nothing. Only Lists that had looked before it was stored go
on and may store the bucket once more. What they have got, and what they may find in
the cache, is bounded by the time they have been under way (`AgesOfList`, `AgesOfTwo`,
which relates two Lists), and what was listed since they began outlasts them. The last
step needs `ShortCalls`: with a deadline longer than the cache duration TLC shows a chain
of overlapping Lists that passes the bound.

*The links.* The catalogue is data of the program and no parameter; what is general is
the account and the regions, and with them the scopes, the sources and the ARNs. The
argument has two halves. The first goes through the catalogue with one step for each
adapter, a family at a time: what it is by itself (`Sound`: its type, where its
resources are, whether its unique attribute and its ARNs are names that GET takes), that
each of its links asks for what the adapter of the target takes in that scope or is
listed as dead (`Fits`), and that links which lead back say the same of a change
(`Agree`). `Catalogue` joins the families; it needs `FamiliesApart`, that no type is in
two of them, as what a link leads to is found by its type. The second half knows no
adapter by name. `ScopesAre` and `SourceIs` say what scopes there are and which of them
a source has, `Reached` and `Counted` which sources a query comes to and how many (a
bijection with the regions for the types added in every region, one otherwise), and
`PlainAnswered`, `ArnAnswered` and `Nowhere` when one of them answers. The walk needs an
invariant, `WalkInv`, because the properties speak of a query when it was answered or
could not be: what is known of it then is what was known when it was asked, so the
invariant keeps who asked (`Asked`: a source, a scope of it, and a link, the unique
attribute or an ARN), that the item is one a source has (`At`), and that an answer came
from a source that gives it. That items of equal type are items of one adapter
(`ItemsApart`) is what lets `AdapterOf` name it. `LinkAnswered`, `FoundAgain` and
`FoundByArn` are proved both ways: what is not listed is answered, and what is listed
is not, in any account.

*What the hypotheses say.* Each is a condition on the constants that the program or AWS
is known to keep, or names the case where the code does not do what it promises:

- `ScopesAssumption`: the account's number is neither `aws` nor `global` nor empty, and
  the regions are a finite set, not empty, of names that are not empty. With an account
  `aws` the policies of the account and those of AWS would have one scope.
- `SourceCacheAssumption`: the cache duration is positive, there is a name, and `"any"`,
  which stands for no name, is none.
- `FieldUnset`: nothing in the program sets the `CacheDuration` of the S3 source, and
  nothing reads it (`s3.go:70`).
- `S3IsAskedWell`: AWS answers no request for an S3 bucket that exists with 400. The S3
  List does not wrap the error of `ListBuckets` and takes a NOTFOUND of a bucket for its
  end (`s3.go:624`). Of the other kinds nothing is assumed.
- `Measured`: ages are told apart up to the cache duration, a bound of the model and
  not of the code.
- `ShortCalls`: the context of a call to S3 ends within the ten minutes an entry is kept.

*Only model-checked*: the liveness properties (`WaitersServed`, `CancelledLeave`,
`RefillerEnds`, `Answers`, `WorkersEnd`, `SignalEnds`, `EveryQueryEnds`), which need
ENABLED and fairness and are out of the prover's reach, and the runs that expect a
violation. Every invariant and every refinement a passing run checks is also a theorem.

## What the runs found

Violations that a run shows, each against a sentence of the repository
(`PROJECT.json`, "findings"):

- `startup_refill`: the refill goroutines end when `InitializeAwsSourceEngine`
  returns, because of the deferred cancel at `root.go:586`; after that a bucket never
  gets another token.
- `list_leak`: after a page fails, `listInternal` returns and leaves its dispatcher
  and collector waiting for ever on channels nobody closes.
- `describe_partial`: a List that looks while another stores its items answers the
  part stored so far, and reports no error.
- `alwaysget_stale`: a search by ARN stores again what it got from the cache.
- `calls_burst`: the request of a paginated list (`describe_source.go:378`) passes no
  limiter, so that a list of EC2 volumes sends its pages as fast as EC2 answers, where
  `root.go:552` says the source is limited to half the rate of EC2.
- `discovery_arn`: sources documented as searched by ARN do not find their items by
  theirs.

Seen while modelling, and not given a run of their own:

- `limit_bucket.go:90`: a refill that fills the bucket exactly is reported as not full.
- `always_get_source.go:270`: a `GetFunc` that panics keeps its permission; with
  `MaxParallel` of them the List never ends.
- `always_get_source.go:260`: an item whose `GetFunc` fails is missing from a List
  that is answered, and cached, as complete. `ListContract` states it as it is.
- `describe_source.go:202`: an error that is the end of one caller's context is stored
  and answered to all who look for the cache duration. `FreshWhenAsked` shows that a
  caller that ignores the cache is spared.
- `util.go:106`: `WrapAWSError` takes every 400 for NOTFOUND, and AWS answers 400 also
  for throttling, expired credentials and refused access: that a resource which exists
  is not there is then answered, and remembered. So NOTFOUND does not mean what
  `util.go:103` says of it, and no property claims that it does.
- `get_list_source.go`: what Get found (:170), and the error of the tags of a List
  (:214), are stored with the duration of the field and not its default. Only the IAM
  sources set the field: in the others (`route53/hosted_zone.go`,
  `rds/db_parameter_group.go`) both are expired as they are stored, and a List cut short
  leaves its first items to be listed. `KeptUnlessUnset` shows that it is these two and
  nothing else, and `KeptLongEnough` proves it. The error of a Get is stored before it
  is wrapped (:153), so that the second caller gets another kind than the first; an item that cannot be mapped is
  dropped from a List, and counts as not there in the model. `ErrorsKeepKind` says how
  far the kind may change. A List ends with the error of the tags of any of its items
  (:211), where a Get notes it among the tags. A search by ARN checks
  that the source has the ARN's scope and reads the scope of the request (:250): for
  `iam-policy`, which has two, an AWS policy's ARN finds the account's policy of the
  same name. `OtherScopeRefused` names that exception.
- `root.go:568`, `:654`: one IAM bucket per region for a limit that is the account's,
  and the sources of IAM (but for those of users) and Network Manager once per region
  although their scope is the account: a query for one of their items asks AWS in every region and gets it as
  many times (`AskedInEveryRegion`).
- `s3/s3.go:633`: a List stores again what Get answered from its cache, so that a
  bucket is answered for twice the duration (`StoredAgainOnce` shows: never longer);
  the duration is the constant, and the field `CacheDuration` is never read (:70). A
  part that cannot be read is dropped and the bucket cached without it (:240).
- `site.go:84`: the limiter given to the constructor is used by no request.
  `role.go:271` and its likes in `policy.go` and `user.go` list tags without waiting.
- Lists that stop at the first page: groups (`iam/group.go:28`), instance profiles,
  health checks of Route 53, parameter groups of RDS.
- `iam/user.go:35`, `elb/elb.go:44`, `networkfirewall/firewall.go:50`,
  `dynamodb/table.go:71`, `lambda/function.go:88`: what a request that failed would
  have told is left out without a word, also when it failed because the context had
  ended, and the item is cached for all (`Dropping`). `iam/role.go:281`,
  `policy.go:259`, `user.go:158` and others put a note of the error in the place of the
  tags and return no error: a note that is about one caller's context is cached for all
  in the same way (`Noting`). `ShortOnlyWhereListed` shows that no other query does.
  `cloudwatch/alarm.go:103` notes the error of the tags, as `util.go:116` would have
  it, and then returns it all the same.
- `root.go:218`: `os.Exit` skips the hook that shuts tracing down (:312), so that what
  is still buffered when a signal stops the process is lost.
- `util.go:76`: `Type` panics on an ARN whose resource has no separator, and
  `target_group.go:142` asks the type of any ARN it is given.
- `lambda/function.go:60`, `:79`, `:518`: `continue` after a failed page asks for the
  same page for ever, also once the context has ended (`EveryQueryEnds` excepts
  `FunctionGet`). `lambda/layer_version.go:56` formats a pointer into the unique
  attribute. `alarm.go:239`: a search by a metric no alarm watches describes alarms
  with an empty list of names, which is all of them.
- `route53/health_check.go` and `cloudwatch/metric_links.go`, `s3` and `lambda`, and
  the two EFS adapters differ about how a change travels (`Disagreeing`).

The links no source answers are `DeadGets`, `DeadSearches` and `LostArns` in
`Discovery`, which `LinkAnswered` shows to be all of them: an instance profile asked
for by its id where GET takes a name, a placement group by name where it takes an id,
a network interface by the id of its attachment, a Direct Connect gateway in the scope
`global`, sites under a type registered in the plural, policies of AWS linking to
roles in the scope of AWS, the users of a policy and the groups of a user (the sources of
users are the only ones of IAM with a region in their scope, `user.go:187`: the policy
asks in the scope of the account, the user asks for its groups in its own), the ARN of
any user, which names no region, and whatever is named by an ARN whose tail is not a name.
`NotFoundAgain` are the twelve types whose items are not found by their own unique
attribute.

## What is not modelled

Attribute values and their case: `case.go` is a pure conversion by reflection, whose one
hazard (two keys of a map becoming one, the map's order deciding) needs values to be
told apart. Health of items, tags beyond whether they can be read, the wording of
errors, exporters of tracing, the NATS protocol, Terraform mappings in comments, and the
making of the SDK clients. The health endpoint (`root.go:163`) reads whether the engine
is connected and answers; it changes nothing. `UseListForGet` is taken as a Get. Of the
adapters: what a nil field makes panic; and of the requests they send, those whose shape
is that of one of the 19 of `AdapterRequests` (an unpaginated describe, a paginated one,
tags per page or per item) are not repeated, which is why the adapters are "partly"
modelled: the links and searches of all are in the catalogue, the requests of one per
shape in `AdapterRequests`. The pool that enriches the roles and policies of a List
(`iter.Map`) is several callers there, one item after the other each.

## Plan

Done in this order: limiter, pipeline with its contract, sources and cache, start-up,
catalogue of links, proofs of the first two; then S3 and contexts that end in the four
sources, the adapters' requests under the limiter with their proofs; then the proofs of
start-up and of the four sources, and of the links. Next:

1. An abstract cache that each generic source implements, and the proof that it does.
2. `ParseScope`, `Type` and `ResourceID` over small ARNs, character by character only
   as far as the separators.
3. `ListContract` in the place of the one-step `FetchInput` of `AlwaysGetSource`, so that
   the cache and the goroutines meet in one module.
