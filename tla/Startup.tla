------------------------------ MODULE Startup ------------------------------
(***************************************************************************)
(* The life of the process (cmd/root.go): read the configuration, set up   *)
(* one region after the other in InitializeAwsSourceEngine, start the      *)
(* engine, serve queries until a signal, stop. More signals may come at    *)
(* any moment, also while the engine stops.                                *)
(*                                                                         *)
(* A region's limiter is one LimitBucket whose refills are single steps,   *)
(* once a second; module LimitBucket has the steps inside a refill.        *)
(* Queries stand for requests to a rate-limited source of their region.    *)
(***************************************************************************)
EXTENDS AuthConfig, FiniteSets

CONSTANTS
  Regions,      \* number of configured regions, set up in the order 1, 2, ...
  Queries,      \* requests the engine runs at the same time
  MaxCapacity,  \* LimitBucket.MaxCapacity
  RefillRate,   \* LimitBucket.RefillRate
  AuthConfigs,  \* the configurations the process may be started with
  SignalsMax    \* bound: signals sent to the process

ASSUME StartupAssumption ==
  /\ Regions \in Nat
  /\ MaxCapacity \in Nat \ {0}
  /\ RefillRate \in Nat \ {0}
  /\ AuthConfigs \subseteq Configs
  /\ SignalsMax \in Nat

VARIABLES
  main,        \* where the main goroutine is
  auth,        \* AwsAuthConfig
  region,      \* the region InitializeAwsSourceEngine works on
  regional,    \* regions whose sources were added
  global,      \* regions that added the global sources
  globalDone,
  bucketCtx,   \* rateLimitCtx of each region
  tokens,      \* tokens in each region's bucket
  tracing,     \* the tracer provider
  engine,      \* the discovery engine
  handled,     \* signal.Notify has been called
  signals,     \* SIGINTs and SIGTERMs sent so far
  sigs,        \* those in the channel, which has room for one
  status,      \* how the process ended
  query        \* each query: its state and region

setupVars == <<auth, region, regional, global, globalDone>>
limitVars == <<bucketCtx, tokens>>
processVars == <<tracing, engine, handled, signals, sigs, status>>
vars == <<main, setupVars, limitVars, processVars, query>>

RegionSet == 1..Regions
NoQuery == [state |-> "none", region |-> 0]
Alive == main # "exited"

Init ==
  /\ main = "pre-run"
  /\ auth \in AuthConfigs
  /\ region = 1
  /\ regional = {}
  /\ global = {}
  /\ globalDone = FALSE
  /\ bucketCtx = [r \in RegionSet |-> "none"]
  /\ tokens = [r \in RegionSet |-> 0]
  /\ tracing = "off"
  /\ engine = "new"
  /\ handled = FALSE
  /\ signals = 0
  /\ sigs = 0
  /\ status = "running"
  /\ query = [q \in Queries |-> NoQuery]

(* os.Exit, log.Fatal and the default action of a signal end every         *)
(* goroutine at once and run nothing deferred.                             *)
Exit(how) ==
  /\ main' = "exited"
  /\ status' = how
  /\ query' = [q \in Queries |-> NoQuery]

-----------------------------------------------------------------------------
(* Before the regions.                                                     *)

PreRun ==
  /\ main = "pre-run"
  /\ \/ /\ main' = "token"
        /\ tracing' = "on"
        /\ UNCHANGED <<status, query>>
     \/ Exit("fatal") /\ UNCHANGED tracing
  /\ UNCHANGED <<setupVars, limitVars, engine, handled, signals, sigs>>

(* API key client, JWT and seed, or neither; malformed ones are fatal, and *)
(* so is a list of no regions. NewEngine may fail, and then Run returns.   *)
TokenClient ==
  /\ main = "token"
  /\ \/ Regions > 0 /\ main' = "config" /\ UNCHANGED <<status, query>>
     \/ main' = "returning" /\ UNCHANGED <<status, query>>
     \/ Exit("fatal")
  /\ UNCHANGED <<setupVars, limitVars, tracing, engine, handled, signals, sigs>>

-----------------------------------------------------------------------------
(* InitializeAwsSourceEngine, for one region at a time.                    *)

(* The function returns: every rateLimitCancel it deferred runs.           *)
KeepBuckets == UNCHANGED bucketCtx   \* mutant: nothing is cancelled
CancelBuckets ==
  bucketCtx' = [r \in RegionSet |->
                  IF bucketCtx[r] = "live" THEN "cancelled" ELSE bucketCtx[r]]

(* GetAWSConfig succeeds, and loading it from the environment may not.     *)
GetConfig ==
  /\ main = "config"
  /\ region <= Regions
  /\ Credentials(auth) # "error"
  /\ main' = "sts"
  /\ UNCHANGED <<setupVars, limitVars, processVars, query>>

ConfigError ==
  /\ main = "config"
  /\ region <= Regions
  /\ CancelBuckets
  /\ main' = "returning"
  /\ UNCHANGED <<setupVars, tokens, processVars, query>>

(* GetCallerIdentity fails or takes longer than ten seconds: log.Fatal     *)
AccountUnknown ==
  /\ main = "sts"
  /\ Exit("fatal")
  /\ UNCHANGED <<setupVars, limitVars, tracing, engine, handled, signals, sigs>>

AccountFound ==
  /\ main = "sts"
  /\ bucketCtx' = [bucketCtx EXCEPT ![region] = "live"]
  /\ main' = "sources"
  /\ UNCHANGED <<setupVars, tokens, processVars, query>>

(* mutant: globalDone is never set                                         *)
AddSourcesForgetful ==
  /\ main = "sources"
  /\ regional' = regional \cup {region}
  /\ global' = IF globalDone THEN global ELSE global \cup {region}
  /\ region' = region + 1
  /\ main' = "config"
  /\ UNCHANGED <<auth, globalDone, limitVars, processVars, query>>

AddSources ==
  /\ main = "sources"
  /\ regional' = regional \cup {region}
  /\ global' = IF globalDone THEN global ELSE global \cup {region}
  /\ globalDone' = TRUE
  /\ region' = region + 1
  /\ main' = "config"
  /\ UNCHANGED <<auth, limitVars, processVars, query>>

InitReturns ==
  /\ main = "config"
  /\ region > Regions
  /\ CancelBuckets
  /\ main' = "start"
  /\ UNCHANGED <<setupVars, tokens, processVars, query>>

-----------------------------------------------------------------------------
(* Run, after the engine was built, or not.                                *)

(* return: cobra runs PersistentPostRun and main returns                   *)
RunReturns ==
  /\ main = "returning"
  /\ Exit("returned")
  /\ tracing' = "shut down"
  /\ UNCHANGED <<setupVars, limitVars, engine, handled, signals, sigs>>

StartEngine ==
  /\ main = "start"
  /\ \/ /\ main' = "notify"
        /\ engine' = "serving"
        /\ UNCHANGED <<status, query>>
     \/ Exit("exit 1") /\ UNCHANGED engine
  /\ UNCHANGED <<setupVars, limitVars, tracing, handled, signals, sigs>>

Notify ==
  /\ main = "notify"
  /\ main' = "notified"
  /\ handled' = TRUE
  /\ UNCHANGED <<setupVars, limitVars, tracing, engine, signals, sigs, status, query>>

(* mutant: the channel has no room, only a receiver gets the signal        *)
SignalUnbuffered ==
  /\ Alive
  /\ signals < SignalsMax
  /\ signals' = signals + 1
  /\ \/ ~handled /\ Exit("killed") /\ UNCHANGED sigs
     \/ /\ handled
        /\ sigs' = IF main = "wait" THEN 1 ELSE sigs
        /\ UNCHANGED <<main, status, query>>
  /\ UNCHANGED <<setupVars, limitVars, tracing, engine, handled>>

(* A signal nobody asked to be told of kills the process; one that finds   *)
(* the channel full is forgotten.                                          *)
Signal ==
  /\ Alive
  /\ signals < SignalsMax
  /\ signals' = signals + 1
  /\ \/ ~handled /\ Exit("killed") /\ UNCHANGED sigs
     \/ handled /\ sigs' = 1 /\ UNCHANGED <<main, status, query>>
  /\ UNCHANGED <<setupVars, limitVars, tracing, engine, handled>>

(* <-sigs finds nothing in the channel.                                    *)
AwaitSignal ==
  /\ main = "notified"
  /\ sigs = 0
  /\ main' = "wait"
  /\ UNCHANGED <<setupVars, limitVars, processVars, query>>

(* mutant: the first signal restores the default action of the others      *)
TakeSignalAndReset ==
  /\ main \in {"notified", "wait"}
  /\ sigs = 1
  /\ sigs' = 0
  /\ handled' = FALSE
  /\ main' = "stopping"
  /\ UNCHANGED <<setupVars, limitVars, tracing, engine, signals, status, query>>

TakeSignal ==
  /\ main \in {"notified", "wait"}
  /\ sigs = 1
  /\ sigs' = 0
  /\ main' = "stopping"
  /\ UNCHANGED <<setupVars, limitVars, tracing, engine, handled, signals, status, query>>

(* e.Stop(); os.Exit, 0 or 1 as it went. The engine serves until then.     *)
StopEngine ==
  /\ main = "stopping"
  /\ \/ engine' = "stopped" /\ Exit("exit 0")
     \/ engine' = "serving" /\ Exit("exit 1")
  /\ UNCHANGED <<setupVars, limitVars, tracing, handled, signals, sigs>>

-----------------------------------------------------------------------------
(* Time and load.                                                          *)

(* mutant: a refill never looks at MaxCapacity                             *)
SecondUncapped ==
  /\ Alive
  /\ tokens' = [r \in RegionSet |->
                  IF bucketCtx[r] # "live" THEN tokens[r] ELSE tokens[r] + RefillRate]
  /\ UNCHANGED <<main, setupVars, bucketCtx, processVars, query>>

(* A second passes: every live bucket is refilled.                         *)
Second ==
  /\ Alive
  /\ tokens' = [r \in RegionSet |->
                  IF bucketCtx[r] # "live" THEN tokens[r]
                  ELSE IF MaxCapacity - tokens[r] < RefillRate THEN MaxCapacity
                  ELSE tokens[r] + RefillRate]
  /\ UNCHANGED <<main, setupVars, bucketCtx, processVars, query>>

Ask(q, r) ==
  /\ engine = "serving"
  /\ Alive
  /\ query[q].state = "none"
  /\ r \in regional
  /\ query' = [query EXCEPT ![q] = [state |-> "waiting", region |-> r]]
  /\ UNCHANGED <<main, setupVars, limitVars, processVars>>

(* Wait gets a token and the AWS call is made.                             *)
Call(q) ==
  /\ Alive
  /\ query[q].state = "waiting"
  /\ tokens[query[q].region] > 0
  /\ tokens' = [tokens EXCEPT ![query[q].region] = @ - 1]
  /\ query' = [query EXCEPT ![q].state = "answered"]
  /\ UNCHANGED <<main, setupVars, bucketCtx, processVars>>

(* The query's context ends while it waits.                                *)
TimeOut(q) ==
  /\ Alive
  /\ query[q].state = "waiting"
  /\ query' = [query EXCEPT ![q].state = "timed out"]
  /\ UNCHANGED <<main, setupVars, limitVars, processVars>>

Forget(q) ==
  /\ query[q].state \in {"answered", "timed out"}
  /\ query' = [query EXCEPT ![q] = NoQuery]
  /\ UNCHANGED <<main, setupVars, limitVars, processVars>>

-----------------------------------------------------------------------------
Main ==
  \/ PreRun \/ TokenClient
  \/ GetConfig \/ ConfigError \/ AccountUnknown \/ AccountFound \/ AddSources
  \/ InitReturns \/ RunReturns \/ StartEngine
  \/ Notify \/ AwaitSignal \/ TakeSignal \/ StopEngine

Next ==
  \/ Main
  \/ Signal
  \/ Second
  \/ \E q \in Queries :
       \/ \E r \in RegionSet : Ask(q, r)
       \/ Call(q) \/ TimeOut(q) \/ Forget(q)

Spec == Init /\ [][Next]_vars

(* The main goroutine goes on, time passes, and a caller with a token to   *)
(* take takes it, FIFO (module LimitBucket) or not.                        *)
Fairness ==
  /\ WF_vars(Main)
  /\ WF_vars(Second)
  /\ \A q \in Queries : SF_vars(Call(q))

FairSpec == Spec /\ Fairness

-----------------------------------------------------------------------------
(* Types of the process's variables.                                       *)
TypeOK ==
  /\ main \in {"pre-run", "token", "config", "sts", "sources", "start", "notify",
               "notified", "wait", "stopping", "returning", "exited"}
  /\ auth \in AuthConfigs
  /\ region \in 1..(Regions + 1)
  /\ regional \in SUBSET RegionSet
  /\ global \in SUBSET RegionSet
  /\ globalDone \in BOOLEAN
  /\ bucketCtx \in [RegionSet -> {"none", "live", "cancelled"}]
  /\ tokens \in [RegionSet -> 0..MaxCapacity]
  /\ tracing \in {"off", "on", "shut down"}
  /\ engine \in {"new", "serving", "stopped"}
  /\ handled \in BOOLEAN
  /\ signals \in 0..SignalsMax
  /\ sigs \in 0..1
  /\ status \in {"running", "fatal", "returned", "exit 0", "exit 1", "killed"}
  /\ \A q \in Queries :
       /\ query[q].state \in {"none", "waiting", "answered", "timed out"}
       /\ query[q].region \in 0..Regions

(* The engine never serves with part of its regions, nor with the global   *)
(* sources missing or added twice ("only do this once for the first        *)
(* region"), whichever region failed to be set up.                         *)
ServesEverything ==
  engine = "serving" => regional = RegionSet /\ global = {1}

(* The credentials in use come from exactly the settings the strategy is   *)
(* about: no engine serves with settings of two strategies mixed.          *)
OneStrategy ==
  engine = "serving" /\ ~auth.auto /\ auth.strategy # "defaults" =>
    auth.set = CASE auth.strategy = "access-key" -> {"AccessKeyID", "SecretAccessKey"}
                 [] auth.strategy = "external-id" -> {"ExternalID", "TargetRoleARN"}
                 [] auth.strategy = "sso-profile" -> {"Profile"}

(* When setting up fails half way the limiters already started are ended.  *)
NoLimiterLeftBehind ==
  main = "returning" => \A r \in RegionSet : bucketCtx[r] # "live"

(* No further signal cuts the stop of the engine short: a process that     *)
(* has begun to stop leaves it with e.Stop()'s own result.                 *)
StopNotCutShort ==
  [][main = "stopping" /\ main' # "stopping" => status' \in {"exit 0", "exit 1"}]_vars

(* No signal is missed, whatever the process is doing when it comes: it    *)
(* ends, also when the signal is sent after signal.Notify and before the   *)
(* channel is read, or while the engine stops for another one.             *)
SignalEnds == signals > 0 ~> main = "exited"

(* "Goroutine to continually refill" (limit_bucket.go:49): a query parked  *)
(* in a rate-limited source is answered while the engine serves.           *)
QueriesAnswered ==
  \A q \in Queries : query[q].state = "waiting" ~> query[q].state # "waiting"
=============================================================================
