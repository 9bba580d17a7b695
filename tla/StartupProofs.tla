---------------------------- MODULE StartupProofs ----------------------------
(***************************************************************************)
(* What holds of the life of the process for any number of regions, any    *)
(* buckets and any set of configurations it may be started with.           *)
(***************************************************************************)
EXTENDS Startup, TLAPS

QueryType ==
  [state : {"none", "waiting", "answered", "timed out"}, region : 0..Regions]

(* The types of TypeOK, with those of the queries as a function.           *)
Types == TypeOK /\ query \in [Queries -> QueryType]

(* How far the regions are: those below the one at hand were added, the    *)
(* first of them with the global sources, each with the credentials that   *)
(* the configuration gives. A region is at hand only while there are some  *)
(* left, and the engine is there when there are none.                      *)
RegionInv ==
  /\ regional = 1..(region - 1)
  /\ global = IF region = 1 THEN {} ELSE {1}
  /\ globalDone <=> region > 1
  /\ main \in {"pre-run", "token"} => region = 1
  /\ main = "config" => Regions > 0
  /\ main \in {"sts", "sources"} => region <= Regions
  /\ main \in {"start", "notify", "notified", "wait", "stopping"} \/ engine # "new" =>
       region = Regions + 1 /\ Regions > 0
  /\ region > 1 \/ main \in {"sts", "sources"} => Credentials(auth) # "error"

(* No limiter has been started before the regions, and none is left once   *)
(* they are over.                                                          *)
LimiterInv ==
  /\ main \in {"pre-run", "token"} => \A r \in RegionSet : bucketCtx[r] = "none"
  /\ NoLimiterLeftBehind

(* From signal.Notify on no signal ends the process by itself.             *)
HandledInv == main \in {"notified", "wait", "stopping"} => handled

-----------------------------------------------------------------------------
(* What a step may set the queries to, and the types of TypeOK.            *)
LEMMA QueryTypesSuffice ==
  ASSUME query \in [Queries -> QueryType]
  PROVE  \A q \in Queries :
           /\ query[q].state \in {"none", "waiting", "answered", "timed out"}
           /\ query[q].region \in 0..Regions
BY DEF QueryType

LEMMA ExitTypes ==
  ASSUME NEW how, Exit(how)
  PROVE  main' = "exited" /\ status' = how /\ query' \in [Queries -> QueryType]
<1>1. NoQuery \in QueryType
  BY StartupAssumption DEF NoQuery, QueryType
<1> QED BY <1>1 DEF Exit

(* Only the main goroutine works on the regions.                           *)
LEMMA OthersKeepSetup ==
  ASSUME [Next]_vars, ~Main, ~Signal
  PROVE  UNCHANGED <<main, setupVars, bucketCtx, processVars>>
BY DEF Next, vars, limitVars, Second, Ask, Call, TimeOut, Forget

LEMMA SignalKeepsSetup ==
  ASSUME Signal
  PROVE  /\ \/ main' = main /\ status' = status
            \/ main' = "exited" /\ status' = "killed"
         /\ UNCHANGED setupVars /\ UNCHANGED limitVars /\ UNCHANGED engine
<1>1. CASE handled
  BY <1>1 DEF Signal
<1>2. CASE ~handled
  BY <1>2 DEF Signal, Exit
<1> QED BY <1>1, <1>2

LEMMA InitTypes == Init => Types
<1> SUFFICES ASSUME Init PROVE Types
  OBVIOUS
<1>1. query \in [Queries -> QueryType]
  BY StartupAssumption DEF Init, QueryType, NoQuery
<1>2. /\ region \in 1..(Regions + 1) /\ auth \in AuthConfigs
      /\ tokens \in [RegionSet -> 0..MaxCapacity]
      /\ bucketCtx \in [RegionSet -> {"none", "live", "cancelled"}]
  BY StartupAssumption DEF Init
<1>3. signals \in 0..SignalsMax /\ sigs \in 0..1
  BY StartupAssumption DEF Init
<1> QED BY <1>1, <1>2, <1>3, QueryTypesSuffice DEF Init, Types, TypeOK

LEMMA NextTypes ==
  ASSUME Types, RegionInv, [Next]_vars
  PROVE  Types'
<1>0. /\ Regions \in Nat /\ MaxCapacity \in Nat \ {0} /\ RefillRate \in Nat \ {0}
      /\ query \in [Queries -> QueryType]
      /\ region \in 1..(Regions + 1)
      /\ tokens \in [RegionSet -> 0..MaxCapacity]
      /\ bucketCtx \in [RegionSet -> {"none", "live", "cancelled"}]
  BY StartupAssumption DEF Types, TypeOK
<1>1. /\ query' \in [Queries -> QueryType]
      /\ tokens' \in [RegionSet -> 0..MaxCapacity]
      /\ bucketCtx' \in [RegionSet -> {"none", "live", "cancelled"}]
  <2>1. CASE Main
    <3>1. query' = query \/ (\E how \in {"fatal", "returned", "exit 0", "exit 1"} : Exit(how))
      BY <2>1 DEF Main, PreRun, TokenClient, GetConfig, ConfigError, AccountUnknown,
                  AccountFound, AddSources, InitReturns, RunReturns, StartEngine, Notify,
                  AwaitSignal, TakeSignal, StopEngine
    <3>2. tokens' = tokens
      BY <2>1 DEF Main, PreRun, TokenClient, GetConfig, ConfigError, AccountUnknown,
                  AccountFound, AddSources, InitReturns, RunReturns, StartEngine, Notify,
                  AwaitSignal, TakeSignal, StopEngine, limitVars
    <3>3. \/ bucketCtx' = bucketCtx \/ CancelBuckets
          \/ bucketCtx' = [bucketCtx EXCEPT ![region] = "live"]
      BY <2>1 DEF Main, PreRun, TokenClient, GetConfig, ConfigError, AccountUnknown,
                  AccountFound, AddSources, InitReturns, RunReturns, StartEngine, Notify,
                  AwaitSignal, TakeSignal, StopEngine, limitVars
    <3> QED BY <1>0, <3>1, <3>2, <3>3, ExitTypes DEF CancelBuckets
  <2>2. CASE Signal
    <3>1. query' = query \/ Exit("killed")
      BY <2>2 DEF Signal
    <3> QED BY <1>0, <2>2, <3>1, ExitTypes DEF Signal, limitVars
  <2>3. CASE Second
    BY <1>0, <2>3 DEF Second
  <2>4. ASSUME NEW q \in Queries, NEW r \in RegionSet, Ask(q, r)
        PROVE  query' \in [Queries -> QueryType] /\ UNCHANGED limitVars
    <3>1. [state |-> "waiting", region |-> r] \in QueryType
      <4>1. r \in 0..Regions
        BY StartupAssumption DEF RegionSet
      <4> QED BY <4>1 DEF QueryType
    <3> QED BY <1>0, <2>4, <3>1 DEF Ask
  <2>5. ASSUME NEW q \in Queries, Call(q) \/ TimeOut(q) \/ Forget(q)
        PROVE  query' \in [Queries -> QueryType]
    <3>1. /\ [query[q] EXCEPT !.state = "answered"] \in QueryType
          /\ [query[q] EXCEPT !.state = "timed out"] \in QueryType
          /\ NoQuery \in QueryType
      <4>1. query[q] \in QueryType /\ 0 \in 0..Regions
        BY <1>0
      <4> QED BY <4>1 DEF QueryType, NoQuery
    <3> QED BY <1>0, <2>5, <3>1 DEF Call, TimeOut, Forget
  <2>6. ASSUME NEW q \in Queries, Call(q) \/ TimeOut(q) \/ Forget(q)
        PROVE  tokens' \in [RegionSet -> 0..MaxCapacity] /\ bucketCtx' = bucketCtx
    <3>1. CASE Call(q)
      <4> DEFINE r == query[q].region
      <4>1. tokens' = [tokens EXCEPT ![r] = @ - 1] /\ tokens[r] > 0
        BY <3>1 DEF Call
      <4>2. r \in RegionSet => tokens[r] - 1 \in 0..MaxCapacity
        BY <1>0, <4>1
      <4> QED BY <1>0, <3>1, <4>1, <4>2 DEF Call
    <3>2. CASE TimeOut(q) \/ Forget(q)
      BY <1>0, <3>2 DEF TimeOut, Forget, limitVars
    <3> QED BY <2>6, <3>1, <3>2
  <2>7. CASE UNCHANGED vars
    BY <1>0, <2>7 DEF vars, limitVars
  <2> QED BY <1>0, <2>1, <2>2, <2>3, <2>4, <2>5, <2>6, <2>7 DEF Next, limitVars
<1>2. /\ main' \in {"pre-run", "token", "config", "sts", "sources", "start", "notify",
                    "notified", "wait", "stopping", "returning", "exited"}
      /\ tracing' \in {"off", "on", "shut down"}
      /\ engine' \in {"new", "serving", "stopped"}
      /\ status' \in {"running", "fatal", "returned", "exit 0", "exit 1", "killed"}
      /\ handled' \in BOOLEAN /\ signals' \in 0..SignalsMax /\ sigs' \in 0..1
  <2> USE DEF Types, TypeOK, Exit
  <2>1. CASE PreRun \/ TokenClient \/ RunReturns
    BY <2>1 DEF PreRun, TokenClient, RunReturns
  <2>2. CASE GetConfig \/ ConfigError \/ AccountFound \/ AddSources \/ InitReturns
    BY <2>2 DEF GetConfig, ConfigError, AccountFound, AddSources, InitReturns, processVars
  <2>3. CASE AccountUnknown \/ StartEngine \/ Notify \/ StopEngine
    BY <2>3 DEF AccountUnknown, StartEngine, Notify, StopEngine
  <2>6. CASE AwaitSignal \/ TakeSignal
    <3>1. /\ main' = "wait" \/ main' = "stopping"
          /\ sigs' = sigs \/ sigs' = 0
          /\ UNCHANGED <<tracing, engine, handled, signals, status>>
      BY <2>6 DEF AwaitSignal, TakeSignal, processVars
    <3>2. sigs \in 0..1
      OBVIOUS
    <3>3. sigs' \in 0..1
      BY ONLY <3>1, <3>2
    <3> QED BY <3>1, <3>3
  <2>4. CASE Signal
    <3>1. signals' = signals + 1 /\ signals < SignalsMax
      BY <2>4 DEF Signal
    <3>2. signals \in 0..SignalsMax /\ SignalsMax \in Nat
      BY StartupAssumption
    <3>3. signals' \in 0..SignalsMax
      BY ONLY <3>1, <3>2
    <3>4. /\ sigs' = sigs \/ sigs' = 1
          /\ main' = main \/ main' = "exited"
          /\ status' = status \/ status' = "killed"
          /\ UNCHANGED <<tracing, engine, handled>>
      BY <2>4 DEF Signal
    <3>5. sigs \in 0..1
      OBVIOUS
    <3>6. sigs' \in 0..1
      BY ONLY <3>4, <3>5
    <3> QED BY <3>3, <3>4, <3>6
  <2>5. CASE ~Main /\ ~Signal
    BY <2>5, OthersKeepSetup DEF processVars
  <2> QED BY <2>1, <2>2, <2>3, <2>4, <2>5, <2>6 DEF Main
<1>3. /\ auth' \in AuthConfigs
      /\ region' \in 1..(Regions + 1)
      /\ regional' \in SUBSET RegionSet /\ global' \in SUBSET RegionSet
      /\ globalDone' \in BOOLEAN
  <2>1. CASE AddSources
    <3>1. region \in RegionSet /\ region + 1 \in 1..(Regions + 1)
      BY <1>0, <2>1 DEF AddSources, RegionInv, RegionSet
    <3> QED BY <2>1, <3>1 DEF AddSources, Types, TypeOK
  <2>2. CASE ~AddSources
    <3>1. Main => UNCHANGED setupVars
      BY <2>2 DEF Main, PreRun, TokenClient, GetConfig, ConfigError, AccountUnknown,
                        AccountFound, InitReturns, RunReturns, StartEngine, Notify,
                        AwaitSignal, TakeSignal, StopEngine
    <3>2. Signal => UNCHANGED setupVars
      BY DEF Signal
    <3>3. ~Main /\ ~Signal => UNCHANGED setupVars
      BY OthersKeepSetup
    <3>4. UNCHANGED setupVars
      BY <3>1, <3>2, <3>3
    <3> QED BY <3>4 DEF setupVars, Types, TypeOK
  <2> QED BY <2>1, <2>2
<1>4. \A q \in Queries :
        /\ query'[q].state \in {"none", "waiting", "answered", "timed out"}
        /\ query'[q].region \in 0..Regions
  BY <1>1 DEF QueryType
<1> QED BY <1>1, <1>2, <1>3, <1>4 DEF Types, TypeOK

-----------------------------------------------------------------------------
LEMMA NextRegionInv ==
  ASSUME Types, RegionInv, [Next]_vars
  PROVE  RegionInv'
<1>0. Regions \in Nat /\ region \in 1..(Regions + 1) /\ globalDone \in BOOLEAN
  BY StartupAssumption DEF Types, TypeOK
<1>1. CASE AddSources
  <2>1. /\ main = "sources" /\ main' = "config"
        /\ regional' = regional \cup {region} /\ region' = region + 1
        /\ global' = IF globalDone THEN global ELSE global \cup {region}
        /\ globalDone' = TRUE
        /\ UNCHANGED <<auth, engine>>
    BY <1>1 DEF AddSources, processVars
  <2>2. regional' = 1..(region' - 1)
    BY <1>0, <2>1 DEF RegionInv
  <2>3. region' > 1 /\ region <= Regions
    BY <1>0, <2>1 DEF RegionInv
  <2>4. global' = {1}
    <3>1. CASE region = 1
      BY <2>1, <3>1 DEF RegionInv
    <3>2. CASE region # 1
      BY <1>0, <2>1, <3>2 DEF RegionInv
    <3> QED BY <3>1, <3>2
  <2>5. region' # 1 /\ (region' > 1) = TRUE
    BY <1>0, <2>1
  <2>6. Regions > 0 /\ Credentials(auth') # "error"
    BY <1>0, <2>1, <2>3 DEF RegionInv
  <2>7. engine' = "new"
    BY <1>0, <2>1, <2>3 DEF RegionInv
  <2> QED BY <2>1, <2>2, <2>4, <2>5, <2>6, <2>7 DEF RegionInv
<1>2. CASE Main /\ ~AddSources
  <2>1. UNCHANGED <<auth, region, regional, global, globalDone>>
    BY <1>2 DEF setupVars, Main, PreRun, TokenClient, GetConfig, ConfigError, AccountUnknown,
                AccountFound, InitReturns, RunReturns, StartEngine, Notify, AwaitSignal,
                TakeSignal, StopEngine
  <2>2. CASE PreRun \/ TokenClient \/ RunReturns
    BY <1>0, <2>1, <2>2 DEF RegionInv, PreRun, TokenClient, RunReturns, Exit
  <2>3. CASE GetConfig \/ ConfigError \/ AccountFound \/ InitReturns
    BY <1>0, <2>1, <2>3 DEF RegionInv, GetConfig, ConfigError, AccountFound, InitReturns,
                            processVars
  <2>4. CASE AccountUnknown \/ StartEngine \/ Notify \/ StopEngine
    BY <1>0, <2>1, <2>4 DEF RegionInv, AccountUnknown, StartEngine, Notify, StopEngine, Exit
  <2>5. CASE AwaitSignal \/ TakeSignal
    BY <1>0, <2>1, <2>5 DEF RegionInv, AwaitSignal, TakeSignal, processVars
  <2> QED BY <1>2, <2>2, <2>3, <2>4, <2>5 DEF Main
<1>3. CASE Signal
  BY <1>3, SignalKeepsSetup DEF RegionInv, setupVars
<1>4. CASE ~Main /\ ~Signal
  BY <1>4, OthersKeepSetup DEF RegionInv, setupVars, processVars
<1> QED BY <1>1, <1>2, <1>3, <1>4

LEMMA NextLimiterInv ==
  ASSUME Types, LimiterInv, [Next]_vars
  PROVE  LimiterInv'
<1>1. CASE ConfigError \/ InitReturns
  <2>1. \A r \in RegionSet : bucketCtx'[r] # "live"
    BY <1>1 DEF ConfigError, InitReturns, CancelBuckets
  <2>2. main' \notin {"pre-run", "token"}
    BY <1>1 DEF ConfigError, InitReturns
  <2> QED BY <2>1, <2>2 DEF LimiterInv, NoLimiterLeftBehind
<1>2. CASE Main /\ ~ConfigError /\ ~InitReturns
  BY <1>2
  DEF LimiterInv, NoLimiterLeftBehind, limitVars, Main, PreRun, TokenClient, GetConfig,
      AccountUnknown, AccountFound, AddSources, RunReturns, StartEngine, Notify,
      AwaitSignal, TakeSignal, StopEngine, Exit
<1>3. CASE Signal
  BY <1>3, SignalKeepsSetup DEF LimiterInv, NoLimiterLeftBehind, limitVars
<1>4. CASE ~Main /\ ~Signal
  BY <1>4, OthersKeepSetup DEF LimiterInv, NoLimiterLeftBehind
<1> QED BY <1>1, <1>2, <1>3, <1>4

LEMMA NextHandledInv ==
  ASSUME HandledInv, [Next]_vars
  PROVE  HandledInv'
<1>1. CASE Main
  BY <1>1
  DEF HandledInv, processVars, Main, PreRun, TokenClient, GetConfig, ConfigError,
      AccountUnknown, AccountFound, AddSources, InitReturns, RunReturns, StartEngine, Notify,
      AwaitSignal, TakeSignal, StopEngine, Exit
<1>2. CASE Signal
  <2>1. handled' = handled /\ (main' = main \/ main' = "exited")
    BY <1>2 DEF Signal, Exit
  <2> QED BY <2>1 DEF HandledInv
<1>3. CASE ~Main /\ ~Signal
  BY <1>3, OthersKeepSetup DEF HandledInv, processVars
<1> QED BY <1>1, <1>2, <1>3

-----------------------------------------------------------------------------
SetupInv == Types /\ RegionInv /\ LimiterInv /\ HandledInv

LEMMA SetupInvariant == Spec => []SetupInv
<1>1. Init => SetupInv
  <2> SUFFICES ASSUME Init PROVE SetupInv
    OBVIOUS
  <2>1. Types
    BY InitTypes
  <2>2. RegionInv
    <3>1. 1..(1 - 1) = {}
      OBVIOUS
    <3> QED BY <3>1 DEF Init, RegionInv
  <2>3. LimiterInv /\ HandledInv
    BY DEF Init, LimiterInv, NoLimiterLeftBehind, HandledInv
  <2> QED BY <2>1, <2>2, <2>3 DEF SetupInv
<1>2. SetupInv /\ [Next]_vars => SetupInv'
  BY NextTypes, NextRegionInv, NextLimiterInv, NextHandledInv DEF SetupInv
<1> QED BY <1>1, <1>2, PTL DEF Spec

(* The variables of the process keep their types whatever step fails and   *)
(* whenever a signal comes.                                                *)
THEOREM TypeCorrect == Spec => []TypeOK
<1>1. SetupInv => TypeOK
  BY DEF SetupInv, Types
<1> QED BY <1>1, SetupInvariant, PTL

(* InitializeAwsSourceEngine for any number of regions: the engine serves  *)
(* with all of them or not at all, and the global sources are added once.  *)
THEOREM AllRegionsServed == Spec => []ServesEverything
<1>1. SetupInv => ServesEverything
  <2> SUFFICES ASSUME SetupInv, engine = "serving" PROVE regional = RegionSet /\ global = {1}
    BY DEF ServesEverything
  <2>1. region = Regions + 1 /\ Regions > 0 /\ Regions \in Nat
    BY StartupAssumption DEF SetupInv, RegionInv
  <2>2. regional = 1..(Regions + 1 - 1) /\ global = {1}
    BY <2>1 DEF SetupInv, RegionInv
  <2> QED BY <2>1, <2>2 DEF RegionSet
<1> QED BY <1>1, SetupInvariant, PTL

(* What the checks of a field say.                                         *)
LEMMA FieldChecks ==
  ASSUME NEW c, NEW f
  PROVE  /\ ~Fails(c, Must(f)) => f \in c.set
         /\ ~Fails(c, Blank(f)) => f \notin c.set
<1>1. /\ Must(f).field = f /\ Must(f).blank = FALSE
      /\ Blank(f).field = f /\ Blank(f).blank = TRUE
  BY DEF Must, Blank
<1>2. ASSUME f \notin c.set PROVE Fails(c, Must(f))
  <2>1. (Must(f).field \in c.set) = FALSE
    BY <1>1, <1>2
  <2> QED BY <1>1, <2>1, Zenon DEF Fails
<1>3. ASSUME f \in c.set PROVE Fails(c, Blank(f))
  <2>1. (Blank(f).field \in c.set) = TRUE
    BY <1>1, <1>3
  <2> QED BY <1>1, <2>1, Zenon DEF Fails
<1> QED BY <1>2, <1>3

(* A configuration that GetAWSConfig takes has the settings of its         *)
(* strategy and no others.                                                 *)
LEMMA SettingsOfStrategy ==
  ASSUME NEW c \in Configs, Credentials(c) # "error", ~c.auto, c.strategy # "defaults"
  PROVE  c.set = CASE c.strategy = "access-key" -> {"AccessKeyID", "SecretAccessKey"}
                   [] c.strategy = "external-id" -> {"ExternalID", "TargetRoleARN"}
                   [] c.strategy = "sso-profile" -> {"Profile"}
<1>1. /\ c.strategy \in {"access-key", "external-id", "sso-profile"}
      /\ c.set \subseteq Fields /\ FailedChecks(c) = {}
  BY DEF Configs, Strategies, Credentials
<1>2. \A i \in DOMAIN Checks(c.strategy) : ~Fails(c, Checks(c.strategy)[i])
  BY <1>1 DEF FailedChecks
<1>3. CASE c.strategy = "access-key"
  <2>1. Checks(c.strategy) = <<Must("AccessKeyID"), Must("SecretAccessKey"), Blank("ExternalID"),
                               Blank("TargetRoleARN"), Blank("Profile")>>
    BY <1>3 DEF Checks
  <2>2. /\ ~Fails(c, Must("AccessKeyID")) /\ ~Fails(c, Must("SecretAccessKey"))
        /\ ~Fails(c, Blank("ExternalID")) /\ ~Fails(c, Blank("TargetRoleARN"))
        /\ ~Fails(c, Blank("Profile"))
    BY <1>2, <2>1
  <2>3. c.set = {"AccessKeyID", "SecretAccessKey"}
    BY <1>1, <2>2, FieldChecks DEF Fields
  <2> QED BY <1>3, <2>3
<1>4. CASE c.strategy = "external-id"
  <2>1. Checks(c.strategy) = <<Blank("AccessKeyID"), Blank("SecretAccessKey"), Must("ExternalID"),
                               Must("TargetRoleARN"), Blank("Profile")>>
    BY <1>4 DEF Checks
  <2>2. /\ ~Fails(c, Blank("AccessKeyID")) /\ ~Fails(c, Blank("SecretAccessKey"))
        /\ ~Fails(c, Must("ExternalID")) /\ ~Fails(c, Must("TargetRoleARN"))
        /\ ~Fails(c, Blank("Profile"))
    BY <1>2, <2>1
  <2>3. c.set = {"ExternalID", "TargetRoleARN"}
    BY <1>1, <2>2, FieldChecks DEF Fields
  <2> QED BY <1>4, <2>3
<1>5. CASE c.strategy = "sso-profile"
  <2>1. Checks(c.strategy) = <<Blank("AccessKeyID"), Blank("SecretAccessKey"),
                               Blank("ExternalID"), Blank("TargetRoleARN"), Must("Profile")>>
    BY <1>5 DEF Checks
  <2>2. /\ ~Fails(c, Blank("AccessKeyID")) /\ ~Fails(c, Blank("SecretAccessKey"))
        /\ ~Fails(c, Blank("ExternalID")) /\ ~Fails(c, Blank("TargetRoleARN"))
        /\ ~Fails(c, Must("Profile"))
    BY <1>2, <2>1
  <2>3. c.set = {"Profile"}
    BY <1>1, <2>2, FieldChecks DEF Fields
  <2> QED BY <1>5, <2>3
<1> QED BY <1>1, <1>3, <1>4, <1>5

(* Whatever configuration the process is started with, it serves with the  *)
(* settings of one strategy alone (cmd/root.go:345).                       *)
THEOREM OneStrategyServes == Spec => []OneStrategy
<1>1. SetupInv => OneStrategy
  <2> SUFFICES ASSUME SetupInv, engine = "serving", ~auth.auto, auth.strategy # "defaults"
               PROVE  OneStrategy
    BY DEF OneStrategy
  <2>1. Regions \in Nat /\ auth \in Configs
    BY StartupAssumption DEF SetupInv, Types, TypeOK
  <2>2. Credentials(auth) # "error"
    BY <2>1 DEF SetupInv, RegionInv
  <2> QED BY <2>1, <2>2, SettingsOfStrategy DEF OneStrategy
<1> QED BY <1>1, SetupInvariant, PTL

(* However many regions were set up before one fails, none of their        *)
(* refill goroutines is left when Run returns (cmd/root.go:586).           *)
THEOREM LimitersEnded == Spec => []NoLimiterLeftBehind
<1>1. SetupInv => NoLimiterLeftBehind
  BY DEF SetupInv, LimiterInv
<1> QED BY <1>1, SetupInvariant, PTL

(* Signals after the first change nothing: a process that has begun to     *)
(* stop ends with what e.Stop() made of it (cmd/root.go:198-218).          *)
THEOREM StopNotInterrupted == Spec => StopNotCutShort
<1> DEFINE Whole ==
      main = "stopping" /\ main' # "stopping" => status' \in {"exit 0", "exit 1"}
<1>1. SetupInv /\ [Next]_vars => [Whole]_vars
  <2> SUFFICES ASSUME SetupInv, [Next]_vars, main = "stopping", main' # "stopping"
               PROVE  status' \in {"exit 0", "exit 1"}
    OBVIOUS
  <2>1. CASE Main
    <3>1. StopEngine
      BY <2>1 DEF Main, PreRun, TokenClient, GetConfig, ConfigError, AccountUnknown,
                  AccountFound, AddSources, InitReturns, RunReturns, StartEngine, Notify,
                  AwaitSignal, TakeSignal
    <3> QED BY <3>1 DEF StopEngine, Exit
  <2>2. CASE Signal
    BY <2>2 DEF Signal, SetupInv, HandledInv
  <2>3. CASE ~Main /\ ~Signal
    BY <2>3, OthersKeepSetup
  <2> QED BY <2>1, <2>2, <2>3
<1> QED BY <1>1, SetupInvariant, PTL DEF Spec, StopNotCutShort
=============================================================================
