---------------------------- MODULE LimitBucket ----------------------------
(***************************************************************************)
(* The token bucket of sources/limit_bucket.go that throttles AWS calls.   *)
(*                                                                         *)
(* Tokens live in a buffered Go channel.  One goroutine refills it on every *)
(* tick of a time.Ticker until the context given to Start is cancelled;    *)
(* callers block in Wait until they get a token or until the context of    *)
(* their own request is done.                                              *)
(*                                                                         *)
(* Of the Go runtime the model keeps what the bucket depends on: blocked   *)
(* receivers queue in FIFO order and a send hands its token to the first   *)
(* of them; a ticker buffers one tick and drops the others; select picks   *)
(* any of its ready cases.                                                 *)
(***************************************************************************)
EXTENDS Integers, Sequences, SequencesExt

CONSTANTS
  MaxCapacity,   \* LimitBucket.MaxCapacity, the channel's buffer
  RefillRate,    \* LimitBucket.RefillRate, tokens added per tick
  Callers,       \* goroutines that call Wait before each AWS call
  Observed,      \* TRUE when bucketFull is set (only the tests set it)
  WindowTicks    \* bound: length in ticks of an observation window

ASSUME BucketAssumption ==
  /\ MaxCapacity \in Nat \ {0}
  /\ RefillRate \in Nat \ {0}
  /\ Observed \in BOOLEAN
  /\ WindowTicks \in Nat

VARIABLES
  tokens,      \* len(b.c)
  recvq,       \* callers blocked on <-b.c, in the order they blocked
  refiller,    \* where the refill goroutine is
  toSend,      \* tokens the current refill still has to send
  full,        \* the flag the current refill computed
  ticked,      \* ticker.C holds a tick
  bucketCtx,   \* the context given to Start
  caller,      \* where each caller is
  reqCtx,      \* the context of each caller's request
  window       \* history: tokens granted in an interval, and its ticks

bucketVars == <<tokens, recvq, refiller, toSend, full, ticked, bucketCtx>>
callerVars == <<caller, reqCtx>>
vars == <<bucketVars, callerVars, window>>

ClosedWindow == [open |-> FALSE, granted |-> 0, ticks |-> 0]

Init ==
  /\ tokens = 0
  /\ recvq = <<>>
  /\ refiller = "select"
  /\ toSend = 0
  /\ full = FALSE
  /\ ticked = FALSE
  /\ bucketCtx = "live"
  /\ caller = [c \in Callers |-> "idle"]
  /\ reqCtx = [c \in Callers |-> "live"]
  /\ window = ClosedWindow

-----------------------------------------------------------------------------
(* The observation window: opened at any moment, it counts the tokens      *)
(* granted and the ticks that pass until WindowTicks ticks have passed.    *)

Grant(n) ==
  window' = IF window.open THEN [window EXCEPT !.granted = @ + n] ELSE window

OpenWindow ==
  /\ window' = [ClosedWindow EXCEPT !.open = TRUE]
  /\ UNCHANGED <<bucketVars, callerVars>>

-----------------------------------------------------------------------------
(* The refill goroutine.                                                   *)

(* RefillDuration passes.  A tick nobody has taken yet absorbs this one.   *)
Tick ==
  /\ refiller # "stopped"
  /\ ticked' = TRUE
  /\ window' = CASE ~window.open               -> window
                 [] window.ticks < WindowTicks -> [window EXCEPT !.ticks = @ + 1]
                 [] OTHER                      -> ClosedWindow
  /\ UNCHANGED <<tokens, recvq, refiller, toSend, full, bucketCtx, callerVars>>

(* What refill computes from the length of the channel.                    *)
NewTokensUncapped(len) == RefillRate              \* mutant: no cap
NewTokensGreedy(len) == MaxCapacity - len         \* mutant: no rate
NewTokens(len) ==
  IF MaxCapacity - len < RefillRate THEN MaxCapacity - len ELSE RefillRate

IsFull(len) == MaxCapacity - len < RefillRate

(* mutant: a default case in the select refills without a tick             *)
BeginRefillUnticked ==
  /\ refiller = "select"
  /\ refiller' = "sending"
  /\ ticked' = FALSE
  /\ toSend' = NewTokens(tokens)
  /\ full' = IsFull(tokens)
  /\ UNCHANGED <<tokens, recvq, bucketCtx, callerVars, window>>

(* The select takes the tick, and refill reads len(b.c).                   *)
BeginRefill ==
  /\ refiller = "select"
  /\ ticked
  /\ refiller' = "sending"
  /\ ticked' = FALSE
  /\ toSend' = NewTokens(tokens)
  /\ full' = IsFull(tokens)
  /\ UNCHANGED <<tokens, recvq, bucketCtx, callerVars, window>>

(* b.c <- struct{}{}: to the first blocked receiver, else to the buffer;   *)
(* with no receiver and a full buffer the send blocks.                     *)
HandOffLifo ==   \* mutant: the last to wait is served first
  /\ recvq # <<>>
  /\ recvq' = Front(recvq)
  /\ caller' = [caller EXCEPT ![Last(recvq)] = "calling"]
  /\ Grant(1)
  /\ UNCHANGED tokens

HandOff ==
  /\ recvq # <<>>
  /\ recvq' = Tail(recvq)
  /\ caller' = [caller EXCEPT ![Head(recvq)] = "calling"]
  /\ Grant(1)
  /\ UNCHANGED tokens

Buffer ==
  /\ recvq = <<>>
  /\ tokens < MaxCapacity
  /\ tokens' = tokens + 1
  /\ UNCHANGED <<recvq, caller, window>>

SendToken ==
  /\ refiller = "sending"
  /\ toSend > 0
  /\ HandOff \/ Buffer
  /\ toSend' = toSend - 1
  /\ UNCHANGED <<refiller, full, ticked, bucketCtx, reqCtx>>

EndRefill ==
  /\ refiller = "sending"
  /\ toSend = 0
  /\ refiller' = IF Observed THEN "reporting" ELSE "select"
  /\ UNCHANGED <<tokens, recvq, toSend, full, ticked, bucketCtx, callerVars, window>>

(* The unbuffered send b.bucketFull <- full meets its reader.              *)
Report ==
  /\ refiller = "reporting"
  /\ refiller' = "select"
  /\ UNCHANGED <<tokens, recvq, toSend, full, ticked, bucketCtx, callerVars, window>>

(* The select takes ctx.Done; the deferred ticker.Stop ends the ticks.     *)
Stop ==
  /\ refiller = "select"
  /\ bucketCtx = "cancelled"
  /\ refiller' = "stopped"
  /\ ticked' = FALSE
  /\ UNCHANGED <<tokens, recvq, toSend, full, bucketCtx, callerVars, window>>

CancelBucket ==
  /\ bucketCtx = "live"
  /\ bucketCtx' = "cancelled"
  /\ UNCHANGED <<tokens, recvq, refiller, toSend, full, ticked, callerVars, window>>

-----------------------------------------------------------------------------
(* Wait, called before an AWS call.                                        *)

(* case <-b.c with a token in the buffer                                   *)
TakeToken(c) ==
  /\ caller[c] = "idle"
  /\ tokens > 0
  /\ tokens' = tokens - 1
  /\ caller' = [caller EXCEPT ![c] = "calling"]
  /\ Grant(1)
  /\ UNCHANGED <<recvq, refiller, toSend, full, ticked, bucketCtx, reqCtx>>

(* neither case is ready: the goroutine parks in both channels' queues     *)
Block(c) ==
  /\ caller[c] = "idle"
  /\ tokens = 0
  /\ reqCtx[c] = "live"
  /\ recvq' = Append(recvq, c)
  /\ caller' = [caller EXCEPT ![c] = "waiting"]
  /\ UNCHANGED <<tokens, refiller, toSend, full, ticked, bucketCtx, reqCtx, window>>

(* mutant: a select with a default case                                    *)
GiveUpImpatient(c) ==
  /\ caller[c] = "idle"
  /\ tokens = 0
  /\ caller' = [caller EXCEPT ![c] = "calling"]
  /\ UNCHANGED <<bucketVars, reqCtx, window>>

(* case <-ctx.Done(): Wait returns with no token, and says nothing of it   *)
GiveUpAtOnce(c) ==
  /\ caller[c] = "idle"
  /\ reqCtx[c] = "done"
  /\ caller' = [caller EXCEPT ![c] = "calling"]
  /\ UNCHANGED <<bucketVars, reqCtx, window>>

(* mutant: the context is looked at before parking but not while parked    *)
GiveUpIgnored(c) ==
  /\ caller[c] = "idle"
  /\ reqCtx[c] = "done"
  /\ caller' = [caller EXCEPT ![c] = "calling"]
  /\ UNCHANGED <<bucketVars, reqCtx, window>>

(* the context ends while parked: the select leaves the token queue        *)
GiveUp(c) ==
  /\ caller[c] = "waiting"
  /\ reqCtx[c] = "done"
  /\ \E i \in 1..Len(recvq) : recvq[i] = c /\ recvq' = RemoveAt(recvq, i)
  /\ caller' = [caller EXCEPT ![c] = "calling"]
  /\ UNCHANGED <<tokens, refiller, toSend, full, ticked, bucketCtx, reqCtx, window>>

(* The AWS call that follows Wait returns.                                 *)
CallReturns(c) ==
  /\ caller[c] = "calling"
  /\ caller' = [caller EXCEPT ![c] = "idle"]
  /\ UNCHANGED <<bucketVars, reqCtx, window>>

(* The goroutine turns to another query, with a context of its own.        *)
NewRequest(c) ==
  /\ caller[c] = "idle"
  /\ reqCtx[c] = "done"
  /\ reqCtx' = [reqCtx EXCEPT ![c] = "live"]
  /\ UNCHANGED <<bucketVars, caller, window>>

CancelRequest(c) ==
  /\ reqCtx[c] = "live"
  /\ reqCtx' = [reqCtx EXCEPT ![c] = "done"]
  /\ UNCHANGED <<bucketVars, caller, window>>

-----------------------------------------------------------------------------
Refiller == BeginRefill \/ SendToken \/ EndRefill

CallerStep(c) ==
  \/ TakeToken(c) \/ Block(c)
  \/ GiveUpAtOnce(c) \/ GiveUp(c)
  \/ CallReturns(c) \/ NewRequest(c)

Next ==
  \/ OpenWindow
  \/ Tick
  \/ Refiller
  \/ Report
  \/ Stop
  \/ CancelBucket
  \/ \E c \in Callers : CallerStep(c) \/ CancelRequest(c)

Spec == Init /\ [][Next]_vars

(* Time passes and goroutines that can run do run.  A select chooses at    *)
(* random among its ready cases, so a case that is ready again and again   *)
(* is taken in the end: strong fairness of Stop, weak fairness of leaving  *)
(* the queue, which stays possible until it happens.                       *)
Fairness ==
  /\ WF_vars(Tick)
  /\ WF_vars(Refiller)
  /\ WF_vars(Report)
  /\ SF_vars(Stop)
  /\ \A c \in Callers : WF_vars(GiveUp(c))

FairSpec == Spec /\ Fairness

-----------------------------------------------------------------------------
(* Types of the variables of the bucket and of its callers.                *)
TypeOK ==
  /\ tokens \in 0..MaxCapacity
  /\ recvq \in Seq(Callers)
  /\ refiller \in {"select", "sending", "reporting", "stopped"}
  /\ toSend \in 0..RefillRate
  /\ full \in BOOLEAN
  /\ ticked \in BOOLEAN
  /\ bucketCtx \in {"live", "cancelled"}
  /\ caller \in [Callers -> {"idle", "waiting", "calling"}]
  /\ reqCtx \in [Callers -> {"live", "done"}]
  /\ window \in [open : BOOLEAN, granted : Nat, ticks : 0..WindowTicks]

(* refill reads the length of the channel once and then sends one token at *)
(* a time while callers go on taking: "Make sure not to overfill the       *)
(* channel" is that no send of it ever blocks, which would make the        *)
(* goroutine deaf to its context.                                          *)
RefillNeverBlocks ==
  refiller = "sending" /\ toSend > 0 => recvq # <<>> \/ tokens < MaxCapacity

(* What a window of t ticks may grant.                                     *)
Allowance(t) == MaxCapacity + RefillRate * (t + 1)

(* In any stretch of time callers get at most a full bucket and RefillRate *)
(* per tick, one tick more than elapsed because a late goroutine may find  *)
(* one buffered: the throttling the README's "Rate limiting" relies on.    *)
WindowBound == window.open => window.granted <= Allowance(window.ticks)

(* While the bucket's context lives, every caller parked in Wait leaves    *)
(* it: FIFO hand-off lets nobody be overtaken for ever.                    *)
WaitersServed ==
  [](bucketCtx = "live") =>
     \A c \in Callers : caller[c] = "waiting" ~> caller[c] # "waiting"

(* A request whose context is done leaves Wait, whatever the bucket does.  *)
CancelledLeave ==
  \A c \in Callers :
     (caller[c] = "waiting" /\ reqCtx[c] = "done") ~> caller[c] # "waiting"

(* Cancelling the bucket's context ends its goroutine.                     *)
RefillerEnds == bucketCtx = "cancelled" ~> refiller = "stopped"
=============================================================================
