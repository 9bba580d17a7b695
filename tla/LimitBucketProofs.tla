-------------------------- MODULE LimitBucketProofs --------------------------
(***************************************************************************)
(* What LimitBucket guarantees for every capacity, rate and set of         *)
(* callers: its types, that no send of a refill blocks, and the bound on   *)
(* what callers get in a window of time.                                   *)
(***************************************************************************)
EXTENDS LimitBucket, SequenceTheorems, TLAPS

(* What is in the bucket and what the running refill has promised to add   *)
(* fit the channel; outside a refill nothing is promised.                  *)
CapacityInv ==
  /\ tokens + toSend <= MaxCapacity
  /\ refiller # "sending" => toSend = 0

(* The refill a buffered tick will cause.                                  *)
Owed == IF ticked THEN RefillRate ELSE 0

(* What was granted in the window, could be granted at once, and is on its *)
(* way, against what the window allows.                                    *)
Potential == window.granted + tokens + toSend + Owed
WindowInv == window.open => Potential <= Allowance(window.ticks)

IInv == TypeOK /\ CapacityInv /\ WindowInv

-----------------------------------------------------------------------------
(* A refill computes at most the rate and at most the room left, however   *)
(* many tokens it finds: limit_bucket.go:90-96.                            *)
LEMMA NewTokensBounded ==
  ASSUME NEW len \in 0..MaxCapacity
  PROVE  /\ NewTokens(len) \in 0..RefillRate
         /\ len + NewTokens(len) <= MaxCapacity
  BY BucketAssumption DEF NewTokens

(* One more tick allows one more refill.                                   *)
LEMMA AllowanceStep ==
  ASSUME NEW t \in Nat
  PROVE  /\ Allowance(t) \in Nat
         /\ Allowance(t) >= MaxCapacity + RefillRate
         /\ Allowance(t + 1) = Allowance(t) + RefillRate
<1>1. RefillRate * (t + 1) = RefillRate * t + RefillRate
  BY BucketAssumption
<1>2. RefillRate * (t + 1 + 1) = RefillRate * (t + 1) + RefillRate
  BY BucketAssumption
<1>3. RefillRate * t \in Nat
  BY BucketAssumption
<1> QED BY <1>1, <1>2, <1>3, BucketAssumption DEF Allowance

(* Removing one element from a queue of callers leaves a queue of callers. *)
LEMMA RemoveAtType ==
  ASSUME NEW S, NEW s \in Seq(S), NEW i \in 1..Len(s)
  PROVE  RemoveAt(s, i) \in Seq(S)
  BY DEF RemoveAt

(* Initially the bucket is empty and the invariant holds.                  *)
LEMMA InitIInv == Init => IInv
<1> SUFFICES ASSUME Init PROVE IInv
  OBVIOUS
<1> USE BucketAssumption DEF Init
<1>1. /\ tokens \in 0..MaxCapacity /\ toSend \in 0..RefillRate
      /\ refiller \in {"select", "sending", "reporting", "stopped"}
  OBVIOUS
<1>2. full \in BOOLEAN /\ ticked \in BOOLEAN /\ bucketCtx \in {"live", "cancelled"}
  OBVIOUS
<1>3. /\ recvq \in Seq(Callers)
      /\ caller \in [Callers -> {"idle", "waiting", "calling"}]
      /\ reqCtx \in [Callers -> {"live", "done"}]
  OBVIOUS
<1>4. window \in [open : BOOLEAN, granted : Nat, ticks : 0..WindowTicks]
  BY DEF ClosedWindow
<1>5. TypeOK
  BY <1>1, <1>2, <1>3, <1>4 DEF TypeOK
<1>6. CapacityInv
  BY DEF CapacityInv
<1>7. WindowInv
  BY DEF WindowInv, ClosedWindow
<1> QED BY <1>5, <1>6, <1>7 DEF IInv

(* The numbers of WindowInv are naturals.                                  *)
LEMMA PotentialType ==
  ASSUME TypeOK
  PROVE  /\ Potential \in Nat
         /\ window.granted \in Nat /\ window.granted <= Potential
         /\ window.ticks \in Nat
         /\ Allowance(window.ticks) \in Nat
<1>1. /\ window.granted \in Nat /\ window.ticks \in Nat
      /\ tokens \in Nat /\ toSend \in Nat /\ Owed \in Nat
  BY BucketAssumption DEF TypeOK, Owed
<1> QED BY <1>1, AllowanceStep DEF Potential

(* A step that opens no window and counts no tick keeps WindowInv when the *)
(* potential does not grow.                                                *)
LEMMA PotentialKept ==
  ASSUME IInv, TypeOK',
         window'.open => window.open, window'.ticks = window.ticks,
         window.open => Potential' <= Potential
  PROVE  WindowInv'
<1> SUFFICES ASSUME window'.open PROVE Potential' <= Allowance(window'.ticks)
  BY DEF WindowInv
<1>1. Potential <= Allowance(window.ticks) /\ Potential' <= Potential
  BY DEF IInv, WindowInv
<1>2. Potential \in Nat /\ Allowance(window.ticks) \in Nat
  BY PotentialType DEF IInv
<1>3. window'.granted \in Nat /\ tokens' \in Nat /\ toSend' \in Nat /\ Owed' \in Nat
  BY BucketAssumption DEF TypeOK, Owed
<1>4. Potential' \in Nat
  BY <1>3 DEF Potential
<1> QED BY <1>1, <1>2, <1>4

(* Handing out one token keeps the window's type and adds one to it.       *)
LEMMA GrantStep ==
  ASSUME TypeOK, Grant(1)
  PROVE  /\ window' \in [open : BOOLEAN, granted : Nat, ticks : 0..WindowTicks]
         /\ window'.open = window.open
         /\ window'.ticks = window.ticks
         /\ window.open => window'.granted = window.granted + 1
  BY DEF TypeOK, Grant

(* Every step of the bucket, of its callers and of time keeps IInv.        *)
LEMMA NextIInv == IInv /\ [Next]_vars => IInv'
<1> SUFFICES ASSUME IInv, [Next]_vars PROVE IInv'
  OBVIOUS
<1> USE BucketAssumption DEF IInv
<1>1. CASE OpenWindow
  <2>1. /\ window' = [open |-> TRUE, granted |-> 0, ticks |-> 0]
        /\ UNCHANGED <<bucketVars, callerVars>>
    BY <1>1 DEF OpenWindow, ClosedWindow
  <2>2. Allowance(0) >= MaxCapacity + RefillRate
    BY AllowanceStep
  <2>3. TypeOK'
    BY <2>1 DEF TypeOK, bucketVars, callerVars
  <2>4. CapacityInv'
    BY <2>1 DEF CapacityInv, bucketVars
  <2>5. WindowInv'
    <3>1. /\ window'.granted = 0 /\ window'.ticks = 0
          /\ tokens' = tokens /\ toSend' = toSend /\ Owed' = Owed
      BY <2>1 DEF bucketVars, Owed
    <3>2. /\ tokens \in Nat /\ toSend \in Nat /\ tokens + toSend <= MaxCapacity
          /\ Owed \in Nat /\ Owed <= RefillRate
      BY DEF TypeOK, CapacityInv, Owed
    <3>3. Potential' <= MaxCapacity + RefillRate
      BY <3>1, <3>2 DEF Potential
    <3>4. Potential' \in Nat /\ Allowance(0) \in Nat
      BY <3>1, <3>2, AllowanceStep DEF Potential
    <3>5. Potential' <= Allowance(0)
      BY <2>2, <3>3, <3>4
    <3> QED BY <3>1, <3>5 DEF WindowInv
  <2> QED BY <2>3, <2>4, <2>5
<1>2. CASE Tick
  <2>1. UNCHANGED <<tokens, recvq, refiller, toSend, full, bucketCtx, caller, reqCtx>>
        /\ ticked' = TRUE
    BY <1>2 DEF Tick, callerVars
  <2>2. /\ window' \in [open : BOOLEAN, granted : Nat, ticks : 0..WindowTicks]
        /\ window'.open => /\ window.open
                           /\ window'.granted = window.granted
                           /\ window'.ticks = window.ticks + 1
    <3>1. CASE ~window.open
      BY <1>2, <3>1 DEF Tick, TypeOK
    <3>2. CASE window.open /\ window.ticks < WindowTicks
      <4>1. window' = [window EXCEPT !.ticks = @ + 1]
        BY <1>2, <3>2 DEF Tick
      <4> QED BY <4>1, <3>2 DEF TypeOK
    <3>3. CASE window.open /\ ~(window.ticks < WindowTicks)
      <4>1. window' = ClosedWindow
        BY <1>2, <3>3 DEF Tick
      <4> QED BY <4>1, <3>3 DEF TypeOK, ClosedWindow
    <3> QED BY <3>1, <3>2, <3>3
  <2>3. TypeOK'
    BY <2>1, <2>2 DEF TypeOK
  <2>4. CapacityInv'
    BY <2>1 DEF CapacityInv
  <2>5. WindowInv'
    <3> SUFFICES ASSUME window'.open PROVE Potential' <= Allowance(window'.ticks)
      BY DEF WindowInv
    <3>1. /\ Potential \in Nat /\ window.ticks \in Nat /\ window.granted \in Nat
          /\ Allowance(window.ticks) \in Nat
          /\ Potential <= Allowance(window.ticks)
      BY <2>2, PotentialType DEF WindowInv
    <3>2. Allowance(window'.ticks) = Allowance(window.ticks) + RefillRate
      BY <2>2, <3>1, AllowanceStep
    <3>3. /\ tokens \in Nat /\ toSend \in Nat
          /\ Owed \in Nat /\ Owed' = RefillRate
      BY <2>1 DEF TypeOK, Owed
    <3>4. Potential' <= Potential + RefillRate
      BY <2>1, <2>2, <3>1, <3>3 DEF Potential
    <3>5. Potential' \in Nat
      BY <2>1, <2>2, <3>1, <3>3 DEF Potential
    <3> QED BY <3>1, <3>2, <3>4, <3>5
  <2> QED BY <2>3, <2>4, <2>5
<1>3. CASE BeginRefill
  <2>1. /\ ticked /\ ticked' = FALSE /\ refiller = "select"
        /\ toSend' = NewTokens(tokens) /\ refiller' = "sending"
        /\ full' = IsFull(tokens)
        /\ UNCHANGED <<tokens, recvq, bucketCtx, caller, reqCtx, window>>
    BY <1>3 DEF BeginRefill, callerVars
  <2>2. tokens \in 0..MaxCapacity /\ toSend = 0
    BY <2>1 DEF TypeOK, CapacityInv
  <2>3. toSend' \in 0..RefillRate /\ tokens + toSend' <= MaxCapacity
    BY <2>1, <2>2, NewTokensBounded
  <2>4. TypeOK'
    <3>1. full' \in BOOLEAN
      BY <2>1, <2>2 DEF IsFull
    <3> QED BY <2>1, <2>3, <3>1 DEF TypeOK
  <2>5. CapacityInv'
    BY <2>1, <2>3 DEF CapacityInv
  <2>6. WindowInv'
    <3>1. Owed = RefillRate /\ Owed' = 0
      BY <2>1 DEF Owed
    <3>2. Potential' <= Potential
      BY <2>1, <2>2, <2>3, <3>1, PotentialType DEF Potential
    <3> QED BY <2>1, <2>4, <3>2, PotentialKept
  <2> QED BY <2>4, <2>5, <2>6
<1>4. CASE SendToken /\ HandOff
  <2>1. /\ recvq # <<>> /\ recvq' = Tail(recvq)
        /\ caller' = [caller EXCEPT ![Head(recvq)] = "calling"]
        /\ toSend > 0 /\ toSend' = toSend - 1
        /\ Grant(1)
        /\ UNCHANGED <<tokens, refiller, full, ticked, bucketCtx, reqCtx>>
    BY <1>4 DEF SendToken, HandOff
  <2>2. TypeOK'
    BY <2>1, GrantStep DEF TypeOK
  <2>3. CapacityInv'
    BY <2>1 DEF CapacityInv, TypeOK
  <2>4. WindowInv'
    <3>1. Owed' = Owed /\ Owed \in Nat /\ tokens \in Nat /\ toSend \in Nat
      BY <2>1 DEF Owed, TypeOK
    <3>2. window.open => Potential' <= Potential
      BY SMTT(30), <2>1, <3>1, GrantStep, PotentialType DEF Potential
    <3> QED BY <2>1, <2>2, <3>2, GrantStep, PotentialKept
  <2> QED BY <2>2, <2>3, <2>4
<1>5. CASE SendToken /\ Buffer
  BY <1>5 DEF SendToken, Buffer, TypeOK, CapacityInv, WindowInv, Potential, Owed
<1>6. CASE EndRefill
  BY <1>6 DEF EndRefill, callerVars, TypeOK, CapacityInv, WindowInv, Potential, Owed
<1>7. CASE Report
  BY <1>7 DEF Report, callerVars, TypeOK, CapacityInv, WindowInv, Potential, Owed
<1>8. CASE Stop
  <2>1. TypeOK' /\ CapacityInv'
    BY <1>8 DEF Stop, callerVars, TypeOK, CapacityInv
  <2>2. WindowInv'
    <3>1. /\ UNCHANGED <<tokens, toSend, window>>
          /\ Owed \in Nat /\ Owed' = 0
      BY <1>8 DEF Stop, Owed
    <3>2. Potential' <= Potential
      BY <3>1, PotentialType DEF Potential, TypeOK
    <3> QED BY <2>1, <3>1, <3>2, PotentialKept
  <2> QED BY <2>1, <2>2
<1>9. CASE CancelBucket
  BY <1>9 DEF CancelBucket, callerVars, TypeOK, CapacityInv, WindowInv, Potential, Owed
<1>10. ASSUME NEW c \in Callers, TakeToken(c) PROVE IInv'
  <2>1. /\ tokens > 0 /\ tokens' = tokens - 1
        /\ caller' = [caller EXCEPT ![c] = "calling"]
        /\ Grant(1)
        /\ UNCHANGED <<recvq, refiller, toSend, full, ticked, bucketCtx, reqCtx>>
    BY <1>10 DEF TakeToken
  <2>2. TypeOK'
    BY <2>1, GrantStep DEF TypeOK
  <2>3. CapacityInv'
    BY <2>1 DEF CapacityInv, TypeOK
  <2>4. WindowInv'
    <3>1. Owed' = Owed /\ Owed \in Nat /\ tokens \in Nat /\ toSend \in Nat
      BY <2>1 DEF Owed, TypeOK
    <3>2. window.open => Potential' <= Potential
      BY <2>1, <3>1, GrantStep, PotentialType DEF Potential
    <3> QED BY <2>1, <2>2, <3>2, GrantStep, PotentialKept
  <2> QED BY <2>2, <2>3, <2>4
<1>11. ASSUME NEW c \in Callers, Block(c) PROVE IInv'
  BY <1>11 DEF Block, TypeOK, CapacityInv, WindowInv, Potential, Owed
<1>12. ASSUME NEW c \in Callers, GiveUpAtOnce(c) PROVE IInv'
  BY <1>12 DEF GiveUpAtOnce, bucketVars, TypeOK, CapacityInv, WindowInv, Potential, Owed
<1>13. ASSUME NEW c \in Callers, GiveUp(c) PROVE IInv'
  BY <1>13, RemoveAtType DEF GiveUp, TypeOK, CapacityInv, WindowInv, Potential, Owed
<1>14. ASSUME NEW c \in Callers, CallReturns(c) \/ NewRequest(c) \/ CancelRequest(c)
       PROVE  IInv'
  BY <1>14 DEF CallReturns, NewRequest, CancelRequest, bucketVars, TypeOK,
               CapacityInv, WindowInv, Potential, Owed
<1>15. CASE UNCHANGED vars
  BY <1>15 DEF vars, bucketVars, callerVars, TypeOK, CapacityInv, WindowInv, Potential, Owed
<1> QED
  BY <1>1, <1>2, <1>3, <1>4, <1>5, <1>6, <1>7, <1>8, <1>9, <1>10, <1>11, <1>12,
     <1>13, <1>14, <1>15
  DEF Next, Refiller, CallerStep, SendToken

-----------------------------------------------------------------------------
(* IInv is an invariant of the specification.                              *)
THEOREM Invariance == Spec => []IInv
<1>1. Init => IInv
  BY InitIInv
<1>2. IInv /\ [Next]_vars => IInv'
  BY NextIInv
<1> QED BY <1>1, <1>2, PTL DEF Spec

(* The variables keep their types.                                         *)
THEOREM TypeCorrect == Spec => []TypeOK
<1>1. IInv => TypeOK
  BY DEF IInv
<1> QED BY <1>1, Invariance, PTL

(* refill never blocks on a full channel, whatever callers take while it   *)
(* sends (limit_bucket.go:87-101).                                         *)
THEOREM NeverBlocks == Spec => []RefillNeverBlocks
<1>1. IInv => RefillNeverBlocks
  BY BucketAssumption DEF IInv, TypeOK, CapacityInv, RefillNeverBlocks
<1> QED BY <1>1, Invariance, PTL

(* In any window callers get at most MaxCapacity tokens and RefillRate per *)
(* tick of the window and one tick more.                                   *)
THEOREM Throttled == Spec => []WindowBound
<1>1. IInv => WindowBound
  <2> SUFFICES ASSUME IInv, window.open
               PROVE window.granted <= Allowance(window.ticks)
    BY DEF WindowBound
  <2>1. Potential <= Allowance(window.ticks)
    BY DEF IInv, WindowInv
  <2> QED BY <2>1, PotentialType DEF IInv
<1> QED BY <1>1, Invariance, PTL

-----------------------------------------------------------------------------
(* Who is in the queue waits, and is in it once.                           *)
QueueInv ==
  /\ \A i \in 1..Len(recvq) : caller[recvq[i]] = "waiting"
  /\ \A i, j \in 1..Len(recvq) : recvq[i] = recvq[j] => i = j

(* Removing an element moves those behind it up by one.                    *)
LEMMA RemoveAtElements ==
  ASSUME NEW S, NEW s \in Seq(S), NEW i \in 1..Len(s)
  PROVE  /\ Len(RemoveAt(s, i)) = Len(s) - 1
         /\ \A k \in 1..Len(s) - 1 :
              RemoveAt(s, i)[k] = IF k < i THEN s[k] ELSE s[k + 1]
<1> DEFINE front == SubSeq(s, 1, i - 1)
           back == SubSeq(s, i + 1, Len(s))
<1>1. Len(s) \in Nat /\ i \in Int /\ 1 <= i /\ i <= Len(s)
  OBVIOUS
<1>2. /\ front \in Seq(S) /\ Len(front) = i - 1
      /\ \A k \in 1..i - 1 : front[k] = s[k]
  BY <1>1
<1>3. /\ back \in Seq(S) /\ Len(back) = Len(s) - i
      /\ \A k \in 1..Len(s) - i : back[k] = s[i + k]
  BY <1>1
<1>4. RemoveAt(s, i) = front \o back
  BY DEF RemoveAt
<1> HIDE DEF front, back
<1>5. /\ Len(front \o back) = Len(s) - 1
      /\ \A k \in 1..Len(s) - 1 :
           (front \o back)[k] = IF k < i THEN front[k] ELSE back[k - (i - 1)]
  <2>1. /\ Len(front \o back) = Len(front) + Len(back)
        /\ \A k \in 1..Len(front) + Len(back) :
             (front \o back)[k] =
               IF k <= Len(front) THEN front[k] ELSE back[k - Len(front)]
    BY <1>2, <1>3, ConcatProperties
  <2>2. Len(front) + Len(back) = Len(s) - 1
    BY <1>1, <1>2, <1>3
  <2>3. \A k \in 1..Len(s) - 1 : (k <= Len(front)) = (k < i)
    BY <1>1, <1>2
  <2> QED BY <1>2, <2>1, <2>2, <2>3
<1>6. \A k \in 1..Len(s) - 1 :
        IF k < i THEN front[k] = s[k] ELSE back[k - (i - 1)] = s[k + 1]
  <2> SUFFICES ASSUME NEW k \in 1..Len(s) - 1
               PROVE  IF k < i THEN front[k] = s[k] ELSE back[k - (i - 1)] = s[k + 1]
    OBVIOUS
  <2>1. CASE k < i
    BY <1>1, <1>2, <2>1
  <2>2. CASE ~(k < i)
    <3>1. k - (i - 1) \in 1..Len(s) - i /\ i + (k - (i - 1)) = k + 1
      BY <1>1, <2>2
    <3> QED BY <1>3, <2>2, <3>1
  <2> QED BY <2>1, <2>2
<1> QED BY <1>4, <1>5, <1>6

(* Every step keeps QueueInv.                                              *)
LEMMA NextQueueInv ==
  ASSUME TypeOK, QueueInv, [Next]_vars
  PROVE  QueueInv'
<1> USE DEF QueueInv
<1>0. /\ recvq \in Seq(Callers) /\ Len(recvq) \in Nat
      /\ caller \in [Callers -> {"idle", "waiting", "calling"}]
  BY DEF TypeOK
<1>1. CASE UNCHANGED <<recvq, caller>>
  BY <1>1 DEF QueueInv
<1>2. CASE HandOff
  <2>1. /\ recvq # <<>> /\ recvq' = Tail(recvq)
        /\ caller' = [caller EXCEPT ![recvq[1]] = "calling"]
    BY <1>0, <1>2 DEF HandOff
  <2>2. /\ Len(recvq') = Len(recvq) - 1
        /\ \A k \in 1..Len(recvq') : recvq'[k] = recvq[k + 1]
    BY <1>0, <2>1
  <2>3. \A k \in 1..Len(recvq') : k + 1 \in 1..Len(recvq) /\ k + 1 # 1
    BY <1>0, <2>1, <2>2
  <2>4. 1 \in 1..Len(recvq)
    BY <1>0, <2>1
  <2>5. \A k \in 1..Len(recvq') : recvq'[k] \in Callers /\ recvq'[k] # recvq[1]
    BY <1>0, <2>2, <2>3, <2>4
  <2>6. \A k \in 1..Len(recvq') : caller'[recvq'[k]] = "waiting"
    BY <1>0, <2>1, <2>2, <2>3, <2>5
  <2>7. \A j, k \in 1..Len(recvq') : recvq'[j] = recvq'[k] => j = k
    <3> SUFFICES ASSUME NEW j \in 1..Len(recvq'), NEW k \in 1..Len(recvq'),
                        recvq'[j] = recvq'[k]
                 PROVE  j = k
      OBVIOUS
    <3>1. j + 1 = k + 1
      BY <2>2, <2>3
    <3> QED BY <3>1
  <2> QED BY <2>6, <2>7
<1>3. ASSUME NEW c \in Callers, Block(c) PROVE QueueInv'
  <2>1. /\ caller[c] = "idle" /\ recvq' = Append(recvq, c)
        /\ caller' = [caller EXCEPT ![c] = "waiting"]
    BY <1>3 DEF Block
  <2>2. /\ Len(recvq') = Len(recvq) + 1
        /\ \A k \in 1..Len(recvq) : recvq'[k] = recvq[k]
        /\ recvq'[Len(recvq) + 1] = c
    BY <1>0, <2>1
  <2>3. \A k \in 1..Len(recvq) : recvq[k] \in Callers /\ recvq[k] # c
    BY <1>0, <2>1
  <2>4. \A k \in 1..Len(recvq') : k \in 1..Len(recvq) \/ k = Len(recvq) + 1
    BY <1>0, <2>2
  <2>5. \A k \in 1..Len(recvq') : caller'[recvq'[k]] = "waiting"
    BY <1>0, <2>1, <2>2, <2>3, <2>4
  <2>6. \A j, k \in 1..Len(recvq') : recvq'[j] = recvq'[k] => j = k
    BY <2>2, <2>3, <2>4
  <2> QED BY <2>5, <2>6
<1>4. ASSUME NEW c \in Callers, GiveUp(c) PROVE QueueInv'
  <2>1. /\ caller[c] = "waiting"
        /\ caller' = [caller EXCEPT ![c] = "calling"]
    BY <1>4 DEF GiveUp
  <2>2. PICK i \in 1..Len(recvq) : recvq[i] = c /\ recvq' = RemoveAt(recvq, i)
    BY <1>4 DEF GiveUp
  <2> DEFINE at(k) == IF k < i THEN k ELSE k + 1
  <2>3. /\ Len(recvq') = Len(recvq) - 1
        /\ \A k \in 1..Len(recvq') : recvq'[k] = recvq[at(k)]
    <3>1. /\ Len(RemoveAt(recvq, i)) = Len(recvq) - 1
          /\ \A k \in 1..Len(recvq) - 1 :
               RemoveAt(recvq, i)[k] = IF k < i THEN recvq[k] ELSE recvq[k + 1]
      BY <1>0, <2>2, RemoveAtElements
    <3> QED BY <2>2, <3>1
  <2>4. \A k \in 1..Len(recvq') : at(k) \in 1..Len(recvq) /\ at(k) # i
    BY <1>0, <2>2, <2>3
  <2>5. \A j, k \in 1..Len(recvq') : at(j) = at(k) => j = k
    BY <1>0, <2>2, <2>3
  <2> HIDE DEF at
  <2>6. \A k \in 1..Len(recvq') : recvq'[k] \in Callers /\ recvq'[k] # c
    BY <1>0, <2>2, <2>3, <2>4
  <2>7. \A k \in 1..Len(recvq') : caller'[recvq'[k]] = "waiting"
    BY <1>0, <2>1, <2>3, <2>4, <2>6
  <2>8. \A j, k \in 1..Len(recvq') : recvq'[j] = recvq'[k] => j = k
    BY <2>3, <2>4, <2>5
  <2> QED BY <2>7, <2>8
<1>5. ASSUME NEW c \in Callers, recvq' = recvq, caller[c] # "waiting",
             NEW state, caller' = [caller EXCEPT ![c] = state]
      PROVE  QueueInv'
  <2>1. \A k \in 1..Len(recvq) : recvq[k] \in Callers /\ recvq[k] # c
    BY <1>0, <1>5
  <2> QED BY <1>0, <1>5, <2>1
<1>6. ASSUME NEW c \in Callers,
             TakeToken(c) \/ GiveUpAtOnce(c) \/ CallReturns(c)
      PROVE  QueueInv'
  <2>1. /\ recvq' = recvq /\ caller[c] # "waiting"
        /\ \E state \in {"calling", "idle"} : caller' = [caller EXCEPT ![c] = state]
    BY <1>6 DEF TakeToken, GiveUpAtOnce, CallReturns, bucketVars
  <2> QED BY <1>5, <2>1
<1>7. ASSUME NEW c \in Callers, NewRequest(c) \/ CancelRequest(c) PROVE QueueInv'
  BY <1>1, <1>7 DEF NewRequest, CancelRequest, bucketVars
<1>8. CASE OpenWindow \/ Tick \/ BeginRefill \/ EndRefill \/ Report \/ Stop \/ CancelBucket
  BY <1>1, <1>8 DEF OpenWindow, Tick, BeginRefill, EndRefill, Report, Stop,
                    CancelBucket, bucketVars, callerVars
<1>9. CASE UNCHANGED vars
  BY <1>1, <1>9 DEF vars, bucketVars, callerVars
<1>10. CASE SendToken
  BY <1>1, <1>2, <1>10 DEF SendToken, Buffer
<1> QED BY <1>3, <1>4, <1>6, <1>7, <1>8, <1>9, <1>10 DEF Next, Refiller, CallerStep

(* The queue of a channel's receivers holds each caller that is parked in  *)
(* Wait once, and nobody who left it: no token is handed to a caller that  *)
(* does not wait for one.                                                  *)
THEOREM QueuedOnce == Spec => []QueueInv
<1>1. Init => QueueInv
  BY DEF Init, QueueInv
<1>2. TypeOK /\ QueueInv /\ [Next]_vars => QueueInv'
  BY NextQueueInv
<1> QED BY <1>1, <1>2, TypeCorrect, PTL DEF Spec
=============================================================================
