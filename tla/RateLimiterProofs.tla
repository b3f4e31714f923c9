------------------------- MODULE RateLimiterProofs --------------------------
(***************************************************************************)
(* The window of the limiter holds for any number of callers, any limit    *)
(* and any length of the window.  Two specifications contain the limiter,  *)
(* SideServices and SyncJobs; both proofs rest on these lemmas: the        *)
(* invariant LimiterInv relates the recorded calls to the permits given,   *)
(* and the sleeper to the oldest call.                                     *)
(***************************************************************************)
EXTENDS RateLimiter, SequenceTheorems, TLAPS

Ages == 0 .. TimeWindow
Outdated == Len(calls) - Len(permits)

PermitsAreCalls ==
  /\ Len(permits) <= Len(calls) /\ Len(calls) <= MaxCalls
  /\ \A i \in 1 .. Len(permits) : permits[i] = calls[i + Outdated] /\ permits[i] < TimeWindow
  /\ \A i \in 1 .. Outdated : calls[i] = TimeWindow
  /\ \A i, j \in 1 .. Len(calls) : i <= j => calls[j] <= calls[i]

SleeperKnowsOldest ==
  /\ \A s, t \in sleeping : s = t
  /\ \A s \in sleeping : Len(calls) > 0 /\ s.left = TimeWindow - calls[1]

LimiterInv == LimiterTypeOK /\ PermitsAreCalls /\ SleeperKnowsOldest

\* A new limiter has granted nothing.
LEMMA LimiterInitially ==
  LimiterInit => LimiterInv
BY LimiterAssumption, EmptySeq
DEF LimiterInit, LimiterInv, LimiterTypeOK, PermitsAreCalls, SleeperKnowsOldest, Outdated

\* The popleft loop keeps a suffix, all of it inside the window.
LEMMA SuffixRemains ==
  ASSUME NEW s \in Seq(Ages), NEW w \in InWindow(s)
  PROVE  \E n \in 0 .. Len(s) :
           /\ w \in Seq(Ages) /\ Len(w) = Len(s) - n
           /\ \A i \in 1 .. Len(w) : w[i] = s[n + i]
           /\ \A i \in 1 .. n : s[i] = TimeWindow
           /\ n < Len(s) => s[n + 1] < TimeWindow
<1>1. PICK n \in 0 .. Len(s) :
        /\ w = SubSeq(s, n + 1, Len(s))
        /\ \A i \in 1 .. n : s[i] >= TimeWindow
        /\ n < Len(s) => s[n + 1] < TimeWindow
  BY DEF InWindow
<1>2. Len(s) \in Nat /\ \A i \in 1 .. Len(s) : s[i] \in Ages
  BY LenProperties, ElementOfSeq
<1>3. \A i \in n + 1 .. Len(s) : s[i] \in Ages
  BY <1>2
<1>4. /\ w \in Seq(Ages)
      /\ Len(w) = IF n + 1 <= Len(s) THEN Len(s) - (n + 1) + 1 ELSE 0
      /\ \A i \in 1 .. Len(s) - (n + 1) + 1 : w[i] = s[n + 1 + i - 1]
  BY <1>1, <1>2, <1>3, SubSeqProperties
<1>5. Len(w) = Len(s) - n
  BY <1>2, <1>4
<1>6. \A i \in 1 .. Len(w) : w[i] = s[n + i]
  BY <1>2, <1>4, <1>5
<1>7. \A i \in 1 .. n : s[i] = TimeWindow
  BY <1>1, <1>2, LimiterAssumption DEF Ages
<1> QED
  BY <1>1, <1>4, <1>5, <1>6, <1>7

\* What the loop leaves of the calls are the permits of the window.
LEMMA RecentArePermits ==
  ASSUME LimiterInv, NEW recent \in InWindow(calls)
  PROVE  recent = permits
<1>1. calls \in Seq(Ages) /\ permits \in Seq(Ages) /\ PermitsAreCalls
  BY DEF LimiterInv, LimiterTypeOK, Ages
<1>2. PICK n \in 0 .. Len(calls) :
        /\ recent \in Seq(Ages) /\ Len(recent) = Len(calls) - n
        /\ \A i \in 1 .. Len(recent) : recent[i] = calls[n + i]
        /\ \A i \in 1 .. n : calls[i] = TimeWindow
        /\ n < Len(calls) => calls[n + 1] < TimeWindow
  BY <1>1, SuffixRemains
<1>3. Len(calls) \in Nat /\ Len(permits) \in Nat /\ TimeWindow \in Nat
  BY <1>1, LenProperties, LimiterAssumption
<1>4. n <= Outdated
  <2> SUFFICES ASSUME n > Outdated PROVE FALSE
    BY <1>3 DEF Outdated
  <2>1. n - Outdated \in 1 .. Len(permits)
    BY <1>1, <1>3 DEF Outdated, PermitsAreCalls
  <2>2. permits[n - Outdated] = calls[(n - Outdated) + Outdated] /\ permits[n - Outdated] < TimeWindow
    BY <1>1, <2>1 DEF PermitsAreCalls
  <2>3. (n - Outdated) + Outdated = n
    BY <1>3 DEF Outdated
  <2>4. n \in 1 .. n
    BY <1>1, <1>3, <2>1 DEF Outdated, PermitsAreCalls
  <2>5. calls[n] = TimeWindow
    BY <1>2, <2>4
  <2> QED
    BY <1>3, <2>2, <2>3, <2>5
<1>5. n >= Outdated
  <2> SUFFICES ASSUME n < Outdated PROVE FALSE
    BY <1>3 DEF Outdated
  <2>1. n + 1 \in 1 .. Outdated /\ n < Len(calls)
    BY <1>3 DEF Outdated
  <2>2. calls[n + 1] = TimeWindow
    BY <1>1, <2>1 DEF PermitsAreCalls
  <2> QED
    BY <1>2, <1>3, <2>1, <2>2
<1>6. n = Outdated
  BY <1>3, <1>4, <1>5 DEF Outdated
<1>7. Len(recent) = Len(permits)
  BY <1>2, <1>3, <1>6 DEF Outdated
<1>8. ASSUME NEW i \in 1 .. Len(recent) PROVE recent[i] = permits[i]
  <2>1. recent[i] = calls[n + i]
    BY <1>2
  <2>2. permits[i] = calls[i + Outdated]
    BY <1>1, <1>7 DEF PermitsAreCalls
  <2>3. n + i = i + Outdated
    BY <1>3, <1>6 DEF Outdated
  <2> QED
    BY <2>1, <2>2, <2>3
<1> QED
  BY <1>1, <1>2, <1>7, <1>8, SeqEqual

\* A permit granted below the limit.
LEMMA PermitGranted ==
  ASSUME LimiterInv, Len(permits) < MaxCalls, NEW recent \in InWindow(calls), GrantPermit(recent)
  PROVE  calls' \in Seq(Ages) /\ permits' \in Seq(Ages) /\ PermitsAreCalls'
<1> DEFINE P == permits
<1>1. P \in Seq(Ages) /\ Len(P) \in Nat /\ TimeWindow \in Nat \ {0} /\ MaxCalls \in Nat /\ 0 \in Ages
  BY LenProperties, LimiterAssumption DEF LimiterInv, LimiterTypeOK, Ages
<1>2. calls' = Append(P, 0) /\ permits' = Append(P, 0)
  BY RecentArePermits DEF GrantPermit
<1>3. /\ Append(P, 0) \in Seq(Ages)
      /\ Len(Append(P, 0)) = Len(P) + 1
      /\ \A i \in 1 .. Len(P) : Append(P, 0)[i] = P[i]
      /\ Append(P, 0)[Len(P) + 1] = 0
  BY <1>1, AppendProperties
<1> DEFINE A == Append(P, 0)
<1>4. Outdated' = 0
  BY <1>1, <1>2, <1>3 DEF Outdated
<1> HIDE DEF A
<1>5. \A i \in 1 .. Len(A) : A[i] < TimeWindow
  <2> SUFFICES ASSUME NEW i \in 1 .. Len(P) + 1 PROVE A[i] < TimeWindow
    BY <1>3 DEF A
  <2>1. CASE i = Len(P) + 1
    BY <1>1, <1>3, <2>1 DEF A
  <2>2. CASE i # Len(P) + 1
    <3>1. i \in 1 .. Len(P)
      BY <1>1, <2>2
    <3> QED
      BY <1>3, <3>1 DEF LimiterInv, PermitsAreCalls, A
  <2> QED
    BY <2>1, <2>2
<1>6. ASSUME NEW i \in 1 .. Len(A), NEW j \in 1 .. Len(A), i <= j PROVE A[j] <= A[i]
  <2>0. i \in 1 .. Len(P) + 1 /\ j \in 1 .. Len(P) + 1 /\ \A k \in 1 .. Len(P) : P[k] \in Ages
    BY <1>1, <1>3, ElementOfSeq DEF A
  <2>1. CASE j = Len(P) + 1
    <3>1. A[j] = 0 /\ A[i] \in Ages
      BY <1>3, <2>1, ElementOfSeq DEF A
    <3> QED
      BY <1>1, <3>1 DEF Ages
  <2>2. CASE j # Len(P) + 1
    <3>1. i \in 1 .. Len(P) /\ j \in 1 .. Len(P)
      BY <1>1, <1>6, <2>0, <2>2
    <3>2. A[i] = P[i] /\ A[j] = P[j]
      BY <1>3, <3>1 DEF A
    <3>3. P[i] = calls[i + Outdated] /\ P[j] = calls[j + Outdated]
      BY <3>1 DEF LimiterInv, PermitsAreCalls
    <3>4. Len(calls) \in Nat /\ Len(P) <= Len(calls)
      BY LenProperties DEF LimiterInv, LimiterTypeOK, PermitsAreCalls
    <3>5. i + Outdated \in 1 .. Len(calls) /\ j + Outdated \in 1 .. Len(calls)
          /\ i + Outdated <= j + Outdated
      BY <1>1, <1>6, <3>1, <3>4 DEF Outdated
    <3> QED
      BY <3>2, <3>3, <3>5 DEF LimiterInv, PermitsAreCalls
  <2> QED
    BY <2>1, <2>2
<1>7. calls' = A /\ permits' = A /\ Len(A) \in Nat /\ Len(A) <= MaxCalls
  BY <1>1, <1>2, <1>3 DEF A
<1> QED
  BY <1>3, <1>4, <1>5, <1>6, <1>7 DEF PermitsAreCalls, A

\* A unit of time ages every call that is still in the window.
LEMMA OlderProperties ==
  ASSUME NEW s \in Seq(Ages)
  PROVE  /\ Older(s) \in Seq(Ages) /\ Len(Older(s)) = Len(s)
         /\ \A i \in 1 .. Len(s) : Older(s)[i] = IF s[i] < TimeWindow THEN s[i] + 1 ELSE s[i]
<1>1. Len(s) \in Nat /\ \A i \in 1 .. Len(s) : s[i] \in Ages
  BY LenProperties, ElementOfSeq
<1>2. \A i \in 1 .. Len(s) : (IF s[i] < TimeWindow THEN s[i] + 1 ELSE s[i]) \in Ages
  BY <1>1, LimiterAssumption DEF Ages
<1> QED
  BY <1>1, <1>2 DEF Older

\* Every permit, sleep, wake-up and unit of time keeps the window.
LEMMA LimiterKept ==
  LimiterInv /\ LimiterNext => LimiterInv'
<1> SUFFICES ASSUME LimiterInv, LimiterNext PROVE LimiterInv'
  OBVIOUS
<1>t. /\ calls \in Seq(Ages) /\ permits \in Seq(Ages) /\ PermitsAreCalls /\ SleeperKnowsOldest
      /\ sleeping \subseteq [who : Callers, left : Ages]
  BY DEF LimiterInv, LimiterTypeOK, Ages
<1>n. /\ Len(calls) \in Nat /\ Len(permits) \in Nat
      /\ TimeWindow \in Nat \ {0} /\ MaxCalls \in Nat \ {0}
  BY <1>t, LenProperties, LimiterAssumption
<1>1. CASE AcquireNow
  <2>1. PICK recent \in InWindow(calls) : Len(recent) < MaxCalls /\ GrantPermit(recent)
    BY <1>1 DEF AcquireNow
  <2>2. Len(permits) < MaxCalls
    BY <2>1, RecentArePermits
  <2>3. sleeping = {} /\ sleeping' = {}
    BY <1>1 DEF AcquireNow, LockFree
  <2> QED
    BY <2>1, <2>2, <2>3, PermitGranted DEF LimiterInv, LimiterTypeOK, SleeperKnowsOldest, Ages
<1>2. ASSUME NEW c \in Callers, AcquireSleeps(c) PROVE LimiterInv'
  <2>1. PICK recent \in InWindow(calls) :
          /\ Len(recent) >= MaxCalls
          /\ calls' = recent
          /\ sleeping' = sleeping \cup {[who |-> c, left |-> TimeWindow - recent[1]]}
    BY <1>2 DEF AcquireSleeps
  <2>2. calls' = permits /\ permits' = permits /\ Len(permits) >= MaxCalls
        /\ sleeping' = {[who |-> c, left |-> TimeWindow - permits[1]]}
    BY <1>2, <2>1, RecentArePermits DEF AcquireSleeps, LockFree
  <2>3. Outdated' = 0
    BY <1>n, <2>2 DEF Outdated
  <2>4. \A i \in 1 .. Len(permits) : i + Outdated \in 1 .. Len(calls)
    BY <1>n, <1>t DEF Outdated, PermitsAreCalls
  <2>5. ASSUME NEW i \in 1 .. Len(permits), NEW j \in 1 .. Len(permits), i <= j
        PROVE  permits[j] <= permits[i]
    <3>1. i + Outdated <= j + Outdated
      BY <1>n, <2>5 DEF Outdated
    <3> QED
      BY <1>t, <2>4, <3>1 DEF PermitsAreCalls
  <2>6. \A i \in 1 .. Len(permits) : permits[i] < TimeWindow /\ permits[i] = permits[i + 0]
    BY <1>t DEF PermitsAreCalls
  <2>7. PermitsAreCalls'
    BY <1>n, <1>t, <2>2, <2>3, <2>5, <2>6 DEF PermitsAreCalls
  <2>8. permits[1] \in Ages /\ TimeWindow - permits[1] \in Ages
    BY <1>n, <1>t, <2>2, ElementOfSeq DEF Ages
  <2>9. SleeperKnowsOldest'
    BY <1>n, <2>2 DEF SleeperKnowsOldest
  <2> QED
    BY <1>t, <2>2, <2>7, <2>8, <2>9 DEF LimiterInv, LimiterTypeOK, Ages
<1>3. ASSUME NEW c \in Callers, AcquireWakes(c) PROVE LimiterInv'
  <2>1. PICK s \in sleeping :
          /\ s.who = c /\ s.left = 0
          /\ \E recent \in InWindow(calls) : GrantPermit(recent)
          /\ sleeping' = sleeping \ {s}
    BY <1>3 DEF AcquireWakes
  <2>2. Len(calls) > 0 /\ TimeWindow - calls[1] = 0 /\ calls[1] \in Ages
    BY <1>n, <1>t, <2>1, ElementOfSeq DEF SleeperKnowsOldest
  <2>3. calls[1] = TimeWindow
    BY <1>n, <2>2 DEF Ages
  <2>4. Len(permits) < Len(calls)
    <3> SUFFICES ASSUME Len(permits) = Len(calls) PROVE FALSE
      BY <1>n, <1>t DEF PermitsAreCalls
    <3>1. 1 \in 1 .. Len(permits) /\ Outdated = 0
      BY <1>n, <2>2 DEF Outdated
    <3>2. permits[1] = calls[1 + 0] /\ permits[1] < TimeWindow
      BY <1>t, <3>1 DEF PermitsAreCalls
    <3> QED
      BY <1>n, <2>3, <3>2
  <2>5. Len(permits) < MaxCalls
    BY <1>n, <1>t, <2>4 DEF PermitsAreCalls
  <2>6. sleeping' = {}
    BY <1>t, <2>1 DEF SleeperKnowsOldest
  <2> QED
    BY <2>1, <2>5, <2>6, PermitGranted DEF LimiterInv, LimiterTypeOK, SleeperKnowsOldest, Ages
<1>4. CASE LimiterTick
  <2> DEFINE C == Older(calls)
             Q == Older(permits)
  <2>1. /\ C \in Seq(Ages) /\ Len(C) = Len(calls)
        /\ \A i \in 1 .. Len(calls) : C[i] = IF calls[i] < TimeWindow THEN calls[i] + 1 ELSE calls[i]
    BY <1>t, OlderProperties
  <2>2. /\ Q \in Seq(Ages) /\ Len(Q) = Len(permits)
        /\ \A i \in 1 .. Len(permits) : Q[i] = IF permits[i] < TimeWindow THEN permits[i] + 1 ELSE permits[i]
    BY <1>t, OlderProperties
  <2>3. calls' = C /\ permits' \in InWindow(Q)
        /\ sleeping' = {[s EXCEPT !.left = IF @ = 0 THEN 0 ELSE @ - 1] : s \in sleeping}
    BY <1>4 DEF LimiterTick
  <2> HIDE DEF C, Q
  <2>4. PICK n \in 0 .. Len(Q) :
          /\ permits' \in Seq(Ages) /\ Len(permits') = Len(Q) - n
          /\ \A i \in 1 .. Len(permits') : permits'[i] = Q[n + i]
          /\ \A i \in 1 .. n : Q[i] = TimeWindow
          /\ n < Len(Q) => Q[n + 1] < TimeWindow
    BY <2>2, <2>3, SuffixRemains
  <2>5. \A i \in 1 .. Len(calls) : calls[i] \in Ages /\ C[i] \in Ages
    BY <1>t, <2>1, ElementOfSeq
  <2>6. ASSUME NEW i \in 1 .. Len(calls), NEW j \in 1 .. Len(calls), i <= j PROVE C[j] <= C[i]
    <3>1. calls[j] <= calls[i]
      BY <1>t, <2>6 DEF PermitsAreCalls
    <3> QED
      BY <1>n, <2>1, <2>5, <3>1 DEF Ages
  <2>7. ASSUME NEW i \in 1 .. Len(permits) PROVE Q[i] = C[i + Outdated] /\ i + Outdated \in 1 .. Len(calls)
    <3>1. i + Outdated \in 1 .. Len(calls)
      BY <1>n, <1>t DEF Outdated, PermitsAreCalls
    <3>2. permits[i] = calls[i + Outdated]
      BY <1>t DEF PermitsAreCalls
    <3> QED
      BY <2>1, <2>2, <3>1, <3>2
  <2>8. ASSUME NEW i \in 1 .. Outdated PROVE C[i] = TimeWindow
    <3>1. i \in 1 .. Len(calls)
      BY <1>n, <1>t DEF Outdated, PermitsAreCalls
    <3>2. calls[i] = TimeWindow
      BY <1>t DEF PermitsAreCalls
    <3> QED
      BY <1>n, <2>1, <3>1, <3>2
  <2>9. Outdated' = Outdated + n /\ Outdated \in Nat
    BY <1>n, <1>t, <2>1, <2>2, <2>3, <2>4 DEF Outdated, PermitsAreCalls
  <2>10. ASSUME NEW i \in 1 .. Len(permits')
         PROVE  permits'[i] = C[i + Outdated'] /\ permits'[i] < TimeWindow
    <3>1. n + i \in 1 .. Len(permits) /\ n + 1 \in 1 .. Len(permits) /\ n < Len(Q) /\ n + 1 <= n + i
      BY <1>n, <2>2, <2>4
    <3>2. permits'[i] = Q[n + i] /\ Q[n + 1] < TimeWindow
      BY <2>4, <3>1
    <3>3. Q[n + i] = C[n + i + Outdated] /\ Q[n + 1] = C[n + 1 + Outdated]
      BY <2>7, <3>1
    <3>4. n + i + Outdated \in 1 .. Len(calls) /\ n + 1 + Outdated \in 1 .. Len(calls)
      BY <2>7, <3>1
    <3>5. n + 1 + Outdated <= n + i + Outdated
      BY <2>9, <3>1, <2>2, <1>n
    <3>6. C[n + i + Outdated] <= C[n + 1 + Outdated]
      BY <2>6, <3>4, <3>5
    <3>7. C[n + i + Outdated] < TimeWindow
      BY <1>n, <2>5, <3>2, <3>3, <3>4, <3>6 DEF Ages
    <3>8. n + i + Outdated = i + Outdated'
      BY <2>9, <1>n
    <3> QED
      BY <3>2, <3>3, <3>7, <3>8
  <2>11. ASSUME NEW i \in 1 .. Outdated' PROVE C[i] = TimeWindow
    <3>1. CASE i <= Outdated
      <4>1. i \in 1 .. Outdated
        BY <2>9, <3>1
      <4> QED
        BY <2>8, <4>1
    <3>2. CASE i > Outdated
      <4>1. i - Outdated \in 1 .. n /\ i - Outdated \in 1 .. Len(permits)
        BY <1>n, <2>2, <2>4, <2>9, <3>2
      <4>2. Q[i - Outdated] = TimeWindow /\ Q[i - Outdated] = C[(i - Outdated) + Outdated]
        BY <2>4, <2>7, <4>1
      <4>3. (i - Outdated) + Outdated = i
        BY <2>9
      <4> QED
        BY <4>2, <4>3
    <3> QED
      BY <2>9, <3>1, <3>2
  <2>12. Len(permits') <= Len(calls') /\ Len(calls') <= MaxCalls
    BY <1>n, <1>t, <2>1, <2>2, <2>3, <2>4 DEF PermitsAreCalls
  <2>13. PermitsAreCalls'
    BY <2>1, <2>3, <2>6, <2>10, <2>11, <2>12 DEF PermitsAreCalls
  <2>14. sleeping' \subseteq [who : Callers, left : Ages]
    <3> SUFFICES ASSUME NEW s \in sleeping
                 PROVE  [s EXCEPT !.left = IF @ = 0 THEN 0 ELSE @ - 1] \in [who : Callers, left : Ages]
      BY <2>3
    <3>1. s \in [who : Callers, left : Ages]
      BY <1>t
    <3>2. (IF s.left = 0 THEN 0 ELSE s.left - 1) \in Ages
      BY <1>n, <3>1 DEF Ages
    <3> QED
      BY <3>1, <3>2
  <2>15. \A s, t \in sleeping' : s = t
    BY <1>t, <2>3 DEF SleeperKnowsOldest
  <2>16. ASSUME NEW t \in sleeping' PROVE Len(calls') > 0 /\ t.left = TimeWindow - calls'[1]
    <3>1. PICK s \in sleeping : t = [s EXCEPT !.left = IF @ = 0 THEN 0 ELSE @ - 1]
      BY <2>3
    <3>2. Len(calls) > 0 /\ s.left = TimeWindow - calls[1] /\ s.left \in Ages
          /\ t.left = IF s.left = 0 THEN 0 ELSE s.left - 1
      BY <1>t, <3>1 DEF SleeperKnowsOldest
    <3>3. 1 \in 1 .. Len(calls)
      BY <1>n, <3>2
    <3>4. calls[1] \in Ages /\ C[1] = IF calls[1] < TimeWindow THEN calls[1] + 1 ELSE calls[1]
      BY <2>1, <2>5, <3>3
    <3> QED
      BY <1>n, <2>1, <2>3, <3>2, <3>4 DEF Ages
  <2>17. SleeperKnowsOldest'
    BY <2>15, <2>16 DEF SleeperKnowsOldest
  <2> QED
    BY <2>1, <2>3, <2>4, <2>13, <2>14, <2>17 DEF LimiterInv, LimiterTypeOK, Ages
<1>5. CASE LimiterRestart
  BY <1>5, <1>n, EmptySeq
  DEF LimiterRestart, LimiterInv, LimiterTypeOK, PermitsAreCalls, SleeperKnowsOldest, Outdated
<1> QED
  BY <1>1, <1>2, <1>3, <1>4, <1>5 DEF LimiterNext

\* The permits of the window are calls, and the calls never exceed the limit.
LEMMA LimiterSafe ==
  LimiterInv => PermitsInWindow
<1> SUFFICES ASSUME LimiterInv PROVE Len(permits) <= MaxCalls
  BY DEF PermitsInWindow
<1>1. Len(calls) \in Nat /\ Len(permits) \in Nat /\ MaxCalls \in Nat
  BY LenProperties, LimiterAssumption DEF LimiterInv, LimiterTypeOK
<1> QED
  BY <1>1 DEF LimiterInv, PermitsAreCalls
=============================================================================
