---------------------------- MODULE RateLimiter ----------------------------
(***************************************************************************)
(* The sliding-window limiter that the Tushare synchronisation jobs share  *)
(* (app/core/rate_limiter.py).  acquire() keeps an asyncio lock while it    *)
(* sleeps, so at most one caller sleeps and the others queue at the lock.   *)
(* A recorded call is its age; an age of TimeWindow means "outside the      *)
(* window" and does not grow any further.                                   *)
(***************************************************************************)
EXTENDS Integers, Sequences

CONSTANTS Callers, MaxCalls, TimeWindow

ASSUME LimiterAssumption == MaxCalls \in Nat \ {0} /\ TimeWindow \in Nat \ {0}

VARIABLES
  calls,     \* self.calls, oldest first
  sleeping,  \* the callers asleep inside acquire, the lock in hand, and for how long
  permits    \* history: every permit of the last TimeWindow, recorded or not

limiterVars == <<calls, sleeping, permits>>

LimiterTypeOK ==
  /\ calls \in Seq(0 .. TimeWindow)
  /\ sleeping \subseteq [who : Callers, left : 0 .. TimeWindow]
  /\ permits \in Seq(0 .. TimeWindow)

LimiterInit == calls = <<>> /\ sleeping = {} /\ permits = <<>>

\* The popleft loop: it drops old calls from the left until the leftmost one is
\* young or none is left.  (A set of one member: what remains.)
InWindow(s) ==
  {SubSeq(s, n + 1, Len(s)) :
     n \in {m \in 0 .. Len(s) : /\ \A k \in 1 .. m : s[k] >= TimeWindow
                                /\ m < Len(s) => s[m + 1] < TimeWindow}}

\* calls.append(now)
GrantPermit(recent) ==
  /\ calls' = Append(recent, 0)
  /\ permits' = Append(permits, 0)

\* Mutant of LockFree: the lock is released for the sleep.
LockFreeDuringSleep == \A s \in sleeping : s.left \in 0 .. TimeWindow

LockFree == sleeping = {}

\* acquire below the limit: no await between the lock and the append.
AcquireNow ==
  /\ LockFree
  /\ \E recent \in InWindow(calls) : Len(recent) < MaxCalls /\ GrantPermit(recent)
  /\ UNCHANGED sleeping

\* Mutant of AcquireSleeps: a whole unit too long, where the code adds 10 ms.
AcquireSleepsTooLong(c) ==
  /\ LockFree
  /\ \E recent \in InWindow(calls) :
       /\ Len(recent) >= MaxCalls
       /\ calls' = recent
       /\ sleeping' = sleeping \cup {[who |-> c, left |-> TimeWindow + 1 - recent[1]]}
  /\ UNCHANGED permits

\* acquire at the limit: asyncio.sleep, with the lock held, until the oldest call
\* has left the window.
AcquireSleeps(c) ==
  /\ LockFree
  /\ \E recent \in InWindow(calls) :
       /\ Len(recent) >= MaxCalls
       /\ calls' = recent
       /\ sleeping' = sleeping \cup {[who |-> c, left |-> TimeWindow - recent[1]]}
  /\ UNCHANGED permits

\* After the sleep the call is recorded without another look at the limit.
AcquireWakes(c) ==
  \E s \in sleeping :
    /\ s.who = c /\ s.left = 0
    /\ \E recent \in InWindow(calls) : GrantPermit(recent)
    /\ sleeping' = sleeping \ {s}

Older(s) == [i \in 1 .. Len(s) |-> IF s[i] < TimeWindow THEN s[i] + 1 ELSE s[i]]

LimiterTick ==
  /\ calls' = Older(calls)
  /\ permits' \in InWindow(Older(permits))
  /\ sleeping' = {[s EXCEPT !.left = IF @ = 0 THEN 0 ELSE @ - 1] : s \in sleeping}

\* A new process starts with an empty limiter; what the old one was granted is
\* forgotten on both sides.
LimiterRestart == calls' = <<>> /\ sleeping' = {} /\ permits' = <<>>

LimiterNext ==
  \/ AcquireNow
  \/ \E c \in Callers : AcquireSleeps(c) \/ AcquireWakes(c)
  \/ LimiterTick \/ LimiterRestart

\* No window of time holds more permits than the provider allows, however the
\* callers interleave with the sleeper.
PermitsInWindow == Len(permits) <= MaxCalls
=============================================================================
