-------------------------- MODULE QueueStoreProofs --------------------------
(***************************************************************************)
(* What the request handlers and the Redis commands of QueueStore do to    *)
(* the store, stated once for the proofs about its two consumers,          *)
(* QueueWorker and QueueLease.                                             *)
(***************************************************************************)
EXTENDS QueueStore, FiniteSetTheorems, TLAPS

-----------------------------------------------------------------------------
(* What the Redis list commands do.                                        *)

\* LPUSH puts the task at position 1 and moves the others up by one.
LEMMA LPushFacts ==
  ASSUME NEW S, NEW s \in Seq(S), NEW t \in S
  PROVE  /\ LPush(s, t) \in Seq(S)
         /\ Len(LPush(s, t)) = Len(s) + 1
         /\ LPush(s, t)[1] = t
         /\ \A i \in 1..Len(s) : LPush(s, t)[i + 1] = s[i]
BY DEF LPush

\* BLPOP takes position 1 and moves the others down by one.
LEMMA TailFacts ==
  ASSUME NEW S, NEW s \in Seq(S), s # <<>>
  PROVE  /\ Head(s) \in S /\ Head(s) = s[1]
         /\ Tail(s) \in Seq(S) /\ Len(Tail(s)) = Len(s) - 1
         /\ \A i \in 1..(Len(s) - 1) : Tail(s)[i] = s[i + 1]
OBVIOUS

\* LREM leaves a list whose elements stood, in the same order, at positions
\* that do not hold the removed task.
LEMMA LRemFacts ==
  ASSUME NEW S, NEW s \in Seq(S), NEW t, NEW r \in LRem(s, t)
  PROVE  /\ r \in Seq(S)
         /\ \E f \in [DOMAIN r -> DOMAIN s] :
              /\ \A i \in DOMAIN r : r[i] = s[f[i]] /\ r[i] # t
              /\ \A i, j \in DOMAIN r : f[i] = f[j] => i = j
<1>1. PICK f \in KeptPositions(s, t) : r = [i \in DOMAIN f |-> s[f[i]]]
  BY DEF LRem
<1> DEFINE keep == {i \in DOMAIN s : s[i] # t}
<1>2. PICK n \in 0..Len(s) : f \in [1..n -> keep]
  BY <1>1 DEF KeptPositions
<1>3. \A i, j \in 1..n : i < j => f[i] < f[j]
  BY <1>1, <1>2 DEF KeptPositions
<1>4. DOMAIN s = 1..Len(s) /\ DOMAIN f = 1..n /\ DOMAIN r = 1..n
  BY <1>1, <1>2
<1>5. r \in [1..n -> S]
  <2>1. \A i \in 1..n : s[f[i]] \in S
    BY <1>2, <1>4
  <2> QED BY <2>1, <1>1, <1>4
<1>6. r \in Seq(S)
  BY <1>5, n \in Nat
<1>7. \A i \in 1..n : r[i] = s[f[i]] /\ r[i] # t
  BY <1>1, <1>2, <1>4
<1>8. \A i, j \in 1..n : f[i] = f[j] => i = j
  <2> SUFFICES ASSUME NEW i \in 1..n, NEW j \in 1..n, f[i] = f[j], i # j PROVE FALSE
    OBVIOUS
  <2>1. f[i] \in Int
    BY <1>2, <1>4
  <2>2. i < j \/ j < i
    OBVIOUS
  <2> QED BY <2>1, <2>2, <1>3
<1>9. f \in [DOMAIN r -> DOMAIN s]
  BY <1>2, <1>4
<1> QED BY <1>6, <1>7, <1>8, <1>9, <1>4

-----------------------------------------------------------------------------
(* Whose the task ids of a request are.                                    *)

\* The ids a handler has drawn and not pushed, and those whose hash is not written.
Owns(a, t) ==
  \/ t \in api[a].todo
  \/ api[a].task = t /\ api[a].pc \in {"globalLimit", "save", "push"}

Unwritten(a, t) ==
  \/ t \in api[a].todo
  \/ api[a].task = t /\ api[a].pc \in {"globalLimit", "save"}

LocalsOf(a) ==
  /\ api[a].pc = "idle" => api[a] = IdleHandler
  /\ api[a].pc \notin {"idle", "userLimit"} => api[a].task \in Tasks
  /\ api[a].pc \in {"globalLimit", "save"} => api[a].task \notin api[a].todo
  /\ api[a].pc = "join" => api[a].batch \in Batches
  /\ api[a].pc \in {"join"} \cup CancelPc => status[api[a].task] # "none"

HandlerLocals == \A a \in Handlers : LocalsOf(a)

OneOwner ==
  /\ \A a1, a2 \in Handlers, t \in Tasks : Owns(a1, t) /\ Owns(a2, t) => a1 = a2
  /\ \A a \in Handlers, t \in Tasks : Unwritten(a, t) => status[t] = "none"

HandlerPc == {"idle"} \cup EnqueuePc \cup CancelPc

\* A handler that goes to another command keeps its locals; the others keep all.
LEMMA GotoFacts ==
  ASSUME api \in [Handlers -> HandlerType], NEW a \in Handlers, NEW pc \in HandlerPc,
         Goto(a, pc)
  PROVE  /\ api' \in [Handlers -> HandlerType]
         /\ api'[a].pc = pc /\ api'[a].task = api[a].task
         /\ api'[a].todo = api[a].todo /\ api'[a].batch = api[a].batch
         /\ \A h \in Handlers : h # a => api'[h] = api[h]
<1>1. api' = [api EXCEPT ![a] = [api[a] EXCEPT !.pc = pc]]
  BY DEF Goto
<1>2. api[a] \in HandlerType
  OBVIOUS
<1>3. /\ [api[a] EXCEPT !.pc = pc] \in HandlerType
      /\ [api[a] EXCEPT !.pc = pc].pc = pc
      /\ [api[a] EXCEPT !.pc = pc].task = api[a].task
      /\ [api[a] EXCEPT !.pc = pc].todo = api[a].todo
      /\ [api[a] EXCEPT !.pc = pc].batch = api[a].batch
  BY <1>2 DEF HandlerType, HandlerPc
<1> QED BY <1>1, <1>3

\* A handler that returns is idle, and the others go on.
LEMMA ReturnFacts ==
  ASSUME api \in [Handlers -> HandlerType], NEW a \in Handlers, Return(a)
  PROVE  /\ api' \in [Handlers -> HandlerType]
         /\ api'[a] = IdleHandler
         /\ \A h \in Handlers : h # a => api'[h] = api[h]
BY DEF Return, IdleHandler, HandlerType

-----------------------------------------------------------------------------
(* Type correctness of the handlers' commands.                             *)

\* A push, sent once or twice, keeps the types of what it writes.
LEMMA PushType ==
  ASSUME StoreAssumption, StoreTypeOK, NEW t \in Tasks, Push(t)
  PROVE  ready' \in Seq(Tasks) /\ faults' \in 0..MaxFaults /\ resent' \subseteq Tasks
<1>1. LPush(ready, t) \in Seq(Tasks) /\ LPush(LPush(ready, t), t) \in Seq(Tasks)
  BY LPushFacts DEF StoreTypeOK
<1>2. faults < MaxFaults => faults + 1 \in 0..MaxFaults
  BY DEF StoreTypeOK, StoreAssumption
<1> QED BY <1>1, <1>2 DEF Push, StoreTypeOK

\* Every command of a handler keeps the types.
LEMMA HandlerTypes ==
  ASSUME StoreAssumption, StoreTypeOK, HandlerLocals, NEW a \in Handlers, HandlerStep(a)
  PROVE  StoreTypeOK'
<1> DEFINE StoreRest ==
      /\ ready' \in Seq(Tasks) /\ status' \in [Tasks -> Status]
      /\ processing' \subseteq Tasks /\ completed' \subseteq Tasks /\ failed' \subseteq Tasks
      /\ userProcessing' \in [Users -> SUBSET Tasks]
      /\ submitted' \in [Batches -> Nat] /\ batchTasks' \in [Batches -> SUBSET Tasks]
      /\ known' \subseteq Batches /\ told' \subseteq Tasks
      /\ faults' \in 0..MaxFaults /\ resent' \subseteq Tasks
<1>1. SUFFICES StoreRest /\ api' \in [Handlers -> HandlerType]
  BY DEF StoreTypeOK
<1> USE DEF StoreTypeOK, redisVars, EnqueuePc, CancelPc, HandlerPc
<1>2. /\ api \in [Handlers -> HandlerType] /\ api[a] \in HandlerType
      /\ api[a].pc \notin {"idle", "userLimit"} => api[a].task \in Tasks
  BY DEF HandlerLocals, LocalsOf
<1>3. Return(a) => api' \in [Handlers -> HandlerType]
  BY <1>2, ReturnFacts
<1>4. \A pc \in HandlerPc : Goto(a, pc) => api' \in [Handlers -> HandlerType]
  BY <1>2, GotoFacts
<1>5. ASSUME NEW t \in Tasks, SubmitSingle(a, t) PROVE StoreRest /\ api' \in [Handlers -> HandlerType]
  BY <1>5, <1>2 DEF SubmitSingle, HandlerType
<1>6. ASSUME NEW b \in Batches, NEW S \in SUBSET Tasks, CreateBatch(a, b, S)
      PROVE  StoreRest /\ api' \in [Handlers -> HandlerType]
  <2>1. Cardinality(S) \in Nat
    BY <1>6, FS_CardinalityType DEF CreateBatch
  <2> QED BY <2>1, <1>6, <1>2 DEF CreateBatch, HandlerType
<1>7. ASSUME NEW t \in Tasks, ReadForCancel(a, t) PROVE StoreRest /\ api' \in [Handlers -> HandlerType]
  BY <1>7, <1>2 DEF ReadForCancel, HandlerType
<1>8. CASE CheckUserLimit(a)
  <2>1. PICK t \in api[a].todo :
          \/ api' = [api EXCEPT ![a] = [pc |-> "globalLimit", todo |-> api[a].todo \ {t},
                                        task |-> t, batch |-> api[a].batch]]
          \/ Return(a)
    BY <1>8 DEF CheckUserLimit
  <2>2. [pc |-> "globalLimit", todo |-> api[a].todo \ {t}, task |-> t, batch |-> api[a].batch]
          \in HandlerType
    BY <1>2 DEF HandlerType
  <2>3. api' \in [Handlers -> HandlerType]
    BY <2>1, <2>2, <1>2, <1>3
  <2> QED BY <2>3, <1>8 DEF CheckUserLimit
<1>9. CASE CheckGlobalLimit(a)
  BY <1>9, <1>3, <1>4 DEF CheckGlobalLimit
<1>10. CASE SaveTask(a)
  BY <1>10, <1>2, <1>4 DEF SaveTask, Status
<1>11. CASE PushReady(a)
  <2>1. ready' \in Seq(Tasks) /\ faults' \in 0..MaxFaults /\ resent' \subseteq Tasks
    BY <1>11, <1>2, PushType DEF PushReady
  <2> QED BY <2>1, <1>11, <1>2, <1>3, <1>4 DEF PushReady
<1>12. CASE JoinBatch(a)
  <2>1. batchTasks' \in [Batches -> SUBSET Tasks] /\ api[a].batch \in Batches
    BY <1>12, <1>2 DEF JoinBatch, HandlerLocals, LocalsOf
  <2>2. [pc |-> "userLimit", todo |-> api[a].todo, task |-> NoTask, batch |-> api[a].batch]
          \in HandlerType
    BY <1>2 DEF HandlerType
  <2>3. \/ Return(a)
        \/ api' = [api EXCEPT ![a] = [pc |-> "userLimit", todo |-> api[a].todo,
                                      task |-> NoTask, batch |-> api[a].batch]]
    BY <1>12 DEF JoinBatch
  <2>4. api' \in [Handlers -> HandlerType]
    BY <2>2, <2>3, <1>2, <1>3
  <2> QED BY <2>1, <2>4, <1>12 DEF JoinBatch
<1>13. CASE UnmarkUser(a)
  BY <1>13, <1>4 DEF UnmarkUser
<1>14. CASE UnmarkGlobal(a)
  BY <1>14, <1>4 DEF UnmarkGlobal
<1>15. CASE ClearVisibility(a)
  BY <1>15, <1>4 DEF ClearVisibility
<1>16. CASE RemoveReady(a)
  <2>1. ready' \in Seq(Tasks)
    BY <1>16, LRemFacts DEF RemoveReady
  <2> QED BY <2>1, <1>16, <1>4 DEF RemoveReady
<1>17. CASE MarkCancelled(a)
  BY <1>17, <1>2, <1>3 DEF MarkCancelled, Status
<1>18. CASE HandlerFault(a)
  BY <1>18, <1>3 DEF HandlerFault, StoreAssumption
<1> QED
  BY <1>5, <1>6, <1>7, <1>8, <1>9, <1>10, <1>11, <1>12, <1>13, <1>14, <1>15, <1>16, <1>17,
     <1>18 DEF HandlerStep, Enqueue, Cancel

-----------------------------------------------------------------------------
(* Single positions in qa:ready.                                           *)

\* A task id that was not sent again is at most once in qa:ready.
OnceEach ==
  \A t \in Tasks \ resent : \A i, j \in DOMAIN ready : ready[i] = t /\ ready[j] = t => i = j

\* Adding a task that is not in qa:ready, once or (remembered in resent) twice.
\* A task that was sent again before may be there already.
LEMMA PushKeepsOnce ==
  ASSUME ready \in Seq(Tasks), OnceEach, NEW t \in Tasks, Push(t),
         ~InReady(t) \/ t \in resent
  PROVE  /\ InReady(t)' /\ \A x \in Tasks : x # t => (InReady(x)' <=> InReady(x))
         /\ resent \subseteq resent'
         /\ \A x \in Tasks \ resent' :
              \A i, j \in DOMAIN ready' : ready'[i] = x /\ ready'[j] = x => i = j
<1> DEFINE one == LPush(ready, t)
           two == LPush(one, t)
<1>1. ready \in Seq(Tasks)
  OBVIOUS
<1>2. /\ one \in Seq(Tasks) /\ Len(one) = Len(ready) + 1 /\ one[1] = t
      /\ \A i \in 1..Len(ready) : one[i + 1] = ready[i]
  BY <1>1 DEF LPush
<1> HIDE DEF one
<1>3. /\ two \in Seq(Tasks) /\ Len(two) = Len(one) + 1 /\ two[1] = t
      /\ \A i \in 1..Len(one) : two[i + 1] = one[i]
  <2>1. one \in Seq(Tasks)
    BY <1>2
  <2> QED BY <2>1 DEF LPush
<1> HIDE DEF two
<1>4. \A i \in 1..Len(one) : i = 1 \/ (i - 1 \in 1..Len(ready) /\ one[i] = ready[i - 1])
  BY <1>1, <1>2
<1>5. \A i \in 1..Len(two) : i = 1 \/ (i - 1 \in 1..Len(one) /\ two[i] = one[i - 1])
  BY <1>2, <1>3
<1>6. t \notin resent => \A i \in 1..Len(ready) : ready[i] # t
  BY <1>1 DEF InReady
<1>7. CASE ready' = one /\ UNCHANGED <<faults, resent>>
  <2>1. DOMAIN ready' = 1..Len(one)
    BY <1>2, <1>7
  <2>2. InReady(t)'
    BY <2>1, <1>1, <1>2, <1>7 DEF InReady
  <2>3. ASSUME NEW x \in Tasks, x # t PROVE InReady(x)' <=> InReady(x)
    <3>1. InReady(x)' => InReady(x)
      BY <2>1, <2>3, <1>1, <1>2, <1>4, <1>7 DEF InReady
    <3>2. InReady(x) => InReady(x)'
      <4> SUFFICES ASSUME NEW i \in 1..Len(ready), ready[i] = x PROVE InReady(x)'
        BY <1>1 DEF InReady
      <4>1. i + 1 \in 1..Len(one) /\ one[i + 1] = x
        BY <1>1, <1>2
      <4> QED BY <4>1, <2>1, <1>7 DEF InReady
    <3> QED BY <3>1, <3>2
  <2>4. ASSUME NEW x \in Tasks \ resent', NEW i \in DOMAIN ready', NEW j \in DOMAIN ready',
               ready'[i] = x, ready'[j] = x
        PROVE  i = j
    <3>1. i \in 1..Len(one) /\ j \in 1..Len(one) /\ one[i] = x /\ one[j] = x
      BY <2>1, <2>4, <1>7
    <3>2. CASE i = 1 \/ j = 1
      <4>1. x = t /\ t \notin resent
        BY <3>1, <3>2, <1>2, <1>7, <2>4
      <4> QED BY <4>1, <3>1, <3>2, <1>4, <1>6
    <3>3. CASE i # 1 /\ j # 1
      <4>1. i - 1 \in 1..Len(ready) /\ j - 1 \in 1..Len(ready)
            /\ ready[i - 1] = x /\ ready[j - 1] = x
        BY <3>1, <3>3, <1>4
      <4>2. i - 1 = j - 1
        BY <4>1, <1>1, <1>7 DEF OnceEach
      <4> QED BY <4>1, <4>2, <3>1, <1>2
    <3> QED BY <3>2, <3>3
  <2> QED BY <2>2, <2>3, <2>4, <1>7
<1>8. CASE ready' = two /\ resent' = resent \cup {t}
  <2>1. DOMAIN ready' = 1..Len(two)
    BY <1>3, <1>8
  <2>2. InReady(t)'
    BY <2>1, <1>2, <1>3, <1>8 DEF InReady
  <2>3. ASSUME NEW x \in Tasks, x # t PROVE InReady(x)' <=> InReady(x)
    <3>1. ASSUME InReady(x)' PROVE InReady(x)
      <4>1. PICK i \in 1..Len(two) : two[i] = x
        BY <3>1, <2>1, <1>8 DEF InReady
      <4>2. i # 1 /\ i - 1 \in 1..Len(one) /\ one[i - 1] = x
        BY <4>1, <2>3, <1>3, <1>5
      <4>3. i - 1 # 1 /\ (i - 1) - 1 \in 1..Len(ready) /\ ready[(i - 1) - 1] = x
        BY <4>2, <2>3, <1>2, <1>4
      <4> QED BY <4>3, <1>1 DEF InReady
    <3>2. ASSUME InReady(x) PROVE InReady(x)'
      <4>1. PICK i \in 1..Len(ready) : ready[i] = x
        BY <3>2, <1>1 DEF InReady
      <4>2. i + 1 \in 1..Len(one) /\ one[i + 1] = x
        BY <4>1, <1>1, <1>2
      <4>3. (i + 1) + 1 \in 1..Len(two) /\ two[(i + 1) + 1] = x
        BY <4>2, <1>2, <1>3
      <4> QED BY <4>3, <2>1, <1>8 DEF InReady
    <3> QED BY <3>1, <3>2
  <2>4. ASSUME NEW x \in Tasks \ resent', NEW i \in DOMAIN ready', NEW j \in DOMAIN ready',
               ready'[i] = x, ready'[j] = x
        PROVE  i = j
    <3>1. i \in 1..Len(two) /\ j \in 1..Len(two) /\ two[i] = x /\ two[j] = x /\ x # t
      BY <2>1, <2>4, <1>8
    <3>2. i - 1 \in 1..Len(one) /\ j - 1 \in 1..Len(one) /\ one[i - 1] = x /\ one[j - 1] = x
      BY <3>1, <1>3, <1>5
    <3>3. (i - 1) - 1 \in 1..Len(ready) /\ (j - 1) - 1 \in 1..Len(ready)
          /\ ready[(i - 1) - 1] = x /\ ready[(j - 1) - 1] = x
      BY <3>1, <3>2, <1>2, <1>4
    <3>4. (i - 1) - 1 = (j - 1) - 1
      BY <3>1, <3>3, <1>1, <1>8 DEF OnceEach
    <3> QED BY <3>1, <3>4, <1>3
  <2> QED BY <2>2, <2>3, <2>4, <1>8
<1> QED BY <1>7, <1>8 DEF Push, one, two

\* Whatever leaves qa:ready, what stays keeps its single position.
LEMMA RemoveKeepsOnce ==
  ASSUME ready \in Seq(Tasks), OnceEach, NEW t, ready' \in LRem(ready, t)
  PROVE  /\ \A x \in Tasks : InReady(x)' => InReady(x)
         /\ \A x \in Tasks \ resent :
              \A i, j \in DOMAIN ready' : ready'[i] = x /\ ready'[j] = x => i = j
<1>1. ready \in Seq(Tasks)
  OBVIOUS
<1>2. PICK f \in [DOMAIN ready' -> DOMAIN ready] :
         /\ \A i \in DOMAIN ready' : ready'[i] = ready[f[i]]
         /\ \A i, j \in DOMAIN ready' : f[i] = f[j] => i = j
  BY <1>1, LRemFacts
<1>3. \A x \in Tasks : InReady(x)' => InReady(x)
  BY <1>2 DEF InReady
<1>4. ASSUME NEW x \in Tasks \ resent, NEW i \in DOMAIN ready', NEW j \in DOMAIN ready',
             ready'[i] = x, ready'[j] = x
      PROVE  i = j
  <2>1. ready[f[i]] = x /\ ready[f[j]] = x /\ f[i] \in DOMAIN ready /\ f[j] \in DOMAIN ready
    BY <1>2, <1>4
  <2>2. f[i] = f[j]
    BY <2>1 DEF OnceEach
  <2> QED BY <2>2, <1>2
<1> QED BY <1>3, <1>4

\* LPOP removes the only copy of an id that was not sent again.
LEMMA TailKeepsOnce ==
  ASSUME ready \in Seq(Tasks), OnceEach, ready # <<>>, ready' = Tail(ready)
  PROVE  /\ \A x \in Tasks : InReady(x)' => InReady(x)
         /\ InReady(Head(ready)) /\ Head(ready) \in Tasks
         /\ \A x \in Tasks \ resent : x = Head(ready) => ~InReady(x)'
         /\ \A x \in Tasks \ resent :
              \A i, j \in DOMAIN ready' : ready'[i] = x /\ ready'[j] = x => i = j
<1>1. ready \in Seq(Tasks)
  OBVIOUS
<1>2. /\ Head(ready) \in Tasks /\ Head(ready) = ready[1]
      /\ ready' \in Seq(Tasks) /\ Len(ready') = Len(ready) - 1
      /\ \A i \in 1..(Len(ready) - 1) : ready'[i] = ready[i + 1]
  BY <1>1, TailFacts
<1>3. /\ DOMAIN ready = 1..Len(ready) /\ DOMAIN ready' = 1..(Len(ready) - 1)
      /\ Len(ready) \in Nat /\ Len(ready) >= 1
  BY <1>1, <1>2
<1>4. \A i \in DOMAIN ready' : i + 1 \in DOMAIN ready /\ ready'[i] = ready[i + 1]
  BY <1>2, <1>3
<1>5. InReady(Head(ready))
  BY <1>2, <1>3 DEF InReady
<1>6. \A x \in Tasks : InReady(x)' => InReady(x)
  BY <1>4 DEF InReady
<1>7. ASSUME NEW x \in Tasks \ resent, NEW i \in DOMAIN ready', NEW j \in DOMAIN ready',
             ready'[i] = x, ready'[j] = x
      PROVE  i = j
  <2>1. i + 1 \in DOMAIN ready /\ j + 1 \in DOMAIN ready
        /\ ready[i + 1] = x /\ ready[j + 1] = x
    BY <1>4, <1>7
  <2>2. i + 1 = j + 1
    BY <2>1 DEF OnceEach
  <2> QED BY <2>2, <1>3
<1>8. ASSUME NEW x \in Tasks \ resent, x = Head(ready), InReady(x)' PROVE FALSE
  <2>1. PICK i \in DOMAIN ready' : ready'[i] = x
    BY <1>8 DEF InReady
  <2>2. /\ i + 1 \in DOMAIN ready /\ 1 \in DOMAIN ready
        /\ ready[i + 1] = x /\ ready[1] = x
    BY <2>1, <1>2, <1>3, <1>4, <1>8
  <2>3. i + 1 = 1
    BY <2>2 DEF OnceEach
  <2> QED BY <2>1, <2>3, <1>3
<1> QED BY <1>2, <1>5, <1>6, <1>7, <1>8

-----------------------------------------------------------------------------
(* What every consumer may rely on: the handlers' part of an invariant.    *)

\* The hash of a task that is pushed, or that a client can name, exists.
PushKnown == \A a \in Handlers : api[a].pc = "push" => status[api[a].task] # "none"

NoneUntold ==
  \A t \in Tasks : status[t] = "none" =>
    t \notin told /\ \A b \in Batches : t \notin batchTasks[b]

StoreInv == StoreTypeOK /\ HandlerLocals /\ OneOwner /\ PushKnown /\ NoneUntold

OwnsNoMore(a) ==
  \A t \in Tasks : (Owns(a, t)' => Owns(a, t)) /\ (Unwritten(a, t)' => Unwritten(a, t))

\* Only the hash of a task that nobody still has to write is written.
StatusGrows ==
  \A x \in Tasks : \/ status'[x] = status[x]
                   \/ status'[x] # "none" /\ \A h \in Handlers : ~Unwritten(h, x)'

\* A handler that owns no more than before keeps the handlers' invariant.
LEMMA HandlerMoves ==
  ASSUME StoreInv, NEW a \in Handlers, LocalsOf(a)', OwnsNoMore(a), StatusGrows,
         api'[a].pc = "push" => status'[api'[a].task] # "none",
         \A h \in Handlers : h # a => api'[h] = api[h]
  PROVE  HandlerLocals' /\ OneOwner' /\ PushKnown'
<1>1. \A x \in Tasks : status[x] # "none" => status'[x] # "none"
  BY DEF StatusGrows
<1>2. HandlerLocals'
  <2> SUFFICES ASSUME NEW h \in Handlers, h # a PROVE LocalsOf(h)'
    BY DEF HandlerLocals
  <2>1. LocalsOf(h) /\ api'[h] = api[h]
    BY DEF StoreInv, HandlerLocals
  <2>2. api[h].task \in Tasks /\ status[api[h].task] # "none" => status'[api[h].task] # "none"
    BY <1>1
  <2> QED BY <2>1, <2>2 DEF LocalsOf, CancelPc
<1>3. \A h \in Handlers, x \in Tasks :
        (Owns(h, x)' => Owns(h, x)) /\ (Unwritten(h, x)' => Unwritten(h, x))
  BY DEF Owns, Unwritten, OwnsNoMore
<1>4. OneOwner'
  BY <1>3 DEF StoreInv, OneOwner, StatusGrows
<1>5. PushKnown'
  <2> SUFFICES ASSUME NEW h \in Handlers, h # a, api'[h].pc = "push"
               PROVE  status'[api'[h].task] # "none"
    BY DEF PushKnown
  <2>1. api'[h] = api[h] /\ api[h].task \in Tasks
    BY DEF StoreInv, HandlerLocals, LocalsOf
  <2> QED BY <2>1, <1>1 DEF StoreInv, PushKnown
<1> QED BY <1>2, <1>4, <1>5

\* A new request owns ids that nobody else has.
LEMMA HandlerStarts ==
  ASSUME StoreInv, NEW a \in Handlers, NEW S \in SUBSET Tasks, NEW b,
         \A t \in S : Fresh(t), api[a].pc = "idle", UNCHANGED status,
         api' = [api EXCEPT ![a] = [pc |-> "userLimit", todo |-> S,
                                    task |-> NoTask, batch |-> b]]
  PROVE  HandlerLocals' /\ OneOwner' /\ PushKnown'
<1>1. /\ api'[a].pc = "userLimit" /\ api'[a].todo = S
      /\ \A h \in Handlers : h # a => api'[h] = api[h]
  BY DEF StoreInv, StoreTypeOK
<1>2. HandlerLocals' /\ PushKnown'
  BY <1>1 DEF StoreInv, HandlerLocals, LocalsOf, PushKnown, CancelPc
<1>3. OneOwner'
  BY <1>1 DEF StoreInv, OneOwner, Owns, Unwritten, Fresh
<1> QED BY <1>2, <1>3

\* What a command of handler a may do to the store.
HandlerEffect(a) ==
  /\ \A t \in Tasks : visibility'[t] \in {visibility[t], NoLease}
  /\ \A u \in Users : userProcessing'[u] \subseteq userProcessing[u]
  /\ resent \subseteq resent'
  /\ \A t \in Tasks : status'[t] = "none" => status[t] = "none"
  /\ \/ api[a].pc = "push" /\ api'[a].pc # "push" /\ Push(api[a].task)
     \/ resent' = resent /\ (ready' = ready \/ \E t : ready' \in LRem(ready, t))
  /\ \A h \in Handlers : api'[h].pc = "push" =>
       /\ api'[h].task = api[h].task
       /\ api[h].pc \in {"save", "push"}

\* Every command of a handler keeps the handlers' invariant and does no more to
\* the store than HandlerEffect allows.
LEMMA HandlerKeepsStore ==
  ASSUME StoreAssumption, StoreInv, NEW Lease, visibility \in [Tasks -> Lease],
         NEW a \in Handlers, HandlerStep(a)
  PROVE  StoreInv' /\ HandlerEffect(a)
<1> DEFINE Rest == HandlerLocals' /\ OneOwner' /\ PushKnown'
           Calm == /\ UNCHANGED <<ready, resent, told, batchTasks>>
                   /\ \A t \in Tasks : visibility'[t] \in {visibility[t], NoLease}
                   /\ \A u \in Users : userProcessing'[u] \subseteq userProcessing[u]
           Others == \A h \in Handlers : h # a => api'[h] = api[h]
<1>1. /\ StoreTypeOK /\ StoreTypeOK' /\ HandlerLocals /\ LocalsOf(a)
      /\ api \in [Handlers -> HandlerType] /\ api[a] \in HandlerType
      /\ status \in [Tasks -> Status] /\ NoTask \notin Tasks /\ NoBatch \notin Batches
      /\ userProcessing \in [Users -> SUBSET Tasks]
  BY HandlerTypes DEF StoreInv, StoreTypeOK, HandlerLocals, StoreAssumption
<1>2. ASSUME Calm, Others, UNCHANGED status, api'[a].pc # "push"
      PROVE  NoneUntold' /\ HandlerEffect(a)
  <2>1. NoneUntold'
    BY <1>2 DEF StoreInv, NoneUntold
  <2>2. \A h \in Handlers : api'[h].pc = "push" => api'[h] = api[h]
    BY <1>2
  <2> QED BY <2>1, <2>2, <1>2 DEF HandlerEffect
<1>3. ASSUME Return(a)
      PROVE  /\ Others /\ api'[a] = IdleHandler /\ api'[a].pc # "push"
             /\ (StatusGrows => Rest) /\ OwnsNoMore(a)
  <2>1. Others /\ api'[a] = IdleHandler
    BY <1>1, <1>3, ReturnFacts
  <2>2. LocalsOf(a)' /\ api'[a].pc # "push"
    BY <2>1 DEF LocalsOf, IdleHandler, CancelPc
  <2>3. OwnsNoMore(a)
    BY <2>1, <1>1 DEF OwnsNoMore, Owns, Unwritten, IdleHandler
  <2> QED BY <2>1, <2>2, <2>3, HandlerMoves
<1>4. UNCHANGED status => StatusGrows
  BY DEF StatusGrows
<1>5. ASSUME Return(a), Calm, UNCHANGED status PROVE StoreInv' /\ HandlerEffect(a)
  BY <1>5, <1>1, <1>2, <1>3, <1>4 DEF StoreInv
<1>6. ASSUME NEW pc \in {"save"} \cup CancelPc, Goto(a, pc), UNCHANGED status,
             pc = "save" => api[a].pc = "globalLimit",
             pc \in CancelPc => api[a].pc \in CancelPc
      PROVE  Rest /\ Others /\ api'[a].pc # "push"
  <2>1. /\ api'[a].pc = pc /\ api'[a].task = api[a].task /\ api'[a].todo = api[a].todo
        /\ Others
    BY <1>1, <1>6, GotoFacts DEF HandlerPc, EnqueuePc
  <2>2. LocalsOf(a)' /\ api'[a].pc # "push"
    BY <2>1, <1>1, <1>6 DEF LocalsOf, CancelPc
  <2>3. OwnsNoMore(a)
    BY <2>1, <1>6 DEF OwnsNoMore, Owns, Unwritten, CancelPc
  <2> QED BY <2>1, <2>2, <2>3, <1>4, <1>6, HandlerMoves
<1>7. ASSUME NEW t \in Tasks, SubmitSingle(a, t) PROVE StoreInv' /\ HandlerEffect(a)
  <2>1. {t} \in SUBSET Tasks /\ \A y \in {t} : Fresh(y)
    BY <1>7 DEF SubmitSingle
  <2>2. Rest
    BY <2>1, <1>1, <1>7, HandlerStarts DEF SubmitSingle, redisVars
  <2>3. Others /\ api'[a].pc # "push"
    BY <1>1, <1>7 DEF SubmitSingle
  <2> QED BY <2>2, <2>3, <1>1, <1>2, <1>7 DEF SubmitSingle, redisVars, StoreInv
<1>8. ASSUME NEW b \in Batches, NEW S \in SUBSET Tasks, CreateBatch(a, b, S)
      PROVE  StoreInv' /\ HandlerEffect(a)
  <2>1. Rest
    BY <1>1, <1>8, HandlerStarts DEF CreateBatch
  <2>2. Others /\ api'[a].pc # "push"
    BY <1>1, <1>8 DEF CreateBatch
  <2> QED BY <2>1, <2>2, <1>1, <1>2, <1>8 DEF CreateBatch, StoreInv
<1>9. ASSUME NEW t \in Tasks, ReadForCancel(a, t) PROVE StoreInv' /\ HandlerEffect(a)
  <2>1. PICK pc \in CancelPc :
          api' = [api EXCEPT ![a] = [pc |-> pc, todo |-> {}, task |-> t, batch |-> NoBatch]]
    BY <1>9 DEF ReadForCancel, CancelPc
  <2>2. api'[a].pc = pc /\ api'[a].task = t /\ api'[a].todo = {} /\ Others
    BY <2>1, <1>1
  <2>3. status[t] # "none" /\ UNCHANGED status
    BY <1>9 DEF ReadForCancel, StoreInv, NoneUntold, redisVars
  <2>4. LocalsOf(a)' /\ api'[a].pc # "push"
    BY <2>2, <2>3, <1>9 DEF LocalsOf, CancelPc
  <2>5. OwnsNoMore(a)
    BY <2>2 DEF OwnsNoMore, Owns, Unwritten, CancelPc
  <2>6. Rest
    BY <2>2, <2>3, <2>4, <2>5, <1>4, HandlerMoves
  <2> QED BY <2>2, <2>4, <2>6, <1>1, <1>2, <1>9 DEF ReadForCancel, redisVars, StoreInv
<1>10. CASE CheckUserLimit(a)
  <2>1. PICK t \in api[a].todo :
          \/ api' = [api EXCEPT ![a] = [pc |-> "globalLimit", todo |-> api[a].todo \ {t},
                                        task |-> t, batch |-> api[a].batch]]
          \/ Return(a)
    BY <1>10 DEF CheckUserLimit
  <2>2. CASE api' = [api EXCEPT ![a] = [pc |-> "globalLimit", todo |-> api[a].todo \ {t},
                                        task |-> t, batch |-> api[a].batch]]
    <3>1. /\ api'[a].pc = "globalLimit" /\ api'[a].task = t
          /\ api'[a].todo = api[a].todo \ {t} /\ Others
      BY <2>2, <1>1
    <3>2. t \in Tasks
      BY <2>1, <1>1 DEF HandlerType
    <3>3. LocalsOf(a)' /\ api'[a].pc # "push"
      BY <3>1, <3>2 DEF LocalsOf, CancelPc
    <3>4. OwnsNoMore(a)
      BY <3>1, <2>1 DEF OwnsNoMore, Owns, Unwritten
    <3>5. Calm /\ UNCHANGED status
      BY <1>10 DEF CheckUserLimit, redisVars
    <3>6. Rest
      BY <3>1, <3>3, <3>4, <3>5, <1>4, HandlerMoves
    <3> QED BY <3>1, <3>3, <3>5, <3>6, <1>1, <1>2 DEF StoreInv
  <2> QED BY <2>1, <2>2, <1>5, <1>10 DEF CheckUserLimit, redisVars
<1>11. CASE CheckGlobalLimit(a)
  <2>1. CASE Goto(a, "save")
    <3>1. "save" \notin CancelPc
      BY DEF CancelPc
    <3> QED BY <3>1, <2>1, <1>1, <1>2, <1>6, <1>11 DEF CheckGlobalLimit, redisVars, StoreInv
  <2> QED BY <2>1, <1>5, <1>11 DEF CheckGlobalLimit, redisVars
<1>12. CASE SaveTask(a)
  <2>0. PICK t \in Tasks : t = api[a].task
    BY <1>1, <1>12 DEF LocalsOf, SaveTask
  <2>1. /\ api[a].pc = "save" /\ t \in Tasks /\ t \notin api[a].todo
        /\ Owns(a, t) /\ Unwritten(a, t)
    BY <2>0, <1>1, <1>12 DEF LocalsOf, SaveTask, Owns, Unwritten
  <2>2. /\ api'[a].pc = "push" /\ api'[a].task = t /\ api'[a].todo = api[a].todo /\ Others
    BY <2>0, <1>1, <1>12, GotoFacts DEF SaveTask, HandlerPc, EnqueuePc
  <2>3. status'[t] = "queued" /\ \A y \in Tasks : y # t => status'[y] = status[y]
    BY <2>0, <2>1, <1>1, <1>12 DEF SaveTask
  <2>4. LocalsOf(a)'
    BY <2>0, <2>1, <2>2 DEF LocalsOf, CancelPc
  <2>5. OwnsNoMore(a)
    BY <2>0, <2>1, <2>2 DEF OwnsNoMore, Owns, Unwritten
  <2>6. \A h \in Handlers : ~Unwritten(h, t)'
    <3>1. ~Unwritten(a, t)'
      BY <2>0, <2>1, <2>2 DEF Unwritten
    <3>2. ASSUME NEW h \in Handlers, h # a, Unwritten(h, t)' PROVE FALSE
      <4>1. Owns(h, t)
        BY <2>2, <3>2 DEF Unwritten, Owns
      <4> QED BY <4>1, <2>1, <3>2 DEF StoreInv, OneOwner
    <3> QED BY <3>1, <3>2
  <2>7. StatusGrows
    BY <2>3, <2>6 DEF StatusGrows
  <2>8. Rest
    BY <2>0, <2>2, <2>3, <2>4, <2>5, <2>7, HandlerMoves
  <2>9. NoneUntold'
    BY <2>3, <1>12 DEF SaveTask, StoreInv, NoneUntold
  <2>10. HandlerEffect(a)
    BY <2>0, <2>1, <2>2, <2>3, <1>12 DEF SaveTask, HandlerEffect
  <2> QED BY <2>8, <2>9, <2>10, <1>1 DEF StoreInv
<1>13. CASE PushReady(a)
  <2> DEFINE t == api[a].task
  <2>1. /\ api[a].pc = "push" /\ t \in Tasks /\ status[t] # "none" /\ UNCHANGED status
    BY <1>1, <1>13 DEF LocalsOf, PushReady, StoreInv, PushKnown
  <2>2. /\ \/ api'[a] = IdleHandler
           \/ /\ api'[a].pc = "join" /\ api'[a].task = t
              /\ api'[a].todo = api[a].todo /\ api'[a].batch \in Batches
        /\ Others
    <3>1. CASE api[a].batch = NoBatch
      BY <3>1, <1>1, <1>13, ReturnFacts DEF PushReady
    <3>2. CASE api[a].batch # NoBatch
      BY <3>2, <1>1, <1>13, GotoFacts DEF PushReady, HandlerPc, EnqueuePc, HandlerType
    <3> QED BY <3>1, <3>2
  <2> HIDE DEF t
  <2>3. LocalsOf(a)' /\ api'[a].pc # "push"
    BY <2>1, <2>2 DEF LocalsOf, CancelPc, IdleHandler
  <2>4. OwnsNoMore(a)
    BY <2>1, <2>2, <1>1 DEF OwnsNoMore, Owns, Unwritten, IdleHandler
  <2>5. Rest
    BY <2>1, <2>2, <2>3, <2>4, <1>4, HandlerMoves
  <2>6. NoneUntold'
    <3>1. told' \subseteq told \cup {t} /\ UNCHANGED <<status, batchTasks>>
      BY <1>13 DEF PushReady, t
    <3> QED BY <3>1, <2>1 DEF StoreInv, NoneUntold
  <2>7. Push(t) /\ resent \subseteq resent' /\ UNCHANGED <<visibility, userProcessing>>
    BY <1>13 DEF PushReady, Push, t
  <2>8. \A h \in Handlers : api'[h].pc = "push" => api'[h] = api[h]
    BY <2>2, <2>3
  <2>9. HandlerEffect(a)
    BY <2>1, <2>3, <2>7, <2>8 DEF HandlerEffect, t
  <2> QED BY <2>5, <2>6, <2>9, <1>1 DEF StoreInv
<1>14. CASE JoinBatch(a)
  <2> DEFINE t == api[a].task
             b == api[a].batch
  <2>1. /\ batchTasks \in [Batches -> SUBSET Tasks] /\ UNCHANGED status
        /\ api[a].pc = "join" /\ t \in Tasks /\ b \in Batches /\ status[t] # "none"
    BY <1>1, <1>14 DEF StoreTypeOK, LocalsOf, JoinBatch
  <2>2. /\ batchTasks'[b] = batchTasks[b] \cup {t}
        /\ \A c \in Batches : c # b => batchTasks'[c] = batchTasks[c]
        /\ told' \subseteq told \cup batchTasks'[b]
    BY <2>1, <1>14 DEF JoinBatch
  <2>3. /\ \/ api'[a] = IdleHandler
           \/ api'[a].pc = "userLimit" /\ api'[a].todo = api[a].todo
        /\ Others
    <3>1. CASE api[a].todo = {}
      BY <3>1, <1>1, <1>14, ReturnFacts DEF JoinBatch
    <3>2. CASE api[a].todo # {}
      BY <3>2, <1>1, <1>14 DEF JoinBatch
    <3> QED BY <3>1, <3>2
  <2> HIDE DEF t, b
  <2>4. LocalsOf(a)' /\ api'[a].pc # "push"
    BY <2>3 DEF LocalsOf, CancelPc, IdleHandler
  <2>5. OwnsNoMore(a)
    BY <2>3, <1>1 DEF OwnsNoMore, Owns, Unwritten, IdleHandler
  <2>6. Rest
    BY <2>1, <2>3, <2>4, <2>5, <1>4, HandlerMoves
  <2>7. NoneUntold'
    <3> SUFFICES ASSUME NEW y \in Tasks, status[y] = "none"
                 PROVE  y \notin told' /\ \A c \in Batches : y \notin batchTasks'[c]
      BY <2>1 DEF NoneUntold
    <3>1. y # t /\ y \notin told /\ \A c \in Batches : y \notin batchTasks[c]
      BY <2>1 DEF StoreInv, NoneUntold
    <3> QED BY <3>1, <2>1, <2>2
  <2>8. UNCHANGED <<ready, visibility, userProcessing, resent>>
    BY <1>14 DEF JoinBatch
  <2>9. \A h \in Handlers : api'[h].pc = "push" => api'[h] = api[h]
    BY <2>3, <2>4
  <2>10. HandlerEffect(a)
    BY <2>1, <2>8, <2>9 DEF HandlerEffect
  <2> QED BY <2>6, <2>7, <2>10, <1>1 DEF StoreInv
<1>15. CASE UnmarkUser(a)
  BY <1>1, <1>2, <1>6, <1>15 DEF UnmarkUser, CancelPc, StoreInv
<1>16. CASE UnmarkGlobal(a)
  BY <1>1, <1>2, <1>6, <1>16 DEF UnmarkGlobal, CancelPc, StoreInv
<1>17. CASE ClearVisibility(a)
  <2>1. \A t \in Tasks : visibility'[t] \in {visibility[t], NoLease}
    BY <1>17 DEF ClearVisibility
  <2> QED BY <2>1, <1>1, <1>2, <1>6, <1>17 DEF ClearVisibility, CancelPc, StoreInv
<1>18. CASE RemoveReady(a)
  <2>1. Rest /\ Others /\ api'[a].pc # "push"
    BY <1>6, <1>18 DEF RemoveReady, CancelPc
  <2>2. NoneUntold'
    BY <1>18 DEF RemoveReady, StoreInv, NoneUntold
  <2>3. \A h \in Handlers : api'[h].pc = "push" => api'[h] = api[h]
    BY <2>1
  <2>4. HandlerEffect(a)
    BY <2>3, <1>18 DEF RemoveReady, HandlerEffect
  <2> QED BY <2>1, <2>2, <2>4, <1>1 DEF StoreInv
<1>19. CASE MarkCancelled(a)
  <2>0. PICK t \in Tasks : t = api[a].task
    BY <1>1, <1>19 DEF LocalsOf, MarkCancelled, CancelPc
  <2>1. status[t] # "none"
    BY <2>0, <1>1, <1>19 DEF LocalsOf, MarkCancelled, CancelPc
  <2>2. status'[t] = "cancelled" /\ \A y \in Tasks : y # t => status'[y] = status[y]
    BY <2>0, <2>1, <1>1, <1>19 DEF MarkCancelled
  <2>3. Return(a) /\ UNCHANGED <<ready, visibility, userProcessing, resent, told, batchTasks>>
    BY <1>19 DEF MarkCancelled
  <2>4. \A h \in Handlers : ~Unwritten(h, t)'
    <3>1. \A h \in Handlers : Unwritten(h, t)' => Unwritten(h, t)
      <4>1. OwnsNoMore(a) /\ Others
        BY <2>3, <1>3
      <4> QED BY <4>1, <2>1 DEF OwnsNoMore, Unwritten
    <3> QED BY <3>1, <2>1 DEF StoreInv, OneOwner
  <2>5. StatusGrows
    BY <2>2, <2>4 DEF StatusGrows
  <2>6. Rest /\ Others /\ api'[a].pc # "push"
    BY <2>3, <2>5, <1>3
  <2>7. NoneUntold'
    BY <2>2, <2>3 DEF StoreInv, NoneUntold
  <2>8. \A h \in Handlers : api'[h].pc = "push" => api'[h] = api[h]
    BY <2>6
  <2>9. HandlerEffect(a)
    BY <2>2, <2>3, <2>8 DEF HandlerEffect
  <2> QED BY <2>6, <2>7, <2>9, <1>1 DEF StoreInv
<1>20. CASE HandlerFault(a)
  BY <1>5, <1>20 DEF HandlerFault, redisVars
<1> QED
  BY <1>7, <1>8, <1>9, <1>10, <1>11, <1>12, <1>13, <1>14, <1>15, <1>16, <1>17, <1>18, <1>19, <1>20
     DEF HandlerStep, Enqueue, Cancel

\* A consumer that resets no status keeps the handlers' invariant.
LEMMA ConsumerKeepsStore ==
  ASSUME StoreInv, StoreTypeOK', UNCHANGED <<told, api, batchTasks>>,
         \A t \in Tasks : status[t] # "none" => status'[t] # "none",
         \A t \in Tasks : status[t] = "none" => status'[t] = "none"
  PROVE  StoreInv'
<1>1. HandlerLocals'
  <2> SUFFICES ASSUME NEW h \in Handlers PROVE LocalsOf(h)'
    BY DEF HandlerLocals
  <2>1. LocalsOf(h)
    BY DEF StoreInv, HandlerLocals
  <2>2. api[h].task \in Tasks /\ status[api[h].task] # "none" => status'[api[h].task] # "none"
    OBVIOUS
  <2> QED BY <2>1, <2>2 DEF LocalsOf, CancelPc
<1>2. OneOwner'
  <2>1. \A h \in Handlers, t \in Tasks :
          (Owns(h, t)' <=> Owns(h, t)) /\ (Unwritten(h, t)' <=> Unwritten(h, t))
    BY DEF Owns, Unwritten
  <2> QED BY <2>1 DEF StoreInv, OneOwner
<1>3. PushKnown'
  BY DEF StoreInv, PushKnown, HandlerLocals, LocalsOf
<1>4. NoneUntold'
  BY DEF StoreInv, NoneUntold
<1> QED BY <1>1, <1>2, <1>3, <1>4 DEF StoreInv

\* The empty store.
LEMMA StoreStarts == ASSUME StoreAssumption, StoreInit PROVE StoreInv /\ OnceEach
<1> USE DEF StoreInit
<1>1. StoreTypeOK
  BY DEF StoreTypeOK, HandlerType, IdleHandler, Status, StoreAssumption
<1>2. \A a \in Handlers : api[a] = IdleHandler
  OBVIOUS
<1>3. HandlerLocals /\ PushKnown
  BY <1>2 DEF HandlerLocals, LocalsOf, PushKnown, IdleHandler, CancelPc
<1>4. OneOwner
  BY <1>2 DEF OneOwner, Owns, Unwritten, IdleHandler
<1> QED BY <1>1, <1>3, <1>4 DEF StoreInv, NoneUntold, OnceEach
=============================================================================
