-------------------------- MODULE AnalysisTaskProofs --------------------------
EXTENDS AnalysisTask, TLAPS

Ending == {"done", "failed", "invalid"}
Steps == {"start", "prepare", "configure", "engine", "agents", "result", "node", "message",
          "invalid", "done", "failed", "none", "orphan", "ended", "dead", "launched",
          "newTracker", "pool", "graph", "extract"}

\* What may be left of the writes of an update.
CoroutineTodos == {<<"tracker", "store", "memory", "mongo">>, <<"store", "memory", "mongo">>,
                   <<"memory", "mongo">>, <<"mongo">>}
NodeTodos == {<<"tracker", "store", "mongo", "memory">>, <<"store", "mongo", "memory">>,
              <<"mongo", "memory">>, <<"memory">>}
MessageTodos == {<<"tracker", "store">>, <<"store">>}
InvalidTodos == {<<"memory", "mongo">>, <<"mongo">>}
DoneTodos == {<<"tracker", "store", "report", "memory", "mongo">>,
              <<"store", "report", "memory", "mongo">>,
              <<"report", "memory", "mongo">>, <<"memory", "mongo">>, <<"mongo">>}
Todos(at) ==
  CASE at \in {"start", "prepare", "configure", "engine", "agents", "result", "failed"} -> CoroutineTodos
    [] at = "node" -> NodeTodos
    [] at = "message" -> MessageTodos
    [] at = "invalid" -> InvalidTodos
    [] at = "done" -> DoneTodos
    [] OTHER -> {<<>>}
AllTodos == CoroutineTodos \cup NodeTodos \cup MessageTodos \cup InvalidTodos \cup DoneTodos \cup {<<>>}

Job == [at : Steps, todo : AllTodos, pct : Progress, snap : Snapshot, nodes : SUBSET NodeProgress]
Side == [left : Int, pc : {"idle", "found", "saving"}, snap : Snapshot]
Req == [todo : SUBSET Tasks, made : SUBSET Tasks, task : Tasks \cup {NoEntry}]
AdminOp == [op : {"idle", "mark", "delete", "clean"}, task : Tasks \cup {NoEntry}]

JobOK(j) == j \in Job /\ j.todo \in Todos(j.at)
JobsOK == job \in [Tasks -> Job] /\ \A t \in Tasks : JobOK(job[t])

TypeInv ==
  /\ mem \in [Tasks -> Entry \cup {NoEntry}]
  /\ doc \in [Tasks -> Document \cup {NoEntry}]
  /\ report \subseteq Tasks /\ registered \subseteq Tasks /\ told \subseteq Tasks
  /\ tracker \in [Tasks -> Snapshot] /\ stored \in [Tasks -> Snapshot]
  /\ JobsOK
  /\ side \in [Tasks -> [Savers -> Side]]
  /\ req \in [Requests -> Req]
  /\ admin \in [Admins -> AdminOp]
  /\ \A a \in Admins : admin[a].op \in {"mark", "delete"} => admin[a].task \in Tasks
  /\ ops \in 0..MaxAdmin /\ faults \in 0..MaxFaults

\* The updates that Writes lists.
LEMMA UpdateNames ==
  Updates = {"start", "prepare", "configure", "engine", "agents", "result", "node", "message",
             "invalid", "done", "failed"}
BY DEF Updates, Writes

\* An update begins with all its writes; all but the one of an invalid code begin with
\* the tracker.
LEMMA UpdatesBegin ==
  \A at \in Updates : /\ Writes[at] \in Todos(at) /\ Writes[at] # <<>>
                      /\ Percent[at] \in Progress \/ at \in {"node", "message"}
                      /\ at # "invalid" => Head(Writes[at]) = "tracker"
<1> SUFFICES ASSUME NEW at \in Updates
             PROVE  /\ Writes[at] \in Todos(at) /\ Writes[at] # <<>>
                    /\ Percent[at] \in Progress \/ at \in {"node", "message"}
                    /\ at # "invalid" => Head(Writes[at]) = "tracker"
  OBVIOUS
<1>1. at \in {"start", "prepare", "configure", "engine", "agents", "result", "node", "message",
             "invalid", "done", "failed"}
  BY UpdateNames
<1>2. CASE at \in {"start", "prepare", "configure", "engine", "agents", "result", "failed"}
  <2>1. Writes[at] = <<"tracker", "store", "memory", "mongo">>
    BY <1>2 DEF Writes, Coroutine
  <2>2. Percent[at] \in Progress
    BY <1>2 DEF Percent, Progress
  <2> QED
    BY <1>2, <2>1, <2>2 DEF Todos, CoroutineTodos
<1>3. CASE at = "node"
  BY <1>3 DEF Writes, Todos, NodeTodos
<1>4. CASE at = "message"
  BY <1>4 DEF Writes, Todos, MessageTodos
<1>5. CASE at = "invalid"
  BY <1>5 DEF Writes, Todos, InvalidTodos, Percent, Progress
<1>6. CASE at = "done"
  BY <1>6 DEF Writes, Todos, DoneTodos, Percent, Progress
<1> QED
  BY <1>1, <1>2, <1>3, <1>4, <1>5, <1>6

\* Following, update by update.
LEMMA UpdatesFollow ==
  /\ Following["start"] = "prepare" /\ Following["prepare"] = "pool"
  /\ Following["configure"] = "engine" /\ Following["engine"] = "agents"
  /\ Following["agents"] = "graph" /\ Following["node"] = "graph"
  /\ Following["message"] = "graph" /\ Following["result"] = "extract"
  /\ Following["done"] = "ended" /\ Following["failed"] = "ended" /\ Following["invalid"] = "ended"
BY DEF Following

\* The writes of an update that are left after the first of them.
LEMMA WritesLeft ==
  ASSUME NEW at \in Steps, NEW todo \in Todos(at), todo # <<>>
  PROVE  /\ at \in Updates
         /\ Head(todo) \in {"tracker", "store", "report", "memory", "mongo"}
         /\ Tail(todo) # <<>> => Tail(todo) \in Todos(at) /\ Head(Tail(todo)) # "tracker"
         /\ Head(todo) = "tracker" => Tail(todo) # <<>> /\ Head(Tail(todo)) = "store"
         /\ Head(todo) # "tracker" /\ Tail(todo) # <<>> => Head(Tail(todo)) # "store"
         /\ Head(todo) = "store" /\ at = "done" => Tail(todo) # <<>> /\ Head(Tail(todo)) = "report"
         /\ Head(todo) = "report" => at = "done" /\ Tail(todo) # <<>> /\ Head(Tail(todo)) = "memory"
         /\ at \in Ending => /\ Head(todo) = "mongo" <=> Tail(todo) = <<>>
                             /\ Head(todo) # "memory" => Tail(todo) = <<>> \/ Head(Tail(todo)) # "mongo"
<1>1. CASE at \in {"start", "prepare", "configure", "engine", "agents", "result", "failed"}
  <2>0. todo \in CoroutineTodos /\ at \in Updates
    BY <1>1, UpdateNames DEF Todos
  <2>1. CASE todo = <<"tracker", "store", "memory", "mongo">>
    <3>1. Head(todo) = "tracker" /\ Tail(todo) = <<"store", "memory", "mongo">>
      BY <2>1
    <3>0. <<"store", "memory", "mongo">> \in CoroutineTodos /\ <<"store", "memory", "mongo">> # <<>>
             /\ Head(<<"store", "memory", "mongo">>) = "store"
      BY DEF CoroutineTodos
    <3>2. Tail(todo) \in CoroutineTodos /\ Tail(todo) # <<>> /\ Head(Tail(todo)) = "store"
      BY <3>0, <3>1, Zenon
    <3>3. Tail(todo) \in Todos(at)
      BY <1>1, <3>2 DEF Todos
    <3> QED
      BY <1>1, <2>0, <3>1, <3>2, <3>3 DEF Ending
  <2>2. CASE todo = <<"store", "memory", "mongo">>
    <3>1. Head(todo) = "store" /\ Tail(todo) = <<"memory", "mongo">>
      BY <2>2
    <3>0. <<"memory", "mongo">> \in CoroutineTodos /\ <<"memory", "mongo">> # <<>>
             /\ Head(<<"memory", "mongo">>) = "memory"
      BY DEF CoroutineTodos
    <3>2. Tail(todo) \in CoroutineTodos /\ Tail(todo) # <<>> /\ Head(Tail(todo)) = "memory"
      BY <3>0, <3>1, Zenon
    <3>3. Tail(todo) \in Todos(at)
      BY <1>1, <3>2 DEF Todos
    <3> QED
      BY <1>1, <2>0, <3>1, <3>2, <3>3 DEF Ending
  <2>3. CASE todo = <<"memory", "mongo">>
    <3>1. Head(todo) = "memory" /\ Tail(todo) = <<"mongo">>
      BY <2>3
    <3>0. <<"mongo">> \in CoroutineTodos /\ <<"mongo">> # <<>> /\ Head(<<"mongo">>) = "mongo"
      BY DEF CoroutineTodos
    <3>2. Tail(todo) \in CoroutineTodos /\ Tail(todo) # <<>> /\ Head(Tail(todo)) = "mongo"
      BY <3>0, <3>1, Zenon
    <3>3. Tail(todo) \in Todos(at)
      BY <1>1, <3>2 DEF Todos
    <3> QED
      BY <1>1, <2>0, <3>1, <3>2, <3>3 DEF Ending
  <2>4. CASE todo = <<"mongo">>
    <3>1. Head(todo) = "mongo" /\ Tail(todo) = <<>>
      BY <2>4
    <3> QED
      BY <1>1, <2>0, <3>1 DEF Ending
  <2> QED
    BY <2>0, <2>1, <2>2, <2>3, <2>4 DEF CoroutineTodos
<1>2. CASE at = "node"
  <2>0. todo \in NodeTodos /\ at \in Updates
    BY <1>2, UpdateNames DEF Todos
  <2>1. CASE todo = <<"tracker", "store", "mongo", "memory">>
    <3>1. Head(todo) = "tracker" /\ Tail(todo) = <<"store", "mongo", "memory">>
      BY <2>1
    <3>0. <<"store", "mongo", "memory">> \in NodeTodos /\ <<"store", "mongo", "memory">> # <<>>
             /\ Head(<<"store", "mongo", "memory">>) = "store"
      BY DEF NodeTodos
    <3>2. Tail(todo) \in NodeTodos /\ Tail(todo) # <<>> /\ Head(Tail(todo)) = "store"
      BY <3>0, <3>1, Zenon
    <3>3. Tail(todo) \in Todos(at)
      BY <1>2, <3>2 DEF Todos
    <3> QED
      BY <1>2, <2>0, <3>1, <3>2, <3>3 DEF Ending
  <2>2. CASE todo = <<"store", "mongo", "memory">>
    <3>1. Head(todo) = "store" /\ Tail(todo) = <<"mongo", "memory">>
      BY <2>2
    <3>0. <<"mongo", "memory">> \in NodeTodos /\ <<"mongo", "memory">> # <<>>
             /\ Head(<<"mongo", "memory">>) = "mongo"
      BY DEF NodeTodos
    <3>2. Tail(todo) \in NodeTodos /\ Tail(todo) # <<>> /\ Head(Tail(todo)) = "mongo"
      BY <3>0, <3>1, Zenon
    <3>3. Tail(todo) \in Todos(at)
      BY <1>2, <3>2 DEF Todos
    <3> QED
      BY <1>2, <2>0, <3>1, <3>2, <3>3 DEF Ending
  <2>3. CASE todo = <<"mongo", "memory">>
    <3>1. Head(todo) = "mongo" /\ Tail(todo) = <<"memory">>
      BY <2>3
    <3>0. <<"memory">> \in NodeTodos /\ <<"memory">> # <<>> /\ Head(<<"memory">>) = "memory"
      BY DEF NodeTodos
    <3>2. Tail(todo) \in NodeTodos /\ Tail(todo) # <<>> /\ Head(Tail(todo)) = "memory"
      BY <3>0, <3>1, Zenon
    <3>3. Tail(todo) \in Todos(at)
      BY <1>2, <3>2 DEF Todos
    <3> QED
      BY <1>2, <2>0, <3>1, <3>2, <3>3 DEF Ending
  <2>4. CASE todo = <<"memory">>
    <3>1. Head(todo) = "memory" /\ Tail(todo) = <<>>
      BY <2>4
    <3> QED
      BY <1>2, <2>0, <3>1 DEF Ending
  <2> QED
    BY <2>0, <2>1, <2>2, <2>3, <2>4 DEF NodeTodos
<1>3. CASE at = "message"
  <2>0. todo \in MessageTodos /\ at \in Updates
    BY <1>3, UpdateNames DEF Todos
  <2>1. CASE todo = <<"tracker", "store">>
    <3>1. Head(todo) = "tracker" /\ Tail(todo) = <<"store">>
      BY <2>1
    <3>0. <<"store">> \in MessageTodos /\ <<"store">> # <<>> /\ Head(<<"store">>) = "store"
      BY DEF MessageTodos
    <3>2. Tail(todo) \in MessageTodos /\ Tail(todo) # <<>> /\ Head(Tail(todo)) = "store"
      BY <3>0, <3>1, Zenon
    <3>3. Tail(todo) \in Todos(at)
      BY <1>3, <3>2 DEF Todos
    <3> QED
      BY <1>3, <2>0, <3>1, <3>2, <3>3 DEF Ending
  <2>2. CASE todo = <<"store">>
    <3>1. Head(todo) = "store" /\ Tail(todo) = <<>>
      BY <2>2
    <3> QED
      BY <1>3, <2>0, <3>1 DEF Ending
  <2> QED
    BY <2>0, <2>1, <2>2 DEF MessageTodos
<1>4. CASE at = "invalid"
  <2>0. todo \in InvalidTodos /\ at \in Updates
    BY <1>4, UpdateNames DEF Todos
  <2>1. CASE todo = <<"memory", "mongo">>
    <3>1. Head(todo) = "memory" /\ Tail(todo) = <<"mongo">>
      BY <2>1
    <3>0. <<"mongo">> \in InvalidTodos /\ <<"mongo">> # <<>> /\ Head(<<"mongo">>) = "mongo"
      BY DEF InvalidTodos
    <3>2. Tail(todo) \in InvalidTodos /\ Tail(todo) # <<>> /\ Head(Tail(todo)) = "mongo"
      BY <3>0, <3>1, Zenon
    <3>3. Tail(todo) \in Todos(at)
      BY <1>4, <3>2 DEF Todos
    <3> QED
      BY <1>4, <2>0, <3>1, <3>2, <3>3 DEF Ending
  <2>2. CASE todo = <<"mongo">>
    <3>1. Head(todo) = "mongo" /\ Tail(todo) = <<>>
      BY <2>2
    <3> QED
      BY <1>4, <2>0, <3>1 DEF Ending
  <2> QED
    BY <2>0, <2>1, <2>2 DEF InvalidTodos
<1>5. CASE at = "done"
  <2>0. todo \in DoneTodos /\ at \in Updates
    BY <1>5, UpdateNames DEF Todos
  <2>1. CASE todo = <<"tracker", "store", "report", "memory", "mongo">>
    <3>1. Head(todo) = "tracker" /\ Tail(todo) = <<"store", "report", "memory", "mongo">>
      BY <2>1
    <3>0. <<"store", "report", "memory", "mongo">> \in DoneTodos
             /\ <<"store", "report", "memory", "mongo">> # <<>>
                   /\ Head(<<"store", "report", "memory", "mongo">>) = "store"
      BY DEF DoneTodos
    <3>2. Tail(todo) \in DoneTodos /\ Tail(todo) # <<>> /\ Head(Tail(todo)) = "store"
      BY <3>0, <3>1, Zenon
    <3>3. Tail(todo) \in Todos(at)
      BY <1>5, <3>2 DEF Todos
    <3> QED
      BY <1>5, <2>0, <3>1, <3>2, <3>3 DEF Ending
  <2>2. CASE todo = <<"store", "report", "memory", "mongo">>
    <3>1. Head(todo) = "store" /\ Tail(todo) = <<"report", "memory", "mongo">>
      BY <2>2
    <3>0. <<"report", "memory", "mongo">> \in DoneTodos /\ <<"report", "memory", "mongo">> # <<>>
             /\ Head(<<"report", "memory", "mongo">>) = "report"
      BY DEF DoneTodos
    <3>2. Tail(todo) \in DoneTodos /\ Tail(todo) # <<>> /\ Head(Tail(todo)) = "report"
      BY <3>0, <3>1, Zenon
    <3>3. Tail(todo) \in Todos(at)
      BY <1>5, <3>2 DEF Todos
    <3> QED
      BY <1>5, <2>0, <3>1, <3>2, <3>3 DEF Ending
  <2>3. CASE todo = <<"report", "memory", "mongo">>
    <3>1. Head(todo) = "report" /\ Tail(todo) = <<"memory", "mongo">>
      BY <2>3
    <3>0. <<"memory", "mongo">> \in DoneTodos /\ <<"memory", "mongo">> # <<>>
             /\ Head(<<"memory", "mongo">>) = "memory"
      BY DEF DoneTodos
    <3>2. Tail(todo) \in DoneTodos /\ Tail(todo) # <<>> /\ Head(Tail(todo)) = "memory"
      BY <3>0, <3>1, Zenon
    <3>3. Tail(todo) \in Todos(at)
      BY <1>5, <3>2 DEF Todos
    <3> QED
      BY <1>5, <2>0, <3>1, <3>2, <3>3 DEF Ending
  <2>4. CASE todo = <<"memory", "mongo">>
    <3>1. Head(todo) = "memory" /\ Tail(todo) = <<"mongo">>
      BY <2>4
    <3>0. <<"mongo">> \in DoneTodos /\ <<"mongo">> # <<>> /\ Head(<<"mongo">>) = "mongo"
      BY DEF DoneTodos
    <3>2. Tail(todo) \in DoneTodos /\ Tail(todo) # <<>> /\ Head(Tail(todo)) = "mongo"
      BY <3>0, <3>1, Zenon
    <3>3. Tail(todo) \in Todos(at)
      BY <1>5, <3>2 DEF Todos
    <3> QED
      BY <1>5, <2>0, <3>1, <3>2, <3>3 DEF Ending
  <2>5. CASE todo = <<"mongo">>
    <3>1. Head(todo) = "mongo" /\ Tail(todo) = <<>>
      BY <2>5
    <3> QED
      BY <1>5, <2>0, <3>1 DEF Ending
  <2> QED
    BY <2>0, <2>1, <2>2, <2>3, <2>4, <2>5 DEF DoneTodos
<1>6. CASE at \notin Updates
  BY <1>6, UpdateNames DEF Todos
<1> QED
  BY <1>1, <1>2, <1>3, <1>4, <1>5, <1>6, UpdateNames

\* What may be left of one update may be left of some update.
LEMMA TodosInAll ==
  ASSUME NEW at \in Steps PROVE Todos(at) \subseteq AllTodos
BY DEF Todos, AllTodos

\* An update always has a write left.
LEMMA UpdatesHaveWrites ==
  ASSUME NEW at \in Updates, NEW todo \in Todos(at) PROVE todo # <<>>
BY UpdateNames DEF Todos, CoroutineTodos, NodeTodos, MessageTodos, InvalidTodos, DoneTodos

\* A job of another task is left alone by a step of this one.
LEMMA JobChanges ==
  ASSUME JobsOK, NEW t \in Tasks, NEW j, JobOK(j), job' = [job EXCEPT ![t] = j]
  PROVE  JobsOK' /\ job'[t] = j /\ \A u \in Tasks \ {t} : job'[u] = job[u]
BY DEF JobsOK, JobOK

\* After a write of memory, MongoDB, the report or Redis: the next one, or the
\* next update, or the end.
LEMMA ProceedFacts ==
  ASSUME JobsOK, NEW t \in Tasks, job[t].todo # <<>>, Head(job[t].todo) # "tracker",
         NEW rest \in {Tail(job[t].todo), <<>>}, Proceed(t, rest)
  PROVE  /\ JobsOK' /\ \A u \in Tasks \ {t} : job'[u] = job[u]
         /\ ~Writing(t, "store")'
         /\ \/ /\ rest # <<>> /\ rest = Tail(job[t].todo)
               /\ job'[t].at = job[t].at /\ job'[t].todo = rest /\ job'[t].pct = job[t].pct
               /\ ~Writing(t, "tracker")'
            \/ /\ rest = <<>> /\ job[t].at \in Ending /\ job'[t].at = "ended" /\ ~Writing(t, "tracker")'
            \/ /\ rest = <<>> /\ job[t].at \notin Ending
               /\ job'[t].at \in {"prepare", "pool", "engine", "agents", "graph", "extract"}
<1> DEFINE j == job[t]
           next == Following[j.at]
           n == [at |-> next, snap |-> NoEntry,
                 todo |-> IF next \in Updates THEN Writes[next] ELSE <<>>,
                 pct |-> IF next \in Updates THEN Percent[next] ELSE 0,
                 nodes |-> IF next = "graph" THEN j.nodes ELSE {}]
<1>1. j \in Job /\ j.at \in Steps /\ j.todo \in Todos(j.at)
  BY DEF JobsOK, JobOK, Job
<1>2. j.at \in Updates /\ NoEntry \in Snapshot
  BY <1>1, WritesLeft DEF Snapshot
<1>3. job' = [job EXCEPT ![t] = IF rest # <<>> THEN [j EXCEPT !.todo = rest, !.snap = NoEntry] ELSE n]
  BY DEF Proceed
<1>4. CASE rest # <<>>
  <2> DEFINE m == [j EXCEPT !.todo = rest, !.snap = NoEntry]
  <2>1. rest = Tail(j.todo) /\ rest \in Todos(j.at) /\ Head(rest) \notin {"tracker", "store"}
    <3>1. rest = Tail(j.todo) /\ Tail(j.todo) # <<>> /\ j.todo # <<>> /\ Head(j.todo) # "tracker"
      BY <1>4
    <3>2. Tail(j.todo) \in Todos(j.at) /\ Head(Tail(j.todo)) # "tracker" /\ Head(Tail(j.todo)) # "store"
      BY <1>1, <3>1, WritesLeft
    <3> QED
      BY <3>1, <3>2, Zenon
  <2>2. rest \in AllTodos
    BY <1>1, <2>1, TodosInAll
  <2>3. m \in Job /\ m.at = j.at /\ m.todo = rest /\ m.pct = j.pct
    BY <1>1, <1>2, <2>2 DEF Job
  <2>4. JobOK(m)
    BY <2>1, <2>3 DEF JobOK
  <2>5. job' = [job EXCEPT ![t] = m]
    BY <1>3, <1>4
  <2> HIDE DEF m
  <2>6. JobsOK' /\ job'[t] = m /\ \A u \in Tasks \ {t} : job'[u] = job[u]
    BY <2>4, <2>5, JobChanges
  <2> QED
    BY <1>4, <2>1, <2>3, <2>6 DEF Writing
<1>5. CASE rest = <<>>
  <2>1. /\ next \in {"prepare", "pool", "engine", "agents", "graph", "extract", "ended"}
        /\ next = "ended" <=> j.at \in Ending
    BY <1>2, UpdateNames, UpdatesFollow DEF Ending
  <2>2. n.todo \in Todos(next) /\ (n.todo = <<>> \/ Head(n.todo) = "tracker") /\ n.pct \in Progress
    <3>1. CASE next \in Updates
      BY <2>1, <3>1, UpdatesBegin
    <3>2. CASE next \notin Updates
      BY <2>1, <3>2, UpdateNames DEF Todos, Progress
    <3> QED
      BY <3>1, <3>2
  <2>3. next \in Steps /\ n.todo \in AllTodos
    <3>1. next \in Steps
      BY <2>1 DEF Steps
    <3> QED
      BY <2>2, <3>1, TodosInAll
  <2>4. n.at = next /\ n.snap = NoEntry /\ n.nodes \subseteq NodeProgress
    BY <1>1 DEF Job
  <2> HIDE DEF next
  <2>5. n \in Job
    BY <1>1, <1>2, <2>2, <2>3, <2>4 DEF Job
  <2>6. JobOK(n)
    BY <2>2, <2>4, <2>5 DEF JobOK
  <2>7. job' = [job EXCEPT ![t] = n]
    BY <1>3, <1>5
  <2> HIDE DEF n
  <2>8. JobsOK' /\ job'[t] = n /\ \A u \in Tasks \ {t} : job'[u] = job[u]
    BY <2>6, <2>7, JobChanges
  <2>9. next = "ended" => n.todo = <<>>
    BY UpdateNames DEF n
  <2> QED
    BY <1>5, <2>1, <2>2, <2>4, <2>8, <2>9 DEF Writing
<1> QED
  BY <1>4, <1>5

Owns(r) == req[r].todo \cup req[r].made
RequestsOK ==
  /\ \A r \in Requests :
       /\ req[r].task # NoEntry => req[r].task \in req[r].todo
       /\ \A t \in Owns(r) : job[t].at = "none"
       /\ \A t \in req[r].made : t \in lost \/ doc[t] # NoEntry
       /\ \A q \in Requests : q # r => Owns(q) \cap Owns(r) = {}
  /\ \A t \in told : job[t].at # "none"

Tracked == {"start", "prepare", "pool", "configure", "engine", "agents", "graph", "node",
            "message", "result", "extract", "done"}
Over(t) == \/ job[t].at \in {"done", "failed"} /\ ~Writing(t, "tracker")
           \/ job[t].at \in {"ended", "dead"}
TrackerOK(t) ==
  /\ job[t].at \in Tracked \/ Writing(t, "tracker") \/ Writing(t, "store") => tracker[t] # NoEntry
  /\ tracker[t] # NoEntry /\ tracker[t].status \in Terminal => Over(t)
  /\ tracker[t] # NoEntry =>
       IF Writing(t, "store") THEN job[t].snap = tracker[t]
       ELSE \/ \E s \in Savers : side[t][s].pc = "saving"
            \/ stored[t] = tracker[t]
            \/ \E s \in Savers : stored[t] = side[t][s].snap

AdminsTold == \A a \in Admins : admin[a].op \in {"mark", "delete"} => admin[a].task \in told

TaskInv == TypeInv /\ RequestsOK /\ AdminsTold /\ \A t \in Tasks : TrackerOK(t)

\* The absent record is none of the records.
LEMMA NoEntryIsNew ==
  NoEntry \notin Tasks /\ NoEntry \notin Entry /\ NoEntry \notin Document /\ NoEntry \notin ProgressData
BY AnalysisAssumption

\* The bounds are numbers.
LEMMA BoundsAreNat == SideUpdates \in Nat /\ MaxAdmin \in Nat /\ MaxFaults \in Nat
BY AnalysisAssumption

\* Begin changes the job of one task, to the update it names.
LEMMA BeginFacts ==
  ASSUME JobsOK, NEW t \in Tasks, NEW at \in Steps, NEW todo \in Todos(at), NEW pct \in Progress,
         Begin(t, at, todo, pct)
  PROVE  /\ JobsOK'
         /\ job'[t].at = at /\ job'[t].todo = todo /\ job'[t].pct = pct
         /\ \A u \in Tasks \ {t} : job'[u] = job[u]
<1> DEFINE n == [job[t] EXCEPT !.at = at, !.todo = todo, !.pct = pct]
<1>1. job[t] \in Job
  BY DEF JobsOK, JobOK
<1>2. todo \in AllTodos
  BY TodosInAll
<1>3. n \in Job /\ n.at = at /\ n.todo = todo /\ n.pct = pct
  BY <1>1, <1>2 DEF Job
<1>4. job' = [job EXCEPT ![t] = n]
  BY DEF Begin
<1> HIDE DEF n
<1>5. JobOK(n)
  BY <1>3 DEF JobOK
<1> QED
  BY <1>3, <1>4, <1>5, JobChanges

\* The writes of a task of which something is left are those of its update.
LEMMA IdleHasNoWrites ==
  ASSUME NEW at \in Steps, at \notin Updates PROVE Todos(at) = {<<>>}
BY UpdateNames DEF Todos

\* A task whose update has writes left is in an update.
LEMMA WritingFacts ==
  ASSUME JobsOK, NEW t \in Tasks, job[t].todo # <<>>
  PROVE  job[t].at \in Updates /\ job[t].at \in Steps /\ job[t].todo \in Todos(job[t].at)
<1>1. job[t].at \in Steps /\ job[t].todo \in Todos(job[t].at)
  BY DEF JobsOK, JobOK, Job
<1> QED
  BY <1>1, WritesLeft

\* ... the first part of a tracker update is followed by the save of its snapshot.
LEMMA UpdateTrackerFacts ==
  ASSUME TypeInv, NEW t \in Tasks, tracker[t] # NoEntry, UpdateTracker(t)
  PROVE  /\ JobsOK' /\ tracker' \in [Tasks -> Snapshot]
         /\ \A u \in Tasks \ {t} : job'[u] = job[u] /\ tracker'[u] = tracker[u]
         /\ job'[t].at = job[t].at /\ job'[t].pct = job[t].pct /\ job'[t].snap = tracker'[t]
         /\ Writing(t, "store")' /\ tracker'[t] # NoEntry
         /\ job[t].at \notin {"done", "failed"} => tracker'[t].status = tracker[t].status
<1> DEFINE j == job[t]
           at == j.at
           new == CASE at \in {"done", "failed"} -> EndedTracker(tracker[t], at)
                    [] at = "message" -> tracker[t]
                    [] OTHER -> [tracker[t] EXCEPT !.pct = j.pct]
           n == [j EXCEPT !.todo = Tail(j.todo), !.snap = new]
<1>1. j \in Job /\ at \in Steps /\ j.todo \in Todos(at) /\ j.pct \in Progress
  BY DEF TypeInv, JobsOK, JobOK, Job
<1>2. tracker[t] \in ProgressData /\ tracker \in [Tasks -> Snapshot]
  BY DEF TypeInv, Snapshot
<1>3. tracker[t].status \in {"running"} \cup Terminal /\ tracker[t].pct \in Progress
  BY <1>2 DEF ProgressData
<1>4. /\ new \in ProgressData
      /\ at \notin {"done", "failed"} => new.status = tracker[t].status
  <2>1. CASE at \in {"done", "failed"}
    BY <1>3, <2>1 DEF EndedTracker, EndStatus, ProgressData, Terminal, Progress
  <2>2. CASE at = "message"
    BY <1>2, <2>2
  <2>3. CASE at \notin {"done", "failed", "message"}
    BY <1>1, <1>2, <2>3 DEF ProgressData
  <2> QED
    BY <2>1, <2>2, <2>3
<1>5. tracker' = [tracker EXCEPT ![t] = new]
  BY DEF UpdateTracker
<1> HIDE DEF new
<1>6. /\ tracker' \in [Tasks -> Snapshot] /\ tracker'[t] = new
      /\ \A u \in Tasks \ {t} : tracker'[u] = tracker[u]
  BY <1>2, <1>4, <1>5 DEF Snapshot
<1>7. job' = [job EXCEPT ![t] = n]
  <2>1. job' = [job EXCEPT ![t] = [job[t] EXCEPT !.todo = Tail(job[t].todo), !.snap = tracker'[t]]]
    BY Zenon DEF UpdateTracker
  <2> QED
    BY <1>6, <2>1, Zenon
<1>8. /\ j.todo # <<>> /\ Tail(j.todo) # <<>> /\ Tail(j.todo) \in Todos(at)
      /\ Head(Tail(j.todo)) = "store"
  <2>1. j.todo # <<>> /\ Head(j.todo) = "tracker"
    BY DEF UpdateTracker, Writing
  <2> QED
    BY <1>1, <2>1, WritesLeft
<1>9. Tail(j.todo) \in AllTodos /\ new \in Snapshot
  BY <1>1, <1>4, <1>8, TodosInAll DEF Snapshot
<1>10. n \in Job /\ n.at = at /\ n.todo = Tail(j.todo) /\ n.pct = j.pct /\ n.snap = new
  BY <1>1, <1>9 DEF Job
<1> HIDE DEF n
<1>11. JobOK(n)
  BY <1>8, <1>10 DEF JobOK
<1>12. JobsOK' /\ job'[t] = n /\ \A u \in Tasks \ {t} : job'[u] = job[u]
  BY <1>7, <1>11, JobChanges DEF TypeInv
<1>13. Writing(t, "store")'
  BY <1>8, <1>10, <1>12 DEF Writing
<1>14. new # NoEntry
  BY <1>4, NoEntryIsNew
<1> QED
  BY <1>4, <1>6, <1>10, <1>12, <1>13, <1>14

\* The steps of a task's own coroutine and thread that write no copy.
Advances(t) == \/ Validate(t) \/ CreateTracker(t) \/ EnterPool(t) \/ NodeCallback(t)
               \/ GraphReturns(t) \/ ExtractResult(t) \/ AnalysisFails(t)

\* Where those steps lead: to the first write of an update, or to the
\* construction of the tracker.
LEMMA AdvanceFacts ==
  ASSUME JobsOK, NEW t \in Tasks, Advances(t)
  PROVE  /\ JobsOK' /\ \A u \in Tasks \ {t} : job'[u] = job[u]
         /\ ~Writing(t, "store") /\ ~Writing(t, "store")'
         /\ \/ /\ job[t].at = "launched" /\ Validate(t)
               /\ job'[t].at \in {"newTracker", "invalid", "failed"}
               /\ ~Writing(t, "tracker")' /\ ~Writing(t, "mongo")'
            \/ job[t].at = "newTracker" /\ CreateTracker(t) /\ job'[t].at = "start"
               /\ Writing(t, "tracker")'
            \/ /\ job[t].at \in {"pool", "engine", "agents", "graph", "extract"}
               /\ job'[t].at \in {"configure", "node", "message", "result", "done", "failed"}
               /\ Writing(t, "tracker")' /\ UNCHANGED <<copies, faults, history>>
         /\ UNCHANGED <<mem, doc, report, side, req, told, admin, ops, faults, history>>
<1>1. CASE Validate(t)
  <2>1. job[t].at = "launched" /\ UNCHANGED <<copies, side, req, told, admin, ops, faults, history>>
    BY <1>1 DEF Validate
  <2>2. ~Writing(t, "store")
    BY <2>1, WritingFacts, UpdateNames DEF Writing
  <2>3. CASE Begin(t, "newTracker", <<>>, 0)
    <3>1. "newTracker" \in Steps /\ <<>> \in Todos("newTracker") /\ 0 \in Progress
      BY DEF Steps, Todos, Progress
    <3> QED
      BY <1>1, <2>1, <2>2, <2>3, <3>1, BeginFacts DEF Writing, copies, history
  <2>4. CASE Begin(t, "invalid", Writes.invalid, 0)
    <3>1. /\ "invalid" \in Steps /\ Writes.invalid \in Todos("invalid") /\ 0 \in Progress
          /\ Head(Writes.invalid) = "memory"
      BY DEF Steps, Todos, Progress, Writes, InvalidTodos
    <3> QED
      BY <1>1, <2>1, <2>2, <2>4, <3>1, BeginFacts DEF Writing, copies, history
  <2>5. CASE Begin(t, "failed", <<"memory", "mongo">>, 0)
    <3>1. /\ "failed" \in Steps /\ <<"memory", "mongo">> \in Todos("failed") /\ 0 \in Progress
          /\ Head(<<"memory", "mongo">>) = "memory"
      BY DEF Steps, Todos, Progress, CoroutineTodos
    <3> QED
      BY <1>1, <2>1, <2>2, <2>5, <3>1, BeginFacts DEF Writing, copies, history
  <2> QED
    BY <1>1, <2>3, <2>4, <2>5 DEF Validate
<1>2. ASSUME NEW at \in {"start", "configure", "node", "message", "result", "done", "failed"},
             NEW pct \in Progress,
             \/ Begin(t, at, Writes[at], pct)
             \/ /\ NodeCallback(t) /\ at \in {"node", "message"}
                /\ \E p \in NodeProgress : /\ pct = p
                      /\ job' = [job EXCEPT ![t] = [@ EXCEPT !.at = at, !.todo = Writes[at], !.pct = p,
                                           !.nodes = job[t].nodes \cup {p}]]
             \/ job' = [job EXCEPT ![t] = [@ EXCEPT !.at = at, !.todo = Writes[at],
                                         !.pct = pct, !.nodes = {}]]
      PROVE  /\ JobsOK' /\ \A u \in Tasks \ {t} : job'[u] = job[u]
             /\ job'[t].at = at /\ Writing(t, "tracker")' /\ ~Writing(t, "store")'
  <2>1. /\ at \in Steps /\ at \in Updates /\ at # "invalid"
    BY <1>2, UpdateNames DEF Steps
  <2>2. Writes[at] \in Todos(at) /\ Writes[at] # <<>> /\ Head(Writes[at]) = "tracker"
    BY <2>1, UpdatesBegin
  <2>3. Writes[at] \in AllTodos
    BY <2>1, <2>2, TodosInAll
  <2>4. PICK n \in Job : job' = [job EXCEPT ![t] = n] /\ n.at = at /\ n.todo = Writes[at]
    <3>1. job[t] \in Job /\ job[t].nodes \subseteq NodeProgress
      BY DEF JobsOK, JobOK, Job
    <3>2. CASE Begin(t, at, Writes[at], pct)
      <4> DEFINE n == [job[t] EXCEPT !.at = at, !.todo = Writes[at], !.pct = pct]
      <4>1. n \in Job /\ n.at = at /\ n.todo = Writes[at]
        BY <2>1, <2>3, <3>1 DEF Job
      <4> QED
        BY <3>2, <4>1 DEF Begin
    <3>3. ASSUME NEW p \in NodeProgress, pct = p,
                 job' = [job EXCEPT ![t] = [@ EXCEPT !.at = at, !.todo = Writes[at], !.pct = p,
                                           !.nodes = job[t].nodes \cup {p}]]
          PROVE  \E n \in Job : job' = [job EXCEPT ![t] = n] /\ n.at = at /\ n.todo = Writes[at]
      <4> DEFINE n == [job[t] EXCEPT !.at = at, !.todo = Writes[at], !.pct = p, !.nodes = job[t].nodes \cup {p}]
      <4>1. n \in Job /\ n.at = at /\ n.todo = Writes[at]
        BY <2>1, <2>3, <3>1, <3>3 DEF Job
      <4>2. job' = [job EXCEPT ![t] = n]
        BY <3>3, Zenon
      <4> QED
        BY <4>1, <4>2
    <3>4. ASSUME job' = [job EXCEPT ![t] = [@ EXCEPT !.at = at, !.todo = Writes[at],
                                         !.pct = pct, !.nodes = {}]]
          PROVE  \E n \in Job : job' = [job EXCEPT ![t] = n] /\ n.at = at /\ n.todo = Writes[at]
      <4> DEFINE n == [job[t] EXCEPT !.at = at, !.todo = Writes[at], !.pct = pct, !.nodes = {}]
      <4>1. n \in Job /\ n.at = at /\ n.todo = Writes[at]
        BY <2>1, <2>3, <3>1 DEF Job
      <4>2. job' = [job EXCEPT ![t] = n]
        BY <3>4
      <4> QED
        BY <4>1, <4>2
    <3> QED
      BY <1>2, <3>2, <3>3, <3>4
  <2>5. JobOK(n)
    BY <2>2, <2>4 DEF JobOK
  <2>6. JobsOK' /\ job'[t] = n /\ \A u \in Tasks \ {t} : job'[u] = job[u]
    BY <2>4, <2>5, JobChanges
  <2> QED
    BY <2>2, <2>4, <2>6 DEF Writing
<1>3. ASSUME job[t].at \notin Updates \/ (job[t].at \in {"engine", "agents"} /\ Len(job[t].todo) = 4)
      PROVE  ~Writing(t, "store")
  <2>1. CASE job[t].at \notin Updates
    BY <2>1, WritingFacts DEF Writing
  <2>2. CASE job[t].at \in {"engine", "agents"} /\ Len(job[t].todo) = 4
    <3>1. job[t].todo \in CoroutineTodos
      BY <2>2 DEF JobsOK, JobOK, Todos
    <3>2. Head(<<"tracker", "store", "memory", "mongo">>) = "tracker"
      OBVIOUS
    <3>3. job[t].todo = <<"tracker", "store", "memory", "mongo">>
      BY <2>2, <3>1 DEF CoroutineTodos
    <3> QED
      BY <3>2, <3>3, Zenon DEF Writing
  <2> QED
    BY <1>3, <2>1, <2>2
<1>4. CASE CreateTracker(t)
  <2>1. /\ job[t].at = "newTracker" /\ Begin(t, "start", Writes["start"], Percent["start"])
        /\ UNCHANGED <<mem, doc, report, side, req, told, admin, ops, faults, history>>
    BY <1>4 DEF CreateTracker
  <2>2. Percent["start"] \in Progress
    BY DEF Percent, Progress
  <2>3. ~Writing(t, "store")
    BY <1>3, <2>1, UpdateNames
  <2> QED
    BY <1>2, <1>4, <2>1, <2>2, <2>3
<1>5. CASE EnterPool(t)
  <2>1. /\ job[t].at = "pool" /\ Begin(t, "configure", Writes["configure"], Percent["configure"])
        /\ UNCHANGED <<copies, side, req, told, admin, ops, faults, history>>
    BY <1>5 DEF EnterPool
  <2>2. Percent["configure"] \in Progress
    BY DEF Percent, Progress
  <2>3. ~Writing(t, "store")
    BY <1>3, <2>1, UpdateNames
  <2> QED
    BY <1>2, <2>1, <2>2, <2>3 DEF copies
<1>6. CASE NodeCallback(t)
  <2>1. job[t].at = "graph" /\ UNCHANGED <<copies, side, req, told, admin, ops, faults, history>>
    BY <1>6 DEF NodeCallback
  <2>2. ~Writing(t, "store")
    BY <1>3, <2>1, UpdateNames
  <2>3. PICK p \in NodeProgress, at \in {"node", "message"} :
          job' = [job EXCEPT ![t] = [@ EXCEPT !.at = at, !.todo = Writes[at], !.pct = p,
                                              !.nodes = job[t].nodes \cup {p}]]
    BY <1>6 DEF NodeCallback
  <2>4. p \in Progress
    BY AnalysisAssumption DEF Progress
  <2> QED
    BY <1>2, <1>6, <2>1, <2>2, <2>3, <2>4 DEF copies
<1>7. CASE GraphReturns(t)
  <2>1. /\ job[t].at = "graph" /\ UNCHANGED <<copies, side, req, told, admin, ops, faults, history>>
        /\ job' = [job EXCEPT ![t] = [@ EXCEPT !.at = "result", !.todo = Writes["result"],
                                         !.pct = Percent["result"], !.nodes = {}]]
    BY <1>7 DEF GraphReturns
  <2>2. Percent["result"] \in Progress
    BY DEF Percent, Progress
  <2>3. ~Writing(t, "store")
    BY <1>3, <2>1, UpdateNames
  <2> QED
    BY <1>2, <2>1, <2>2, <2>3 DEF copies
<1>8. CASE ExtractResult(t)
  <2>1. /\ job[t].at = "extract" /\ Begin(t, "done", Writes["done"], Percent["done"])
        /\ UNCHANGED <<copies, side, req, told, admin, ops, faults, history>>
    BY <1>8 DEF ExtractResult
  <2>2. Percent["done"] \in Progress
    BY DEF Percent, Progress
  <2>3. ~Writing(t, "store")
    BY <1>3, <2>1, UpdateNames
  <2> QED
    BY <1>2, <2>1, <2>2, <2>3 DEF copies
<1>9. CASE AnalysisFails(t)
  <2>1. /\ \/ job[t].at \in {"graph", "extract"}
           \/ job[t].at \in {"engine", "agents"} /\ Len(job[t].todo) = 4
        /\ Begin(t, "failed", Writes["failed"], Percent["failed"])
        /\ UNCHANGED <<copies, side, req, told, admin, ops, faults, history>>
    BY <1>9 DEF AnalysisFails
  <2>2. Percent["failed"] \in Progress
    BY DEF Percent, Progress
  <2>3. ~Writing(t, "store")
    BY <1>3, <2>1, UpdateNames
  <2> QED
    BY <1>2, <2>1, <2>2, <2>3 DEF copies
<1> QED
  BY <1>1, <1>4, <1>5, <1>6, <1>7, <1>8, <1>9 DEF Advances

\* The steps that write a copy and go on.
CopySteps(t) == StoreProgress(t) \/ UpdateMemory(t) \/ UpdateMongo(t) \/ SaveReport(t)

\* Where they lead.
Moves(t) ==
  \/ /\ Tail(job[t].todo) # <<>> /\ job'[t].todo = Tail(job[t].todo)
     /\ job'[t].at = job[t].at /\ job'[t].pct = job[t].pct /\ ~Writing(t, "tracker")'
  \/ job[t].at \in Ending /\ job'[t].at = "ended" /\ Writing(t, "mongo") /\ ~Writing(t, "tracker")'
  \/ /\ job[t].at \in Updates \ Ending
     /\ job'[t].at \in {"prepare", "pool", "engine", "agents", "graph", "extract"}

\* A step that writes a copy moves its own task on and leaves the jobs of the others alone.
LEMMA CopyStepFacts ==
  ASSUME JobsOK, NEW t \in Tasks, CopySteps(t)
  PROVE  /\ JobsOK' /\ \A u \in Tasks \ {t} : job'[u] = job[u]
         /\ ~Writing(t, "store")' /\ Moves(t)
         /\ job[t].todo # <<>> /\ Head(job[t].todo) # "tracker" /\ job[t].at \in Updates
         /\ registered' \subseteq registered
         /\ UNCHANGED <<tracker, side, req, told, admin, ops, touched>>
<1>1. /\ job[t].todo # <<>> /\ Head(job[t].todo) # "tracker"
      /\ UNCHANGED <<tracker, side, req, told, admin, ops, touched>>
  BY DEF CopySteps, StoreProgress, UpdateMemory, UpdateMongo, SaveReport, Writing, history
<1>2. /\ job[t].at \in Updates /\ job[t].at \in Steps /\ job[t].todo \in Todos(job[t].at)
  BY <1>1, WritingFacts
<1>3. PICK rest \in {Tail(job[t].todo), <<>>} :
        Proceed(t, rest) /\ (rest = <<>> /\ Tail(job[t].todo) # <<>> => Writing(t, "mongo"))
  BY DEF CopySteps, StoreProgress, UpdateMemory, UpdateMongo, SaveReport
<1>4. /\ JobsOK' /\ \A u \in Tasks \ {t} : job'[u] = job[u]
      /\ ~Writing(t, "store")'
      /\ \/ /\ rest # <<>> /\ rest = Tail(job[t].todo)
            /\ job'[t].at = job[t].at /\ job'[t].todo = rest /\ job'[t].pct = job[t].pct
            /\ ~Writing(t, "tracker")'
         \/ /\ rest = <<>> /\ job[t].at \in Ending /\ job'[t].at = "ended" /\ ~Writing(t, "tracker")'
         \/ /\ rest = <<>> /\ job[t].at \notin Ending
            /\ job'[t].at \in {"prepare", "pool", "engine", "agents", "graph", "extract"}
  BY <1>1, <1>3, ProceedFacts
<1>5. job[t].at \in Ending /\ rest = <<>> => Writing(t, "mongo")
  BY <1>1, <1>2, <1>3, WritesLeft DEF Writing
<1>6. registered' \subseteq registered
  BY <1>3 DEF Proceed
<1>7. Moves(t)
  BY <1>2, <1>4, <1>5 DEF Moves
<1> QED
  BY <1>1, <1>2, <1>4, <1>6, <1>7

\* A request that starts or gives up the tasks it has made.
LEMMA StartFacts ==
  ASSUME JobsOK, NEW S \in SUBSET Tasks, NEW at \in {"launched", "orphan"},
         \A t \in S : job[t].at = "none",
         job' = [u \in Tasks |-> IF u \in S THEN [job[u] EXCEPT !.at = at] ELSE job[u]]
  PROVE  /\ JobsOK' /\ \A t \in S : job'[t].at = at /\ job'[t].todo = <<>> /\ job[t].todo = <<>>
         /\ \A t \in Tasks \ S : job'[t] = job[t]
<1>1. ASSUME NEW t \in Tasks
      PROVE  /\ JobOK(job[t])'
             /\ t \in S => job'[t].at = at /\ job'[t].todo = <<>> /\ job[t].todo = <<>>
             /\ t \notin S => job'[t] = job[t]
  <2>1. job[t] \in Job /\ job[t].todo \in Todos(job[t].at)
    BY DEF JobsOK, JobOK
  <2>2. CASE t \in S
    <3> DEFINE n == [job[t] EXCEPT !.at = at]
    <3>1. job[t].todo = <<>> /\ Todos(at) = {<<>>} /\ at \in Steps
      BY <2>1, <2>2 DEF Todos, Steps
    <3>2. n \in Job /\ n.at = at /\ n.todo = job[t].todo
      BY <2>1, <3>1 DEF Job
    <3>3. job'[t] = n
      BY <2>2
    <3> HIDE DEF n
    <3> QED
      BY <2>2, <3>1, <3>2, <3>3 DEF JobOK
  <2>3. CASE t \notin S
    <3>1. job'[t] = job[t]
      BY <2>3
    <3> QED
      BY <2>3, <3>1 DEF JobsOK, JobOK
  <2> QED
    BY <2>2, <2>3
<1>2. job' \in [Tasks -> Job]
  <2>1. DOMAIN job' = Tasks /\ job' = [u \in Tasks |-> job'[u]]
    BY Zenon
  <2>2. \A t \in Tasks : job'[t] \in Job
    BY <1>1 DEF JobOK
  <2> QED
    BY <2>1, <2>2
<1>3. \A t \in Tasks : JobOK(job[t])'
  BY <1>1
<1>4. \A t \in S : job'[t].todo = <<>> /\ job[t].todo = <<>>
  BY <1>1
<1> QED
  BY <1>1, <1>2, <1>3, <1>4 DEF JobsOK

\* After a restart no task is in an update, and the tasks of the requests that were
\* under way are dead.
LEMMA RestartFacts ==
  ASSUME TypeInv, Restart
  PROVE  /\ JobsOK'
         /\ \A t \in Tasks :
              /\ job'[t].at \in {"none", "orphan", "ended", "dead"}
              /\ job'[t].at # "dead" => job'[t].at = job[t].at
              /\ job[t].at # "none" => job'[t].at # "none"
              /\ \A r \in Requests : t \in req[r].made => job'[t].at = "dead"
              /\ ~Writing(t, "tracker")' /\ ~Writing(t, "store")' /\ ~Writing(t, "mongo")'
<1> DEFINE Dies(t) == Active(t) \/ \E r \in Requests : t \in req[r].made \cup {req[r].task}
<1>1. job' = [t \in Tasks |-> IF Dies(t) THEN [job[t] EXCEPT !.at = "dead", !.todo = <<>>] ELSE job[t]]
  BY DEF Restart
<1>2. ASSUME NEW t \in Tasks
      PROVE  /\ JobOK(job[t])' /\ job'[t].todo = <<>>
             /\ IF Dies(t) THEN job'[t].at = "dead" ELSE job'[t].at = job[t].at /\ job[t].at \in Idle
  <2>1. job[t] \in Job /\ job[t].at \in Steps /\ job[t].todo \in Todos(job[t].at)
    BY DEF TypeInv, JobsOK, JobOK, Job
  <2>2. CASE Dies(t)
    <3> DEFINE n == [job[t] EXCEPT !.at = "dead", !.todo = <<>>]
    <3>1. "dead" \in Steps /\ Todos("dead") = {<<>>} /\ <<>> \in AllTodos
      BY DEF Todos, Steps, AllTodos
    <3>2. n \in Job /\ n.at = "dead" /\ n.todo = <<>>
      BY <2>1, <3>1 DEF Job
    <3>3. job'[t] = n
      BY <1>1, <2>2
    <3> HIDE DEF n
    <3> QED
      BY <2>2, <3>1, <3>2, <3>3 DEF JobOK
  <2>3. CASE ~Dies(t)
    <3>1. job'[t] = job[t] /\ job[t].at \in Idle
      BY <1>1, <2>3 DEF Active
    <3>2. job[t].todo = <<>>
      BY <2>1, <3>1 DEF Idle, Todos
    <3> QED
      BY <2>1, <2>3, <3>1, <3>2 DEF JobOK
  <2> HIDE DEF Dies
  <2> QED
    BY <2>2, <2>3
<1>3. job' \in [Tasks -> Job]
  <2>1. \A t \in Tasks : job'[t] \in Job
    BY <1>2 DEF JobOK
  <2> HIDE DEF Dies
  <2> QED
    BY <1>1, <2>1
<1>4. JobsOK'
  BY <1>2, <1>3 DEF JobsOK
<1>5. ASSUME NEW t \in Tasks
      PROVE  /\ job'[t].at \in {"none", "orphan", "ended", "dead"}
             /\ job'[t].at # "dead" => job'[t].at = job[t].at
             /\ job[t].at # "none" => job'[t].at # "none"
             /\ \A r \in Requests : t \in req[r].made => job'[t].at = "dead"
             /\ ~Writing(t, "tracker")' /\ ~Writing(t, "store")' /\ ~Writing(t, "mongo")'
  BY <1>2 DEF Idle, Writing
<1> QED
  BY <1>4, <1>5

\* An update reports running or an end.
LEMMA EndStatuses == \A at : EndStatus(at) \in {"running"} \cup Terminal
BY DEF EndStatus, Terminal

\* update_task_status makes an entry of an entry, and nothing of nothing.
LEMMA MemoryUpdatedType ==
  ASSUME TypeInv, NEW t \in Tasks, NEW status \in {"running"} \cup Terminal, NEW pct \in Progress,
         NEW ended \in BOOLEAN
  PROVE  /\ MemoryUpdated(t, status, pct, ended) \in Entry \cup {NoEntry}
         /\ mem[t] = NoEntry => MemoryUpdated(t, status, pct, ended) = NoEntry
         /\ mem[t] # NoEntry => /\ MemoryUpdated(t, status, pct, ended) # NoEntry
                                /\ MemoryUpdated(t, status, pct, ended).status = status
                                /\ MemoryUpdated(t, status, pct, ended).progress = pct
<1>1. CASE mem[t] = NoEntry
  BY <1>1 DEF MemoryUpdated
<1>2. CASE mem[t] # NoEntry
  <2>1. mem[t] \in Entry
    BY <1>2 DEF TypeInv
  <2>2. mem[t].ended \in BOOLEAN
    BY <2>1 DEF Entry
  <2> DEFINE e == [status |-> status, progress |-> pct, ended |-> ended \/ mem[t].ended]
  <2>3. MemoryUpdated(t, status, pct, ended) = e
    BY <1>2 DEF MemoryUpdated
  <2>4. e \in Entry
    BY <2>2 DEF Entry
  <2>5. e # NoEntry
    BY <2>4, NoEntryIsNew
  <2> QED
    BY <1>2, <2>3, <2>4, <2>5
<1> QED
  BY <1>1, <1>2

\* What an update writes to memory.
LEMMA UpdateMemoryFacts ==
  ASSUME TypeInv, NEW t \in Tasks, UpdateMemory(t)
  PROVE  /\ mem' \in [Tasks -> Entry \cup {NoEntry}]
         /\ \A u \in Tasks \ {t} : mem'[u] = mem[u]
         /\ mem[t] = NoEntry => mem'[t] = NoEntry
         /\ mem'[t] # NoEntry => mem[t] # NoEntry /\ mem'[t].status = EndStatus(job[t].at)
               /\ mem'[t].progress = job[t].pct
<1> DEFINE s == EndStatus(job[t].at)
           p == job[t].pct
           b == job[t].at \in {"done", "failed"}
           e == MemoryUpdated(t, s, p, b)
<1>1. p \in Progress /\ b \in BOOLEAN /\ s \in {"running"} \cup Terminal
  BY EndStatuses DEF TypeInv, JobsOK, JobOK, Job
<1>2. /\ e \in Entry \cup {NoEntry}
      /\ mem[t] = NoEntry => e = NoEntry
      /\ mem[t] # NoEntry => e # NoEntry /\ e.status = s /\ e.progress = p
  <2> HIDE DEF s, p, b
  <2> QED
    BY <1>1, MemoryUpdatedType
<1>3. mem' = [mem EXCEPT ![t] = e]
  BY DEF UpdateMemory
<1> HIDE DEF e
<1> QED
  BY <1>2, <1>3 DEF TypeInv

\* What an update writes to MongoDB, unless the write fails.
LEMMA UpdateMongoFacts ==
  ASSUME TypeInv, NEW t \in Tasks, UpdateMongo(t)
  PROVE  /\ doc' \in [Tasks -> Document \cup {NoEntry}]
         /\ \A u \in Tasks \ {t} : doc'[u] = doc[u]
         /\ doc'[t] = NoEntry <=> doc[t] = NoEntry
         /\ \/ /\ UNCHANGED <<faults, lost>>
               /\ doc[t] # NoEntry =>
                    /\ doc'[t].progress = job[t].pct
                    /\ job[t].at \in Ending => doc'[t].status = EndStatus(job[t].at)
                    /\ job[t].at \notin Ending => doc'[t].status \in {"processing", doc[t].status}
            \/ Fault /\ lost' = lost \cup {t} /\ doc' = doc
<1> DEFINE at == job[t].at
           status == CASE at \in {"start", "prepare"} -> "processing"
                       [] at \in {"done", "failed", "invalid"} -> EndStatus(at)
                       [] OTHER -> doc[t].status
           d == [status |-> status, progress |-> job[t].pct]
           e == IF doc[t] = NoEntry THEN NoEntry ELSE d
<1>1. job[t].pct \in Progress /\ doc[t] \in Document \cup {NoEntry}
  BY DEF TypeInv, JobsOK, JobOK, Job
<1>2. CASE Fault /\ lost' = lost \cup {t} /\ UNCHANGED doc
  BY <1>1, <1>2 DEF TypeInv
<1>3. CASE doc' = [doc EXCEPT ![t] = e] /\ UNCHANGED <<faults, lost>>
  <2>1. ASSUME doc[t] # NoEntry
        PROVE  /\ d \in Document /\ d.progress = job[t].pct
               /\ at \in Ending => d.status = EndStatus(at)
               /\ at \notin Ending => d.status \in {"processing", doc[t].status}
    <3>1. doc[t].status \in {"pending", "processing"} \cup Terminal
      BY <1>1, <2>1 DEF Document
    <3>2. /\ status \in {"pending", "processing"} \cup Terminal
          /\ at \in Ending => status = EndStatus(at)
          /\ at \notin Ending => status \in {"processing", doc[t].status}
      BY <3>1 DEF Ending, EndStatus, Terminal
    <3> HIDE DEF status
    <3> QED
      BY <1>1, <3>2 DEF Document
  <2>2. doc[t] # NoEntry => d # NoEntry
    BY <2>1, NoEntryIsNew
  <2>3. e \in Document \cup {NoEntry} /\ (e = NoEntry <=> doc[t] = NoEntry) /\ (doc[t] # NoEntry => e = d)
    BY <2>1, <2>2
  <2> HIDE DEF d, e
  <2>4. /\ doc' \in [Tasks -> Document \cup {NoEntry}] /\ doc'[t] = e
        /\ \A u \in Tasks \ {t} : doc'[u] = doc[u]
    BY <1>3, <2>3 DEF TypeInv
  <2> QED
    BY <1>3, <2>1, <2>3, <2>4
<1> QED
  BY <1>2, <1>3 DEF UpdateMongo

\* One fault more is still within the bound.
LEMMA FaultCounts ==
  ASSUME faults \in 0..MaxFaults, Fault PROVE faults' \in 0..MaxFaults
BY BoundsAreNat DEF Fault

\* A task's own step writes no copy, or the tracker, or one of the other copies.
LEMMA JobStepKinds ==
  ASSUME NEW t \in Tasks, JobStep(t) PROVE Advances(t) \/ UpdateTracker(t) \/ CopySteps(t)
BY DEF JobStep, Advances, CopySteps

\* The records the code creates are records.
LEMMA FreshRecords ==
  /\ [status |-> "running", pct |-> 0] \in ProgressData
  /\ [status |-> "pending", progress |-> 0] \in Document
  /\ NewEntry \in Entry
  /\ [status |-> "failed", progress |-> 0, ended |-> TRUE] \in Entry
BY DEF ProgressData, Document, Entry, NewEntry, Progress, Terminal

\* The coroutine and the pool thread keep the types.
LEMMA JobStepTypes ==
  ASSUME TaskInv, NEW t \in Tasks, JobStep(t)
  PROVE  TypeInv'
<1> USE DEF TaskInv
<1>1. CASE Advances(t)
  <2>1. JobsOK' /\ UNCHANGED <<mem, doc, report, side, req, told, admin, ops, faults>>
    BY <1>1, AdvanceFacts DEF TypeInv, history
  <2>2. /\ tracker' \in [Tasks -> Snapshot] /\ stored' \in [Tasks -> Snapshot]
        /\ registered' \subseteq Tasks
    <3>1. CASE CreateTracker(t)
      <4>1. PICK s \in ProgressData : s = [status |-> "running", pct |-> 0]
        BY FreshRecords
      <4>2. tracker' = [tracker EXCEPT ![t] = s]
        BY <3>1, <4>1 DEF CreateTracker
      <4>3. tracker' \in [Tasks -> Snapshot] /\ tracker'[t] \in Snapshot
        BY <4>2 DEF TypeInv, Snapshot
      <4>4. /\ stored' = [stored EXCEPT ![t] = tracker'[t]]
            /\ registered' = registered \cup {t}
        BY <3>1 DEF CreateTracker
      <4> QED
        BY <4>3, <4>4 DEF TypeInv
    <3>2. CASE ~CreateTracker(t)
      <4>1. UNCHANGED copies
        BY <1>1, <3>2 DEF Advances, Validate, EnterPool, NodeCallback, GraphReturns, ExtractResult,
           AnalysisFails
      <4> QED
        BY <4>1 DEF copies, TypeInv
    <3> QED
      BY <3>1, <3>2
  <2> QED
    BY <2>1, <2>2 DEF TypeInv
<1>2. CASE UpdateTracker(t)
  <2>1. tracker[t] # NoEntry
    BY <1>2 DEF UpdateTracker, TrackerOK
  <2>2. JobsOK' /\ tracker' \in [Tasks -> Snapshot]
    BY <1>2, <2>1, UpdateTrackerFacts
  <2>3. UNCHANGED <<mem, doc, report, stored, registered, side, req, told, admin, ops, faults>>
    BY <1>2 DEF UpdateTracker
  <2> QED
    BY <2>2, <2>3 DEF TypeInv
<1>3. CASE CopySteps(t)
  <2>1. /\ JobsOK' /\ registered' \subseteq Tasks
        /\ UNCHANGED <<tracker, side, req, told, admin, ops>>
    BY <1>3, CopyStepFacts DEF TypeInv
  <2>2. CASE StoreProgress(t)
    <3>1. job[t].snap \in Snapshot
      BY DEF TypeInv, JobsOK, JobOK, Job
    <3>2. stored' \in [Tasks -> Snapshot] /\ UNCHANGED <<mem, doc, report, faults>>
      BY <2>2, <3>1 DEF TypeInv, StoreProgress
    <3> QED
      BY <2>1, <3>2 DEF TypeInv
  <2>3. CASE UpdateMemory(t)
    <3>1. mem' \in [Tasks -> Entry \cup {NoEntry}]
      BY <2>3, UpdateMemoryFacts
    <3>2. UNCHANGED <<doc, report, stored, faults>>
      BY <2>3 DEF UpdateMemory
    <3> QED
      BY <2>1, <3>1, <3>2 DEF TypeInv
  <2>4. CASE UpdateMongo(t)
    <3>1. doc' \in [Tasks -> Document \cup {NoEntry}] /\ (UNCHANGED faults \/ Fault)
      BY <2>4, UpdateMongoFacts
    <3>2. UNCHANGED <<mem, report, stored>>
      BY <2>4 DEF UpdateMongo
    <3> QED
      BY <2>1, <3>1, <3>2, FaultCounts DEF TypeInv
  <2>5. CASE SaveReport(t)
    <3>1. report' \subseteq Tasks /\ (UNCHANGED faults \/ Fault)
      BY <2>5 DEF SaveReport, TypeInv
    <3>2. UNCHANGED <<mem, doc, stored>>
      BY <2>5 DEF SaveReport
    <3> QED
      BY <2>1, <3>1, <3>2, FaultCounts DEF TypeInv
  <2> QED
    BY <1>3, <2>2, <2>3, <2>4, <2>5 DEF CopySteps
<1> QED
  BY <1>1, <1>2, <1>3, JobStepKinds

\* The submitting requests keep the types.
LEMMA RequestTypes ==
  ASSUME TaskInv, NEW r \in Requests,
         RequestStep(r) \/ RejectSymbol(r) \/ \E S \in SUBSET Tasks : Submit(r, S)
  PROVE  TypeInv'
<1> USE DEF TaskInv
<1>0. req[r] \in Req /\ req[r].todo \subseteq Tasks /\ req[r].made \subseteq Tasks
  BY DEF TypeInv, Req
<1>1. ASSUME NEW S \in SUBSET Tasks, Submit(r, S) PROVE TypeInv'
  <2>1. PICK q \in Req : q = [todo |-> S, made |-> {}, task |-> NoEntry]
    BY DEF Req
  <2>2. req' = [req EXCEPT ![r] = q] /\ UNCHANGED <<copies, job, side, told, admin, ops, faults>>
    BY <1>1, <2>1 DEF Submit
  <2>3. req' \in [Requests -> Req]
    BY <2>2 DEF TypeInv
  <2> QED
    BY <2>2, <2>3 DEF TypeInv, copies, JobsOK, JobOK
<1>2. CASE CreateInMemory(r)
  <2>1. PICK t \in req[r].todo : mem' = [mem EXCEPT ![t] = NewEntry] /\ req' = [req EXCEPT ![r].task = t]
    BY <1>2 DEF CreateInMemory
  <2>2. NewEntry \in Entry
    BY DEF NewEntry, Entry, Progress
  <2>3. mem' \in [Tasks -> Entry \cup {NoEntry}]
    BY <1>0, <2>1, <2>2 DEF TypeInv
  <2>4. req' \in [Requests -> Req]
    <3>1. t \in Tasks
      BY <1>0, <2>1
    <3> DEFINE q == [req[r] EXCEPT !.task = t]
    <3>2. q \in Req
      BY <1>0, <3>1 DEF Req
    <3>3. req' = [req EXCEPT ![r] = q]
      BY <2>1
    <3> HIDE DEF q
    <3> QED
      BY <3>2, <3>3 DEF TypeInv
  <2>5. UNCHANGED <<doc, report, tracker, stored, registered, job, side, told, admin, ops, faults>>
    BY <1>2 DEF CreateInMemory
  <2> QED
    BY <2>3, <2>4, <2>5 DEF TypeInv, JobsOK, JobOK
<1>3. CASE InsertDocument(r)
  <2> DEFINE t == req[r].task
             made == req[r].made \cup {t}
             last == req[r].todo = {t}
  <2>1. t \in Tasks /\ t \in req[r].todo
    BY <1>0, <1>3 DEF InsertDocument, RequestsOK
  <2>2. PICK d \in Document : d = [status |-> "pending", progress |-> 0]
    BY FreshRecords
  <2>3. /\ doc' = [doc EXCEPT ![t] = IF @ = NoEntry THEN d ELSE @] \/ UNCHANGED doc
        /\ UNCHANGED faults \/ Fault
    BY <1>3, <2>2 DEF InsertDocument
  <2>4. doc' \in [Tasks -> Document \cup {NoEntry}] /\ faults' \in 0..MaxFaults
    BY <2>1, <2>3, FaultCounts DEF TypeInv
  <2>5. PICK q \in Req : req' = [req EXCEPT ![r] = q]
    <3> DEFINE q == [todo |-> req[r].todo \ {t}, made |-> IF last THEN {} ELSE made, task |-> NoEntry]
    <3>1. q \in Req
      BY <1>0, <2>1 DEF Req
    <3>2. req' = [req EXCEPT ![r] = q]
      BY <1>3 DEF InsertDocument
    <3> QED
      BY <3>1, <3>2
  <2>6. JobsOK' /\ told' \subseteq Tasks
    <3>1. CASE last
      <4>1. Launch(made)
        BY <1>3, <3>1 DEF InsertDocument
      <4>2. made \in SUBSET Tasks /\ \A u \in made : job[u].at = "none"
        BY <1>0, <2>1 DEF RequestsOK, Owns
      <4>3. JobsOK'
        BY <4>1, <4>2, StartFacts DEF Launch, TypeInv
      <4> QED
        BY <4>1, <4>2, <4>3 DEF Launch, TypeInv
    <3>2. CASE ~last
      <4>1. UNCHANGED <<told, job>>
        BY <1>3, <3>2 DEF InsertDocument
      <4> QED
        BY <4>1 DEF TypeInv, JobsOK, JobOK
    <3> QED
      BY <3>1, <3>2
  <2>7. UNCHANGED <<mem, report, tracker, stored, registered, side, admin, ops>>
    BY <1>3 DEF InsertDocument
  <2>8. req' \in [Requests -> Req]
    BY <2>5 DEF TypeInv
  <2> QED
    BY <2>4, <2>6, <2>7, <2>8 DEF TypeInv
<1>4. CASE RejectSymbol(r)
  <2>1. \A u \in req[r].made : job[u].at = "none"
    BY DEF RequestsOK, Owns
  <2>2. JobsOK'
    BY <1>0, <1>4, <2>1, StartFacts DEF RejectSymbol, TypeInv
  <2>3. PICK q \in Req : q = [todo |-> {}, made |-> {}, task |-> NoEntry]
    BY DEF Req
  <2>4. req' = [req EXCEPT ![r] = q] /\ UNCHANGED <<copies, side, told, admin, ops, faults>>
    BY <1>4, <2>3 DEF RejectSymbol
  <2>5. req' \in [Requests -> Req]
    BY <2>4 DEF TypeInv
  <2> QED
    BY <2>2, <2>4, <2>5 DEF TypeInv, copies
<1> QED
  BY <1>1, <1>2, <1>3, <1>4 DEF RequestStep

\* The simulator and the log handler change only what they keep of a task and what
\* Redis holds of it.
LEMMA SideFrame ==
  ASSUME TypeInv, NEW t \in Tasks, SideStep(t)
  PROVE  /\ UNCHANGED <<mem, doc, report, tracker, registered, job, req, told, admin, ops,
                        faults, history>>
         /\ \A u \in Tasks \ {t} : side'[u] = side[u] /\ stored'[u] = stored[u]
BY DEF SideStep, FindTracker, SideUpdate, Snapped, SideStore, copies, history, TypeInv

\* What is kept of one task by one of them.
LEMMA SideEntry ==
  ASSUME TypeInv, NEW t \in Tasks, NEW s \in Savers, NEW e \in Side,
         side' = [side EXCEPT ![t][s] = e]
  PROVE  /\ side' \in [Tasks -> [Savers -> Side]] /\ side'[t][s] = e
         /\ \A q \in Savers \ {s} : side'[t][q] = side[t][q]
BY DEF TypeInv

\* The log handler finds a tracker; a snapshot is taken; a snapshot is saved.
LEMMA SideCases ==
  ASSUME TypeInv, NEW t \in Tasks, SideStep(t)
  PROVE  \/ /\ UNCHANGED stored
            /\ \E s \in Savers, e \in Side :
                 side' = [side EXCEPT ![t][s] = e] /\ e.pc = "found" /\ e.snap = side[t][s].snap
                 /\ side[t][s].pc = "idle"
         \/ /\ UNCHANGED stored
            /\ \E s \in Savers, e \in Side :
                 side' = [side EXCEPT ![t][s] = e] /\ e.pc = "saving"
         \/ \E s \in Savers, e \in Side :
              /\ side' = [side EXCEPT ![t][s] = e] /\ e.snap = side[t][s].snap
              /\ stored' = [stored EXCEPT ![t] = e.snap]
<1>0. \A s \in Savers : side[t][s] \in Side
  BY DEF TypeInv
<1>1. CASE FindTracker(t)
  <2>1. PICK e : e = [side[t]["log"] EXCEPT !.pc = "found"]
    OBVIOUS
  <2>2. "log" \in Savers
    BY DEF Savers
  <2>3. e \in Side /\ e.pc = "found" /\ e.snap = side[t]["log"].snap
    BY <1>0, <2>1, <2>2 DEF Side
  <2>4. side' = [side EXCEPT ![t]["log"] = e]
    BY <1>1, <2>1 DEF FindTracker, TypeInv
  <2>5. UNCHANGED stored /\ side[t]["log"].pc = "idle"
    BY <1>1 DEF FindTracker, copies
  <2> QED
    BY <2>2, <2>3, <2>4, <2>5
<1>2. ASSUME NEW s \in Savers, SideUpdate(t, s)
      PROVE  /\ UNCHANGED stored
             /\ \E e \in Side : side' = [side EXCEPT ![t][s] = e] /\ e.pc = "saving"
  <2>1. PICK e : e = [left |-> side[t][s].left - 1, pc |-> "saving", snap |-> tracker'[t]]
    OBVIOUS
  <2>2. UNCHANGED <<stored, tracker>>
    BY <1>2 DEF SideUpdate, copies
  <2>3. e \in Side /\ e.pc = "saving"
    <3>1. tracker'[t] \in Snapshot /\ side[t][s].left \in Int
      BY <1>0, <2>2 DEF TypeInv, Side
    <3> QED
      BY <2>1, <3>1 DEF Side
  <2>4. side' = [side EXCEPT ![t][s] = e]
    BY <1>2, <2>1 DEF SideUpdate, Snapped
  <2> QED
    BY <2>2, <2>3, <2>4
<1>3. ASSUME NEW s \in Savers, SideStore(t, s)
      PROVE  \E e \in Side :
               /\ side' = [side EXCEPT ![t][s] = e] /\ e.snap = side[t][s].snap
               /\ stored' = [stored EXCEPT ![t] = e.snap]
  <2>1. PICK e : e = [side[t][s] EXCEPT !.pc = "idle"]
    OBVIOUS
  <2>2. e \in Side /\ e.snap = side[t][s].snap
    BY <1>0, <2>1 DEF Side
  <2>3. side' = [side EXCEPT ![t][s] = e] /\ stored' = [stored EXCEPT ![t] = e.snap]
    BY <1>3, <2>1, <2>2 DEF SideStore
  <2> QED
    BY <2>2, <2>3
<1> QED
  BY <1>1, <1>2, <1>3 DEF SideStep

\* The simulator and the log handler keep the types.
LEMMA SideTypes ==
  ASSUME TaskInv, NEW t \in Tasks, SideStep(t)
  PROVE  TypeInv'
<1> USE DEF TaskInv
<1>1. side' \in [Tasks -> [Savers -> Side]]
  BY SideCases, SideEntry
<1>2. stored' \in [Tasks -> Snapshot]
  <2>1. \A e \in Side : e.snap \in Snapshot
    BY DEF Side
  <2> QED
    BY <2>1, SideCases DEF TypeInv
<1> QED
  BY <1>1, <1>2, SideFrame DEF TypeInv, JobsOK, JobOK

\* What an administrator's step does to the two copies it writes.
LEMMA AdminCopies ==
  ASSUME TypeInv, NEW a \in Admins, AdminStep(a)
  PROVE  /\ mem' \in [Tasks -> Entry \cup {NoEntry}] /\ doc' \in [Tasks -> Document \cup {NoEntry}]
         /\ \A t \in Tasks : (mem[t] = NoEntry => mem'[t] = NoEntry) /\ (doc[t] = NoEntry
               => doc'[t] = NoEntry)
         /\ UNCHANGED <<report, tracker, stored, registered, job, side, req, told, faults, lost>>
<1>1. ASSUME NEW t \in Tasks, MarkFailedInMemory(a, t)
      PROVE  mem' \in [Tasks -> Entry \cup {NoEntry}] /\ \A u \in Tasks : mem[u] = NoEntry
                => mem'[u] = NoEntry
  <2> DEFINE e == MemoryUpdated(t, "failed", mem[t].progress, TRUE)
  <2>1. mem' = [mem EXCEPT ![t] = IF mem[t] = NoEntry THEN NoEntry ELSE e]
    BY <1>1 DEF MarkFailedInMemory
  <2>2. mem[t] # NoEntry => e \in Entry \cup {NoEntry}
    <3>1. SUFFICES ASSUME mem[t] # NoEntry PROVE e \in Entry \cup {NoEntry}
      OBVIOUS
    <3>2. mem[t].progress \in Progress
      BY <3>1 DEF TypeInv, Entry
    <3>3. "failed" \in {"running"} \cup Terminal /\ TRUE \in BOOLEAN
      BY DEF Terminal
    <3> QED
      BY <3>2, <3>3, MemoryUpdatedType
  <2> HIDE DEF e
  <2> QED
    BY <2>1, <2>2 DEF TypeInv
<1>2. CASE MarkFailedInMongo(a)
  <2> DEFINE t == admin[a].task
             d == [doc[t] EXCEPT !.status = "failed"]
  <2>1. t \in Tasks
    BY <1>2 DEF MarkFailedInMongo, TypeInv
  <2>2. doc' = [doc EXCEPT ![t] = IF doc[t] = NoEntry THEN NoEntry ELSE d]
    BY <1>2 DEF MarkFailedInMongo
  <2>3. doc[t] # NoEntry => d \in Document
    BY <2>1 DEF TypeInv, Document, Terminal
  <2> HIDE DEF d, t
  <2>4. doc' \in [Tasks -> Document \cup {NoEntry}] /\ \A u \in Tasks : doc[u] = NoEntry
           => doc'[u] = NoEntry
    BY <2>1, <2>2, <2>3 DEF TypeInv
  <2> QED
    BY <1>2, <2>4 DEF MarkFailedInMongo, TypeInv
<1>3. ASSUME NEW S \in SUBSET Tasks, CleanMemory(a, S)
      PROVE  mem' \in [Tasks -> Entry \cup {NoEntry}] /\ \A u \in Tasks : mem[u] = NoEntry
                => mem'[u] = NoEntry
  <2>1. PICK e \in Entry : e = [status |-> "failed", progress |-> 0, ended |-> TRUE]
    BY FreshRecords
  <2>2. /\ mem' = [t \in Tasks |-> IF t \in S THEN e ELSE mem[t]]
        /\ \A t \in S : mem[t] # NoEntry
    BY <1>3, <2>1 DEF CleanMemory
  <2> QED
    BY <2>2 DEF TypeInv
<1>4. ASSUME NEW S \in SUBSET Tasks, CleanMongo(a, S)
      PROVE  doc' \in [Tasks -> Document \cup {NoEntry}] /\ \A u \in Tasks : doc[u] = NoEntry
                => doc'[u] = NoEntry
  <2>1. /\ doc' = [t \in Tasks |-> IF t \in S THEN [doc[t] EXCEPT !.status = "failed"] ELSE doc[t]]
        /\ \A t \in S : doc[t] # NoEntry
    BY <1>4 DEF CleanMongo
  <2>2. \A t \in S : [doc[t] EXCEPT !.status = "failed"] \in Document
    BY <2>1 DEF TypeInv, Document, Terminal
  <2> QED
    BY <2>1, <2>2 DEF TypeInv
<1>5. CASE \E t \in Tasks : MarkFailedInMemory(a, t)
  BY <1>1, <1>5 DEF MarkFailedInMemory, TypeInv
<1>6. CASE \E t \in Tasks : DeleteInMemory(a, t)
  BY <1>6 DEF DeleteInMemory, TypeInv
<1>7. CASE DeleteInMongo(a)
  BY <1>7 DEF DeleteInMongo, TypeInv
<1>8. CASE \E S \in SUBSET Tasks : CleanMemory(a, S)
  BY <1>3, <1>8 DEF CleanMemory, TypeInv
<1>9. CASE \E S \in SUBSET Tasks : CleanMongo(a, S)
  BY <1>4, <1>9 DEF CleanMongo, TypeInv
<1> QED
  BY <1>2, <1>5, <1>6, <1>7, <1>8, <1>9 DEF AdminStep

\* The administrators keep the types.
LEMMA AdminTypes ==
  ASSUME TypeInv, NEW a \in Admins, AdminStep(a)
  PROVE  TypeInv'
<1>1. /\ mem' \in [Tasks -> Entry \cup {NoEntry}] /\ doc' \in [Tasks -> Document \cup {NoEntry}]
      /\ UNCHANGED <<report, tracker, stored, registered, job, side, req, told, faults, lost>>
  BY AdminCopies
<1>2. PICK o \in {"idle", "mark", "delete", "clean"}, t \in Tasks \cup {NoEntry} :
        admin' = [admin EXCEPT ![a] = [op |-> o, task |-> t]] /\ (o \in {"mark", "delete"} => t \in Tasks)
  BY Zenon DEF AdminStep, MarkFailedInMemory, MarkFailedInMongo, DeleteInMemory, DeleteInMongo,
     CleanMemory, CleanMongo
<1>3. PICK c \in AdminOp : c = [op |-> o, task |-> t]
  BY DEF AdminOp
<1>4. admin' \in [Admins -> AdminOp] /\ \A b \in Admins : admin'[b].op \in {"mark", "delete"}
         => admin'[b].task \in Tasks
  BY <1>2, <1>3 DEF TypeInv
<1>5. ops' \in 0..MaxAdmin
  <2>1. ops' = ops \/ (ops < MaxAdmin /\ ops' = ops + 1)
    BY DEF AdminStep, MarkFailedInMemory, MarkFailedInMongo, DeleteInMemory, DeleteInMongo, CleanMemory,
       CleanMongo, StartOp
  <2> QED
    BY <2>1, BoundsAreNat DEF TypeInv
<1> QED
  BY <1>1, <1>4, <1>5 DEF TypeInv, JobsOK, JobOK

\* A restart keeps the types.
LEMMA RestartTypes ==
  ASSUME TypeInv, Restart
  PROVE  TypeInv'
<1>1. JobsOK'
  BY RestartFacts
<1>2. /\ mem' \in [Tasks -> Entry \cup {NoEntry}] /\ tracker' \in [Tasks -> Snapshot]
            /\ registered' \subseteq Tasks
      /\ UNCHANGED <<doc, report, stored, told, ops>> /\ Fault
  BY DEF Restart, Snapshot
<1>3. side' \in [Tasks -> [Savers -> Side]]
  <2>1. ASSUME NEW t \in Tasks, NEW s \in Savers
        PROVE  [side[t][s] EXCEPT !.pc = "idle"] \in Side
    <3>1. side[t][s] \in Side
      BY DEF TypeInv
    <3> QED
      BY <3>1 DEF Side
  <2> QED
    BY <2>1 DEF Restart
<1>4. req' \in [Requests -> Req]
  BY DEF Restart, Req
<1>5. admin' \in [Admins -> AdminOp] /\ \A a \in Admins : admin'[a].op = "idle"
  BY DEF Restart, AdminOp
<1> QED
  BY <1>1, <1>2, <1>3, <1>4, <1>5, FaultCounts DEF TypeInv

\* Every step keeps the types.
LEMMA TypesStep ==
  ASSUME TaskInv, [Next]_vars
  PROVE  TypeInv'
<1>1. CASE UNCHANGED vars
  BY <1>1 DEF TaskInv, TypeInv, vars, copies, JobsOK, JobOK
<1>2. CASE Next
  BY <1>2, RequestTypes, JobStepTypes, SideTypes, AdminTypes, RestartTypes DEF Next, TaskInv
<1> QED
  BY <1>1, <1>2

-----------------------------------------------------------------------------
\* RequestsOK depends on the requests, on where the tasks are, and on what is
\* known to have been inserted.
LEMMA RequestsFrame ==
  ASSUME RequestsOK, TypeInv, req' = req, told' = told, lost \subseteq lost',
         \A t \in Tasks : /\ job[t].at = "none" <=> job'[t].at = "none"
                          /\ doc[t] # NoEntry /\ job[t].at = "none" => t \in lost' \/ doc'[t] # NoEntry
  PROVE  RequestsOK'
<1>1. \A r \in Requests : req[r].todo \subseteq Tasks /\ req[r].made \subseteq Tasks
  BY DEF TypeInv, Req
<1>2. told \subseteq Tasks
  BY DEF TypeInv
<1>3. ASSUME NEW r \in Requests
      PROVE  /\ req'[r].task # NoEntry => req'[r].task \in req'[r].todo
             /\ \A t \in Owns(r)' : job'[t].at = "none"
             /\ \A t \in req'[r].made : t \in lost' \/ doc'[t] # NoEntry
             /\ \A q \in Requests : q # r => Owns(q)' \cap Owns(r)' = {}
  BY <1>1 DEF RequestsOK, Owns
<1> QED
  BY <1>2, <1>3 DEF RequestsOK

\* Every step keeps what holds of the requests: the tasks they own have not started,
\* and those they have made are in MongoDB unless the insert is known to have failed.
LEMMA RequestsStep ==
  ASSUME TaskInv, [Next]_vars
  PROVE  RequestsOK'
<1> USE DEF TaskInv
<1>1. CASE UNCHANGED vars
  BY <1>1, RequestsFrame DEF vars, copies, history
<1>2. ASSUME NEW r \in Requests, NEW S \in SUBSET Tasks, Submit(r, S) PROVE RequestsOK'
  <2>1. req \in [Requests -> Req] /\ req' = [req EXCEPT ![r] = [todo |-> S, made |-> {}, task |-> NoEntry]]
    BY <1>2 DEF Submit, TypeInv
  <2>2. UNCHANGED <<job, told, doc, lost>>
    BY <1>2 DEF Submit, copies, history
  <2>3. \A t \in S : job[t].at = "none" /\ \A q \in Requests : t \notin req[q].todo \cup req[q].made
    BY <1>2 DEF Submit
  <2>4. Owns(r)' = S /\ \A q \in Requests \ {r} : Owns(q)' = Owns(q) /\ req'[q] = req[q]
    BY <2>1 DEF Owns
  <2>5. req'[r].made = {} /\ req'[r].task = NoEntry
    BY <2>1
  <2> QED
    BY <2>2, <2>3, <2>4, <2>5 DEF RequestsOK, Owns
<1>3. ASSUME NEW r \in Requests, CreateInMemory(r) PROVE RequestsOK'
  <2>1. PICK t \in req[r].todo : req' = [req EXCEPT ![r].task = t]
    BY <1>3 DEF CreateInMemory
  <2>2. UNCHANGED <<job, told, doc, lost>> /\ req \in [Requests -> Req]
    BY <1>3 DEF CreateInMemory, history, TypeInv
  <2>3. \A q \in Requests : /\ req'[q].todo = req[q].todo /\ req'[q].made = req[q].made
                            /\ req'[q].task = IF q = r THEN t ELSE req[q].task
    BY <2>1, <2>2 DEF Req
  <2> QED
    BY <2>1, <2>2, <2>3 DEF RequestsOK, Owns
<1>4. ASSUME NEW r \in Requests, InsertDocument(r) PROVE RequestsOK'
  <2> DEFINE t == req[r].task
             made == req[r].made \cup {t}
             last == req[r].todo = {t}
  <2>0. req[r] \in Req /\ req[r].todo \subseteq Tasks /\ req[r].made \subseteq Tasks
    BY DEF TypeInv, Req
  <2>1. t \in Tasks /\ t \in req[r].todo
    BY <2>0, <1>4 DEF InsertDocument, RequestsOK
  <2>2. /\ req' = [req EXCEPT ![r] = [todo |-> req[r].todo \ {t}, made |-> IF last THEN {} ELSE made, task |-> NoEntry]]
        /\ req \in [Requests -> Req]
    BY <1>4 DEF InsertDocument, TypeInv
  <2>3. /\ lost \subseteq lost' /\ \A u \in Tasks \ {t} : doc'[u] = doc[u]
        /\ t \in lost' \/ doc'[t] # NoEntry
    <3>1. PICK d \in Document : d = [status |-> "pending", progress |-> 0]
      BY FreshRecords
    <3>2. d # NoEntry
      BY NoEntryIsNew
    <3>3. \/ doc' = [doc EXCEPT ![t] = IF @ = NoEntry THEN d ELSE @] /\ lost' = lost
          \/ lost' = lost \cup {t} /\ UNCHANGED doc
      BY <1>4, <3>1 DEF InsertDocument
    <3> QED
      BY <2>1, <3>2, <3>3 DEF TypeInv
  <2>4. /\ req'[r].todo = req[r].todo \ {t} /\ req'[r].made = (IF last THEN {} ELSE made)
        /\ req'[r].task = NoEntry
        /\ \A q \in Requests \ {r} : req'[q] = req[q]
    BY <2>2
  <2>5. made \in SUBSET Tasks /\ \A u \in made : job[u].at = "none"
    BY <2>0, <2>1 DEF RequestsOK, Owns
  <2>6. /\ \A u \in Tasks : job'[u].at = IF last /\ u \in made THEN "launched" ELSE job[u].at
        /\ told' = IF last THEN told \cup made ELSE told
    <3>1. CASE last
      <4>1. Launch(made)
        BY <1>4, <3>1 DEF InsertDocument
      <4>2. /\ job' = [u \in Tasks |-> IF u \in made THEN [job[u] EXCEPT !.at = "launched"] ELSE job[u]]
            /\ told' = told \cup made
        BY <4>1 DEF Launch
      <4>3. /\ \A u \in made : job'[u].at = "launched"
            /\ \A u \in Tasks \ made : job'[u] = job[u]
        BY <2>5, <4>2, StartFacts DEF TypeInv
      <4> QED
        BY <3>1, <4>2, <4>3
    <3>2. CASE ~last
      BY <1>4, <3>2 DEF InsertDocument
    <3> QED
      BY <3>1, <3>2
  <2>7. \A q \in Requests \ {r} : Owns(q) \cap made = {} /\ Owns(q) \subseteq Tasks
    BY <2>1 DEF RequestsOK, Owns, TypeInv, Req
  <2>8. Owns(r)' \subseteq Owns(r) /\ (last => Owns(r)' = {})
           /\ \A q \in Requests \ {r} : Owns(q)' = Owns(q)
    BY <2>1, <2>4 DEF Owns
  <2> HIDE DEF made, last, t
  <2>9. ASSUME NEW q \in Requests
        PROVE  /\ req'[q].task # NoEntry => req'[q].task \in req'[q].todo
               /\ \A u \in Owns(q)' : job'[u].at = "none"
               /\ \A u \in req'[q].made : u \in lost' \/ doc'[u] # NoEntry
               /\ \A p \in Requests : p # q => Owns(p)' \cap Owns(q)' = {}
    <3>1. req'[q].task # NoEntry => req'[q].task \in req'[q].todo
      BY <2>4 DEF RequestsOK
    <3>2. \A u \in Owns(q)' : job'[u].at = "none"
      <4>1. CASE q = r
        BY <2>0, <2>6, <2>8, <4>1 DEF RequestsOK, Owns
      <4>2. CASE q # r
        BY <2>6, <2>7, <2>8, <4>2 DEF RequestsOK
      <4> QED
        BY <4>1, <4>2
    <3>3. \A u \in req'[q].made : u \in lost' \/ doc'[u] # NoEntry
      <4>1. CASE q = r
        BY <2>0, <2>1, <2>3, <2>4, <4>1 DEF RequestsOK, made
      <4>2. CASE q # r
        BY <2>3, <2>4, <2>7, <4>2 DEF RequestsOK, Owns
      <4> QED
        BY <4>1, <4>2
    <3>4. \A p \in Requests : p # q => Owns(p)' \cap Owns(q)' = {}
      BY <2>8 DEF RequestsOK
    <3> QED
      BY <3>1, <3>2, <3>3, <3>4
  <2>10. \A u \in told' : job'[u].at # "none"
    BY <2>5, <2>6 DEF RequestsOK, TypeInv
  <2> QED
    BY <2>9, <2>10 DEF RequestsOK
<1>5. ASSUME NEW r \in Requests, RejectSymbol(r) PROVE RequestsOK'
  <2>0. req[r].made \in SUBSET Tasks /\ \A u \in req[r].made : job[u].at = "none"
    BY DEF RequestsOK, Owns, TypeInv, Req
  <2>1. /\ \A u \in req[r].made : job'[u].at = "orphan"
        /\ \A u \in Tasks \ req[r].made : job'[u] = job[u]
    BY <1>5, <2>0, StartFacts DEF RejectSymbol, TypeInv
  <2>2. /\ req' = [req EXCEPT ![r] = [todo |-> {}, made |-> {}, task |-> NoEntry]]
        /\ req \in [Requests -> Req] /\ UNCHANGED <<doc, told, lost>>
    BY <1>5 DEF RejectSymbol, TypeInv, copies, history
  <2>3. /\ req'[r].todo = {} /\ req'[r].made = {} /\ req'[r].task = NoEntry
        /\ \A q \in Requests \ {r} : req'[q] = req[q]
    BY <2>2
  <2>4. Owns(r)' = {} /\ \A q \in Requests \ {r} : Owns(q)' = Owns(q) /\ Owns(q) \cap req[r].made = {}
           /\ Owns(q) \subseteq Tasks
    BY <2>3 DEF Owns, RequestsOK, TypeInv, Req
  <2>5. ASSUME NEW q \in Requests
        PROVE  /\ req'[q].task # NoEntry => req'[q].task \in req'[q].todo
               /\ \A u \in Owns(q)' : job'[u].at = "none"
               /\ \A u \in req'[q].made : u \in lost' \/ doc'[u] # NoEntry
               /\ \A p \in Requests : p # q => Owns(p)' \cap Owns(q)' = {}
    BY <2>1, <2>2, <2>3, <2>4 DEF RequestsOK
  <2>6. \A u \in told' : job'[u].at # "none"
    BY <2>1, <2>2, "orphan" # "none" DEF RequestsOK, TypeInv
  <2> QED
    BY <2>5, <2>6 DEF RequestsOK
<1>6. ASSUME NEW t \in Tasks, JobStep(t) PROVE RequestsOK'
  <2>1. /\ req' = req /\ told' = told /\ lost \subseteq lost'
        /\ job[t].at # "none" /\ job'[t].at # "none" /\ \A u \in Tasks \ {t} : job'[u] = job[u]
        /\ \A u \in Tasks : doc[u] # NoEntry => doc'[u] # NoEntry
    <3>1. CASE Advances(t)
      BY <3>1, AdvanceFacts DEF TypeInv, history
    <3>2. CASE UpdateTracker(t)
      <4>1. tracker[t] # NoEntry /\ job[t].todo # <<>> /\ UNCHANGED <<req, told, doc, history>>
        BY <3>2 DEF UpdateTracker, TrackerOK, Writing
      <4>2. job[t].at \in Updates
        BY <4>1, WritingFacts DEF TypeInv
      <4> QED
        BY <3>2, <4>1, <4>2, UpdateTrackerFacts, UpdateNames DEF history
    <3>3. CASE CopySteps(t)
      <4>1. /\ job[t].at \in Updates /\ UNCHANGED <<req, told>> /\ Moves(t)
            /\ \A u \in Tasks \ {t} : job'[u] = job[u]
        BY <3>3, CopyStepFacts DEF TypeInv
      <4>2. job[t].at # "none" /\ job'[t].at # "none"
        BY <4>1, UpdateNames DEF Moves
      <4>3. lost \subseteq lost' /\ \A u \in Tasks : doc[u] # NoEntry => doc'[u] # NoEntry
        <5>1. CASE UpdateMongo(t)
          BY <5>1, UpdateMongoFacts
        <5>2. CASE ~UpdateMongo(t)
          BY <3>3, <5>2 DEF CopySteps, StoreProgress, UpdateMemory, SaveReport, history
        <5> QED
          BY <5>1, <5>2
      <4> QED
        BY <4>1, <4>2, <4>3
    <3> QED
      BY <1>6, <3>1, <3>2, <3>3, JobStepKinds
  <2> QED
    BY <2>1, RequestsFrame
<1>7. ASSUME NEW t \in Tasks, SideStep(t) PROVE RequestsOK'
  BY <1>7, RequestsFrame, SideFrame DEF history
<1>8. ASSUME NEW a \in Admins, AdminStep(a) PROVE RequestsOK'
  <2>1. UNCHANGED <<job, req, told, lost>>
    BY <1>8, AdminCopies
  <2>2. \A t \in Tasks : doc[t] # NoEntry /\ job[t].at = "none" => doc'[t] # NoEntry
    <3> SUFFICES ASSUME NEW t \in Tasks, doc[t] # NoEntry, job[t].at = "none"
                 PROVE  doc'[t] # NoEntry
      OBVIOUS
    <3>1. CASE DeleteInMongo(a)
      <4>1. doc' = [doc EXCEPT ![admin[a].task] = NoEntry] /\ admin[a].task \in told
        BY <3>1 DEF DeleteInMongo, AdminsTold
      <4>2. t # admin[a].task
        BY <4>1 DEF RequestsOK
      <4> QED
        BY <4>1, <4>2 DEF TypeInv
    <3>2. CASE MarkFailedInMongo(a)
      <4>1. doc' = [doc EXCEPT ![admin[a].task] = IF @ = NoEntry THEN NoEntry ELSE [@ EXCEPT !.status = "failed"]]
        BY <3>2 DEF MarkFailedInMongo
      <4>2. doc[t] \in Document
        BY DEF TypeInv
      <4>3. [doc[t] EXCEPT !.status = "failed"] \in Document
        BY <4>2 DEF Document, Terminal
      <4> QED
        BY <4>1, <4>3, NoEntryIsNew DEF TypeInv
    <3>3. ASSUME NEW S \in SUBSET Tasks, CleanMongo(a, S) PROVE doc'[t] # NoEntry
      <4>1. doc[t] \in Document
        BY DEF TypeInv
      <4>2. [doc[t] EXCEPT !.status = "failed"] \in Document
        BY <4>1 DEF Document, Terminal
      <4> QED
        BY <3>3, <4>2, NoEntryIsNew DEF CleanMongo
    <3>4. CASE doc' = doc
      BY <3>4
    <3> QED
      BY <1>8, <3>1, <3>2, <3>3, <3>4
      DEF AdminStep, MarkFailedInMemory, DeleteInMemory, CleanMemory
  <2> QED
    BY <2>1, <2>2, RequestsFrame
<1>9. CASE Restart
  <2>1. \A r \in Requests : req'[r].todo = {} /\ req'[r].made = {} /\ req'[r].task = NoEntry
    BY <1>9 DEF Restart
  <2>2. UNCHANGED told /\ \A t \in Tasks : job[t].at # "none" => job'[t].at # "none"
    BY <1>9, RestartFacts DEF Restart
  <2> QED
    BY <2>1, <2>2 DEF RequestsOK, Owns, TypeInv
<1> QED
  BY <1>1, <1>2, <1>3, <1>4, <1>5, <1>6, <1>7, <1>8, <1>9 DEF Next, RequestStep

\* Administrators name tasks whose ids a client has been told.
LEMMA AdminsToldStep ==
  ASSUME TaskInv, [Next]_vars
  PROVE  AdminsTold'
<1> USE DEF TaskInv
<1>1. CASE admin' = admin /\ told \subseteq told'
  BY <1>1 DEF AdminsTold
<1>2. CASE UNCHANGED vars
  BY <1>1, <1>2 DEF vars
<1>3. ASSUME NEW r \in Requests, RequestStep(r) \/ RejectSymbol(r) \/ \E S \in SUBSET Tasks : Submit(r, S)
      PROVE  admin' = admin /\ told \subseteq told'
  BY <1>3 DEF RequestStep, CreateInMemory, InsertDocument, RejectSymbol, Submit, Launch
<1>4. ASSUME NEW t \in Tasks, JobStep(t) PROVE admin' = admin /\ told \subseteq told'
  BY <1>4, AdvanceFacts, CopyStepFacts, JobStepKinds DEF UpdateTracker, TypeInv
<1>5. ASSUME NEW t \in Tasks, SideStep(t) PROVE admin' = admin /\ told \subseteq told'
  BY <1>5, SideFrame
<1>6. ASSUME NEW a \in Admins, AdminStep(a) PROVE AdminsTold'
  <2>1. PICK o \in {"idle", "mark", "delete", "clean"}, t \in Tasks \cup {NoEntry} :
          admin' = [admin EXCEPT ![a] = [op |-> o, task |-> t]] /\ (o \in {"mark", "delete"} => t \in told)
    BY <1>6, Zenon DEF AdminStep, MarkFailedInMemory, MarkFailedInMongo, DeleteInMemory, DeleteInMongo,
       CleanMemory, CleanMongo
  <2>2. UNCHANGED told
    BY <1>6, AdminCopies
  <2> QED
    BY <2>1, <2>2 DEF AdminsTold, TypeInv
<1>7. CASE Restart
  BY <1>7 DEF Restart, AdminsTold
<1> QED
  BY <1>1, <1>2, <1>3, <1>4, <1>5, <1>6, <1>7 DEF Next

\* TrackerOK of a task none of whose parts a step changes.
LEMMA TrackerFrame ==
  ASSUME NEW t \in Tasks, TrackerOK(t), job'[t] = job[t], tracker'[t] = tracker[t],
         stored'[t] = stored[t], side'[t] = side[t]
  PROVE  TrackerOK(t)'
BY DEF TrackerOK, Over, Writing

\* A step that writes no copy keeps TrackerOK: it starts the tracker, or the tracker is
\* still running.
LEMMA AdvanceTracker ==
  ASSUME TaskInv, NEW t \in Tasks, Advances(t)
  PROVE  TrackerOK(t)'
<1> USE DEF TaskInv
<1>0. UNCHANGED side /\ ~Writing(t, "store") /\ ~Writing(t, "store")'
  BY AdvanceFacts DEF TypeInv
<1>1. CASE job[t].at = "launched" /\ Validate(t) /\ job'[t].at \in {"newTracker", "invalid", "failed"}
              /\ ~Writing(t, "tracker")'
  <2>1. UNCHANGED <<tracker, stored>>
    BY <1>1 DEF Validate, copies
  <2>2. ~(tracker[t] # NoEntry /\ tracker[t].status \in Terminal)
    BY <1>1 DEF TrackerOK, Over
  <2>3. job'[t].at \notin Tracked
    BY <1>1 DEF Tracked
  <2> QED
    BY <1>0, <1>1, <2>1, <2>2, <2>3 DEF TrackerOK
<1>2. CASE job[t].at = "newTracker" /\ CreateTracker(t) /\ job'[t].at = "start"
  <2>1. PICK s \in ProgressData : s = [status |-> "running", pct |-> 0]
    BY FreshRecords
  <2>2. tracker' = [tracker EXCEPT ![t] = s] /\ stored' = [stored EXCEPT ![t] = tracker'[t]]
    BY <1>2, <2>1 DEF CreateTracker
  <2>3. tracker'[t] = s /\ stored'[t] = s /\ s # NoEntry /\ s.status \notin Terminal
    BY <2>1, <2>2, NoEntryIsNew DEF TypeInv, Terminal
  <2> QED
    BY <1>0, <2>3 DEF TrackerOK
<1>3. CASE /\ job[t].at \in {"pool", "engine", "agents", "graph", "extract"}
           /\ job'[t].at \in {"configure", "node", "message", "result", "done", "failed"}
           /\ UNCHANGED copies
  <2>1. UNCHANGED <<tracker, stored>>
    BY <1>3 DEF copies
  <2>2. tracker[t] # NoEntry /\ tracker[t].status \notin Terminal
    BY <1>3 DEF TrackerOK, Over, Tracked
  <2> QED
    BY <1>0, <2>1, <2>2 DEF TrackerOK
<1> QED
  BY <1>1, <1>2, <1>3, AdvanceFacts DEF TypeInv

\* Every step keeps TrackerOK of every task.
LEMMA TrackersStep ==
  ASSUME TaskInv, [Next]_vars
  PROVE  \A t \in Tasks : TrackerOK(t)'
<1> USE DEF TaskInv
<1>1. CASE UNCHANGED <<job, tracker, stored, side>>
  BY <1>1, TrackerFrame
<1>2. CASE UNCHANGED vars
  BY <1>1, <1>2 DEF vars, copies
<1>3. ASSUME NEW S \in SUBSET Tasks, NEW at \in {"launched", "orphan"},
             \A t \in S : job[t].at = "none",
             \A t \in S : job'[t].at = at /\ job'[t].todo = <<>> /\ job[t].todo = <<>>,
             \A t \in Tasks \ S : job'[t] = job[t],
             UNCHANGED <<tracker, stored, side>>
      PROVE  \A t \in Tasks : TrackerOK(t)'
  <2>2. ASSUME NEW t \in S PROVE TrackerOK(t)'
    <3>1. ~(tracker[t] # NoEntry /\ tracker[t].status \in Terminal)
      BY <1>3, <2>2 DEF TrackerOK, Over
    <3> QED
      BY <1>3, <3>1 DEF TrackerOK, Tracked, Writing
  <2> QED
    BY <1>3, <2>2, TrackerFrame
<1>4. ASSUME NEW r \in Requests, RequestStep(r) \/ RejectSymbol(r) \/ \E S \in SUBSET Tasks : Submit(r, S)
      PROVE  \A t \in Tasks : TrackerOK(t)'
  <2>0. req[r].made \in SUBSET Tasks /\ \A u \in req[r].made : job[u].at = "none"
    BY DEF RequestsOK, Owns, TypeInv, Req
  <2>1. CASE InsertDocument(r)
    <3>1. UNCHANGED <<tracker, stored, side>>
      BY <2>1 DEF InsertDocument
    <3>2. CASE req[r].todo = {req[r].task}
      <4> DEFINE made == req[r].made \cup {req[r].task}
      <4>1. Launch(made) /\ req[r].task # NoEntry
        BY <2>1, <3>2 DEF InsertDocument
      <4>2. made \in SUBSET Tasks /\ \A u \in made : job[u].at = "none"
        BY <2>0, <4>1 DEF RequestsOK, Owns, TypeInv, Req
      <4>3. job' = [u \in Tasks |-> IF u \in made THEN [job[u] EXCEPT !.at = "launched"] ELSE job[u]]
        BY <4>1 DEF Launch
      <4>4. /\ \A t \in made : job'[t].at = "launched" /\ job'[t].todo = <<>> /\ job[t].todo = <<>>
            /\ \A t \in Tasks \ made : job'[t] = job[t]
        BY <4>2, <4>3, StartFacts DEF TypeInv
      <4> QED
        BY <1>3, <3>1, <4>2, <4>4
    <3>3. CASE req[r].todo # {req[r].task}
      BY <1>1, <2>1, <3>1, <3>3 DEF InsertDocument
    <3> QED
      BY <3>2, <3>3
  <2>2. CASE RejectSymbol(r)
    <3>1. job' = [u \in Tasks |-> IF u \in req[r].made THEN [job[u] EXCEPT !.at = "orphan"] ELSE job[u]]
      BY <2>2 DEF RejectSymbol
    <3>2. UNCHANGED <<tracker, stored, side>>
      BY <2>2 DEF RejectSymbol, copies
    <3>3. /\ \A t \in req[r].made : job'[t].at = "orphan" /\ job'[t].todo = <<>> /\ job[t].todo = <<>>
          /\ \A t \in Tasks \ req[r].made : job'[t] = job[t]
      BY <2>0, <3>1, StartFacts DEF TypeInv
    <3> QED
      BY <1>3, <2>0, <3>2, <3>3
  <2>3. CASE CreateInMemory(r) \/ \E S \in SUBSET Tasks : Submit(r, S)
    BY <1>1, <2>3 DEF CreateInMemory, Submit, copies
  <2> QED
    BY <1>4, <2>1, <2>2, <2>3 DEF RequestStep
<1>5. ASSUME NEW t \in Tasks, JobStep(t) PROVE \A u \in Tasks : TrackerOK(u)'
  <2>1. CASE Advances(t)
    <3>1. /\ \A u \in Tasks \ {t} : job'[u] = job[u] /\ tracker'[u] = tracker[u] /\ stored'[u] = stored[u]
          /\ UNCHANGED side
      BY <2>1, AdvanceFacts DEF CreateTracker, TypeInv, copies, Validate
    <3> QED
      BY <2>1, <3>1, AdvanceTracker, TrackerFrame
  <2>2. CASE UpdateTracker(t)
    <3>1. tracker[t] # NoEntry /\ Writing(t, "tracker") /\ UNCHANGED <<stored, side>>
      BY <2>2 DEF UpdateTracker, TrackerOK
    <3>2. /\ \A u \in Tasks \ {t} : job'[u] = job[u] /\ tracker'[u] = tracker[u]
          /\ job'[t].at = job[t].at /\ job'[t].snap = tracker'[t]
          /\ Writing(t, "store")' /\ tracker'[t] # NoEntry
          /\ job[t].at \notin {"done", "failed"} => tracker'[t].status = tracker[t].status
      BY <2>2, <3>1, UpdateTrackerFacts
    <3>3. ~Writing(t, "tracker")'
      BY <3>2 DEF Writing
    <3>4. TrackerOK(t)'
      BY <3>1, <3>2, <3>3 DEF TrackerOK, Over
    <3> QED
      BY <3>1, <3>2, <3>4, TrackerFrame
  <2>3. CASE CopySteps(t)
    <3>1. /\ \A u \in Tasks \ {t} : job'[u] = job[u]
          /\ ~Writing(t, "store")' /\ Moves(t) /\ job[t].at \in Updates
          /\ ~Writing(t, "tracker")
          /\ UNCHANGED <<tracker, side>>
      BY <2>3, CopyStepFacts DEF TypeInv, Writing
    <3>2. \A u \in Tasks \ {t} : stored'[u] = stored[u]
      BY <2>3 DEF CopySteps, StoreProgress, UpdateMemory, UpdateMongo, SaveReport, TypeInv
    <3>3. /\ Writing(t, "store") => stored'[t] = job[t].snap
          /\ ~Writing(t, "store") => stored'[t] = stored[t]
      BY <2>3 DEF CopySteps, StoreProgress, UpdateMemory, UpdateMongo, SaveReport, TypeInv, Writing
    <3>4. job'[t].at \in Tracked \/ Writing(t, "tracker")' => tracker[t] # NoEntry
      BY <3>1, UpdateNames DEF Moves, TrackerOK, Tracked, Ending
    <3>5. tracker[t] # NoEntry /\ tracker[t].status \in Terminal => Over(t)'
      <4> SUFFICES ASSUME tracker[t] # NoEntry, tracker[t].status \in Terminal PROVE Over(t)'
        OBVIOUS
      <4>1. job[t].at \in {"done", "failed", "ended", "dead"}
        BY DEF TrackerOK, Over
      <4>2. job[t].at \in {"done", "failed"}
        BY <3>1, <4>1, UpdateNames
      <4>3. (job'[t].at = job[t].at /\ ~Writing(t, "tracker")') \/ job'[t].at = "ended"
        BY <3>1, <4>2 DEF Moves, Ending
      <4> QED
        BY <4>2, <4>3 DEF Over
    <3>6. TrackerOK(t)'
      BY <3>1, <3>3, <3>4, <3>5 DEF TrackerOK
    <3> QED
      BY <3>1, <3>2, <3>6, TrackerFrame
  <2> QED
    BY <1>5, <2>1, <2>2, <2>3, JobStepKinds
<1>6. ASSUME NEW t \in Tasks, SideStep(t) PROVE \A u \in Tasks : TrackerOK(u)'
  <2>1. /\ UNCHANGED <<job, tracker>>
        /\ \A u \in Tasks \ {t} : side'[u] = side[u] /\ stored'[u] = stored[u]
    BY <1>6, SideFrame
  <2>2. Writing(t, "store")' <=> Writing(t, "store")
    BY <2>1 DEF Writing
  <2>3. TrackerOK(t)'
    <3>1. SUFFICES ASSUME tracker[t] # NoEntry, ~Writing(t, "store")
                   PROVE  \/ \E s \in Savers : side'[t][s].pc = "saving"
                          \/ stored'[t] = tracker[t]
                          \/ \E s \in Savers : stored'[t] = side'[t][s].snap
      BY <2>1, <2>2 DEF TrackerOK, Over, Writing
    <3>2. \/ \E s \in Savers : side[t][s].pc = "saving"
          \/ stored[t] = tracker[t]
          \/ \E s \in Savers : stored[t] = side[t][s].snap
      BY <3>1 DEF TrackerOK
    <3>3. CASE /\ UNCHANGED stored
               /\ \E s \in Savers, e \in Side :
                    side' = [side EXCEPT ![t][s] = e] /\ e.pc = "found" /\ e.snap = side[t][s].snap
                    /\ side[t][s].pc = "idle"
      <4>1. PICK s \in Savers, e \in Side :
              side' = [side EXCEPT ![t][s] = e] /\ e.pc = "found" /\ e.snap = side[t][s].snap
              /\ side[t][s].pc = "idle"
        BY <3>3
      <4>2. /\ \A q \in Savers : side'[t][q].snap = side[t][q].snap
            /\ \A q \in Savers : side[t][q].pc = "saving" => side'[t][q].pc = "saving"
        BY <4>1, SideEntry
      <4> QED
        BY <3>2, <3>3, <4>2
    <3>4. CASE /\ UNCHANGED stored
               /\ \E s \in Savers, e \in Side :
                    side' = [side EXCEPT ![t][s] = e] /\ e.pc = "saving"
      <4>1. PICK s \in Savers, e \in Side : side' = [side EXCEPT ![t][s] = e] /\ e.pc = "saving"
        BY <3>4
      <4>2. side'[t][s] = e
        BY <4>1, SideEntry
      <4> QED
        BY <4>1, <4>2
    <3>5. CASE \E s \in Savers, e \in Side :
                 /\ side' = [side EXCEPT ![t][s] = e] /\ e.snap = side[t][s].snap
                 /\ stored' = [stored EXCEPT ![t] = e.snap]
      <4>1. PICK s \in Savers, e \in Side :
                 /\ side' = [side EXCEPT ![t][s] = e]
                 /\ stored' = [stored EXCEPT ![t] = e.snap]
        BY <3>5
      <4>2. side'[t][s] = e /\ stored'[t] = e.snap
        BY <4>1, SideEntry DEF TypeInv
      <4> QED
        BY <4>2
    <3> QED
      BY <1>6, <3>3, <3>4, <3>5, SideCases
  <2> QED
    BY <2>1, <2>3, TrackerFrame
<1>8. ASSUME NEW a \in Admins, AdminStep(a) PROVE \A u \in Tasks : TrackerOK(u)'
  BY <1>1, <1>8, AdminCopies
<1>9. CASE Restart
  <2>1. \A t \in Tasks : tracker'[t] = NoEntry
    BY <1>9 DEF Restart
  <2>2. \A t \in Tasks : job'[t].at \in {"none", "orphan", "ended", "dead"} /\ ~Writing(t, "tracker")'
           /\ ~Writing(t, "store")'
    BY <1>9, RestartFacts
  <2> QED
    BY <2>1, <2>2 DEF TrackerOK, Tracked
<1> QED
  BY <1>2, <1>4, <1>5, <1>6, <1>8, <1>9 DEF Next

\* The initial states satisfy the invariant.
LEMMA TaskInit == Init => TaskInv
<1> SUFFICES ASSUME Init PROVE TaskInv
  OBVIOUS
<1>1. TypeInv
  <2>0. "none" \in Steps /\ <<>> \in AllTodos /\ 0 \in Progress /\ NoEntry \in Snapshot
    BY DEF Steps, AllTodos, Progress, Snapshot
  <2> DEFINE none == [at |-> "none", todo |-> <<>>, pct |-> 0, snap |-> NoEntry, nodes |-> {}]
  <2>a. none \in Job
    BY <2>0 DEF Job
  <2>1. PICK j \in Job : j = none
    BY <2>a
  <2>2. JobOK(j)
    BY <2>1 DEF JobOK, Todos
  <2>3. JobsOK
    BY <2>1, <2>2 DEF Init, JobsOK
  <2>4. [left |-> SideUpdates, pc |-> "idle", snap |-> NoEntry] \in Side
    BY BoundsAreNat DEF Side, Snapshot
  <2>5. [todo |-> {}, made |-> {}, task |-> NoEntry] \in Req
    BY DEF Req
  <2>6. [op |-> "idle", task |-> NoEntry] \in AdminOp
    BY DEF AdminOp
  <2>7. 0 \in 0..MaxAdmin /\ 0 \in 0..MaxFaults
    BY BoundsAreNat
  <2>8. \A a \in Admins : admin[a].op = "idle"
    BY DEF Init
  <2> QED
    BY <2>3, <2>4, <2>5, <2>6, <2>7, <2>8 DEF Init, TypeInv, Snapshot
<1>2. RequestsOK /\ AdminsTold
  BY DEF Init, RequestsOK, AdminsTold, Owns
<1>3. \A t \in Tasks : TrackerOK(t)
  BY DEF Init, TrackerOK, Tracked, Writing
<1> QED
  BY <1>1, <1>2, <1>3 DEF TaskInv

\* Types, owned tasks and trackers together are inductive: an invariant of every behaviour
\* of execute_analysis_background and what runs beside it.
THEOREM TaskInductive == Spec => []TaskInv
<1>1. TaskInv /\ [Next]_vars => TaskInv'
  BY TypesStep, RequestsStep, AdminsToldStep, TrackersStep DEF TaskInv
<1> QED
  BY TaskInit, <1>1, PTL DEF Spec

\* Every variable keeps its type, and a task has writes left exactly while it is in an update.
THEOREM TaskTypes == Spec => []TypeOK
<1>1. TaskInv => TypeOK
  <2> SUFFICES ASSUME TaskInv PROVE TypeOK
    OBVIOUS
  <2>1. ASSUME NEW t \in Tasks
        PROVE  /\ job[t].at \in Updates \cup InThread \cup Idle \cup {"launched", "newTracker", "pool"}
               /\ job[t].todo # <<>> <=> job[t].at \in Updates
               /\ job[t].snap \in Snapshot
               /\ \A s \in Savers : side[t][s].snap \in Snapshot
    <3>1. job[t] \in Job /\ job[t].at \in Steps /\ job[t].todo \in Todos(job[t].at)
          /\ \A s \in Savers : side[t][s] \in Side
      BY DEF TaskInv, TypeInv, JobsOK, JobOK, Job
    <3>2. job[t].at \in Updates \cup InThread \cup Idle \cup {"launched", "newTracker", "pool"}
      BY <3>1, UpdateNames DEF Steps, InThread, Idle
    <3>3. job[t].at \notin Updates => job[t].todo = <<>>
      BY <3>1, IdleHasNoWrites
    <3>4. job[t].at \in Updates => job[t].todo # <<>>
      BY <3>1, UpdatesHaveWrites
    <3> QED
      BY <3>1, <3>2, <3>3, <3>4 DEF Job, Side
  <2> QED
    BY <2>1 DEF TaskInv, TypeInv, TypeOK
<1> QED
  BY TaskInductive, <1>1, PTL

\* After a task's end Redis holds the tracker's last state, unless the simulator or the
\* log handler saved the last snapshot it had taken earlier: the saves of tracker.py
\* are ordered by no lock.
THEOREM LateSavesOnly == Spec => []StoredIsLastOrLate
<1>1. TaskInv => StoredIsLastOrLate
  <2> SUFFICES ASSUME TaskInv, NEW t \in Tasks, job[t].at = "ended", tracker[t] # NoEntry,
                      \A s \in Savers : side[t][s].pc # "saving"
               PROVE  stored[t] \in {tracker[t]} \cup {side[t][s].snap : s \in Savers}
    BY DEF StoredIsLastOrLate
  <2>1. ~Writing(t, "store")
    BY WritingFacts, UpdateNames DEF TaskInv, TypeInv, Writing
  <2> QED
    BY <2>1 DEF TaskInv, TrackerOK
<1> QED
  BY TaskInductive, <1>1, PTL

\* mark_completed and mark_failed are final for the tracker.
THEOREM EndingIsFinal == Spec => EndedTrackerStays
<1>1. ASSUME TaskInv, [Next]_vars, NEW t \in Tasks, tracker[t] # NoEntry, tracker[t].status \in Terminal
      PROVE  tracker'[t] \in {tracker[t], NoEntry}
  <2>1. Over(t)
    BY <1>1 DEF TaskInv, TrackerOK
  <2>2. ASSUME NEW u \in Tasks, JobStep(u) PROVE tracker'[t] = tracker[t]
    <3>1. CASE CreateTracker(u)
      <4>1. u # t
        BY <2>1, <3>1 DEF CreateTracker, Over
      <4>2. \E s : tracker' = [tracker EXCEPT ![u] = s]
        BY <3>1 DEF CreateTracker
      <4> QED
        BY <4>1, <4>2 DEF TaskInv, TypeInv
    <3>2. CASE UpdateTracker(u)
      <4>1. Writing(u, "tracker")
        BY <3>2 DEF UpdateTracker
      <4>2. job[u].at \in Updates
        BY <1>1, <4>1, WritingFacts DEF Writing, TaskInv, TypeInv
      <4>3. u # t
        BY <2>1, <4>1, <4>2, UpdateNames DEF Over
      <4>4. \E s : tracker' = [tracker EXCEPT ![u] = s]
        BY <3>2 DEF UpdateTracker
      <4> QED
        BY <4>3, <4>4 DEF TaskInv, TypeInv
    <3>3. CASE CopySteps(u)
      BY <1>1, <3>3, CopyStepFacts DEF TaskInv, TypeInv
    <3>4. CASE Advances(u) /\ ~CreateTracker(u)
      BY <3>4 DEF Advances, Validate, EnterPool, NodeCallback, GraphReturns, ExtractResult, AnalysisFails,
         copies
    <3> QED
      BY <2>2, <3>1, <3>2, <3>3, <3>4, JobStepKinds
  <2>3. ASSUME NEW r \in Requests, RequestStep(r) \/ RejectSymbol(r) \/ \E S \in SUBSET Tasks : Submit(r, S)
        PROVE  tracker' = tracker
    BY <2>3 DEF RequestStep, CreateInMemory, InsertDocument, RejectSymbol, Submit, copies
  <2>4. ASSUME NEW u \in Tasks, SideStep(u) PROVE tracker' = tracker
    BY <1>1, <2>4, SideFrame DEF TaskInv
  <2>5. ASSUME NEW a \in Admins, AdminStep(a) PROVE tracker' = tracker
    BY <1>1, <2>5, AdminCopies DEF TaskInv
  <2>6. CASE Restart
    BY <2>6 DEF Restart
  <2>7. CASE UNCHANGED vars
    BY <2>7 DEF vars, copies
  <2> QED
    BY <1>1, <2>2, <2>3, <2>4, <2>5, <2>6, <2>7 DEF Next
<1>2. TaskInv /\ [Next]_vars =>
        [\A t \in Tasks : tracker[t] # NoEntry /\ tracker[t].status \in Terminal
           => tracker'[t] \in {tracker[t], NoEntry}]_vars
  BY <1>1
<1> QED
  BY TaskInductive, <1>2, PTL DEF Spec, EndedTrackerStays

\* A record that was deleted or lost is not created again by the analysis that goes on:
\* update_task_status and update_one without upsert.
THEOREM NothingComesBack == Spec => DeletedStaysDeleted
<1>1. ASSUME TaskInv, [Next]_vars, NEW t \in Tasks, job[t].at # "none"
      PROVE  (mem[t] = NoEntry => mem'[t] = NoEntry) /\ (doc[t] = NoEntry => doc'[t] = NoEntry)
  <2>1. ASSUME NEW u \in Tasks, JobStep(u)
        PROVE  (mem[t] = NoEntry => mem'[t] = NoEntry) /\ (doc[t] = NoEntry => doc'[t] = NoEntry)
    <3>1. CASE Advances(u)
      BY <1>1, <3>1, AdvanceFacts DEF TaskInv, TypeInv
    <3>2. CASE UpdateTracker(u)
      BY <3>2 DEF UpdateTracker
    <3>3. CASE UpdateMemory(u)
      BY <1>1, <3>3, UpdateMemoryFacts DEF UpdateMemory, TaskInv
    <3>4. CASE UpdateMongo(u)
      BY <1>1, <3>4, UpdateMongoFacts DEF UpdateMongo, TaskInv
    <3>5. CASE StoreProgress(u) \/ SaveReport(u)
      BY <3>5 DEF StoreProgress, SaveReport
    <3> QED
      BY <2>1, <3>1, <3>2, <3>3, <3>4, <3>5, JobStepKinds DEF CopySteps
  <2>2. ASSUME NEW r \in Requests, RequestStep(r) \/ RejectSymbol(r) \/ \E S \in SUBSET Tasks : Submit(r, S)
        PROVE  (mem[t] = NoEntry => mem'[t] = NoEntry) /\ (doc[t] = NoEntry => doc'[t] = NoEntry)
    <3>1. t \notin req[r].todo /\ (req[r].task # NoEntry => req[r].task \in req[r].todo)
      BY <1>1 DEF TaskInv, RequestsOK, Owns
    <3>2. CASE CreateInMemory(r)
      BY <3>1, <3>2 DEF CreateInMemory
    <3>3. CASE InsertDocument(r)
      <4>1. PICK d \in Document : d = [status |-> "pending", progress |-> 0]
        BY FreshRecords
      <4>2. UNCHANGED mem /\ req[r].task \in req[r].todo
        BY <3>1, <3>3 DEF InsertDocument
      <4>3. doc' = [doc EXCEPT ![req[r].task] = IF @ = NoEntry THEN d ELSE @] \/ UNCHANGED doc
        BY <3>3, <4>1 DEF InsertDocument
      <4> QED
        BY <1>1, <3>1, <4>2, <4>3 DEF TaskInv, TypeInv
    <3>4. CASE RejectSymbol(r) \/ \E S \in SUBSET Tasks : Submit(r, S)
      BY <3>4 DEF RejectSymbol, Submit, copies
    <3> QED
      BY <2>2, <3>2, <3>3, <3>4 DEF RequestStep
  <2>3. ASSUME NEW u \in Tasks, SideStep(u) PROVE UNCHANGED <<mem, doc>>
    BY <1>1, <2>3, SideFrame DEF TaskInv
  <2>4. ASSUME NEW a \in Admins, AdminStep(a)
        PROVE  (mem[t] = NoEntry => mem'[t] = NoEntry) /\ (doc[t] = NoEntry => doc'[t] = NoEntry)
    BY <1>1, <2>4, AdminCopies DEF TaskInv
  <2>5. CASE Restart
    BY <2>5 DEF Restart
  <2>6. CASE UNCHANGED vars
    BY <2>6 DEF vars, copies
  <2> QED
    BY <1>1, <2>1, <2>2, <2>3, <2>4, <2>5, <2>6 DEF Next
<1>2. TaskInv /\ [Next]_vars =>
        [\A t \in Tasks : job[t].at \notin {"none"} =>
           /\ mem[t] = NoEntry => mem'[t] = NoEntry
           /\ doc[t] = NoEntry => doc'[t] = NoEntry]_vars
  BY <1>1
<1> QED
  BY TaskInductive, <1>2, PTL DEF Spec, DeletedStaysDeleted

Completed(t) == \/ mem[t] # NoEntry /\ mem[t].status = "completed"
                \/ doc[t] # NoEntry /\ doc[t].status = "completed"

\* The report of a task is saved, or its loss is known, before its memory and
\* MongoDB copies are told that it is done.
ReportOK(t) ==
  /\ job[t].at = "done" /\ (Writing(t, "memory") \/ Writing(t, "mongo")) => t \in report \cup lost
  /\ Completed(t) => t \in report \cup lost

Clean(t) == t \notin touched \cup lost

\* Copies in the middle of an administrator's operation.
OpOK(a) ==
  /\ admin[a].op = "delete" => mem[admin[a].task] = NoEntry
  /\ admin[a].op = "mark" /\ Clean(admin[a].task) =>
       /\ ~Active(admin[a].task)
       /\ mem[admin[a].task] = NoEntry \/ mem[admin[a].task].status = "failed"

\* The last update of a task writes memory and then MongoDB; nobody else writes
\* the one without the other, once the mark in progress is done.
CopiesOK(t) ==
  Clean(t) /\ mem[t] # NoEntry =>
    /\ job[t].at \notin {"none", "orphan", "dead"} => doc[t] # NoEntry
    /\ job[t].at \in Ending /\ Writing(t, "mongo") =>
         mem[t].status = EndStatus(job[t].at) /\ mem[t].progress = job[t].pct
    /\ job[t].at = "ended" =>
         /\ mem[t].status \in Terminal /\ doc[t].status \in Terminal
         /\ doc[t].progress = mem[t].progress
         /\ \/ doc[t].status = mem[t].status
            \/ mem[t].status = "failed" /\ \E a \in Admins : admin[a].op = "mark" /\ admin[a].task = t

CopyInv == /\ \A t \in Tasks : ReportOK(t) /\ CopiesOK(t)
           /\ \A a \in Admins : OpOK(a)

\* The last writes of a task, in their order.
LEMMA LastWrites ==
  ASSUME JobsOK, NEW t \in Tasks, CopySteps(t), job[t].at \in Ending
  PROVE  /\ Writing(t, "mongo")' /\ job'[t].at \in Ending => Writing(t, "memory")
         /\ Writing(t, "memory")' /\ job'[t].at = "done" => Writing(t, "report")
         /\ Writing(t, "mongo") => job'[t].at = "ended"
         /\ Writing(t, "report") => job[t].at = "done"
         /\ job'[t].at \in {job[t].at, "ended"}
         /\ job'[t].at # "ended" => job'[t].pct = job[t].pct
         /\ job'[t].at = "ended" => Writing(t, "mongo")
<1> DEFINE todo == job[t].todo
<1>1. todo # <<>> /\ Head(todo) # "tracker" /\ Moves(t)
  BY CopyStepFacts
<1>2. job[t].at \in Steps /\ todo \in Todos(job[t].at)
  BY <1>1, WritingFacts
<1>3. /\ Head(todo) \in {"tracker", "store", "report", "memory", "mongo"}
      /\ Head(todo) = "store" /\ job[t].at = "done" => Head(Tail(todo)) = "report"
      /\ Head(todo) = "report" => job[t].at = "done" /\ Head(Tail(todo)) = "memory"
      /\ Head(todo) = "mongo" <=> Tail(todo) = <<>>
      /\ Head(todo) # "memory" => Tail(todo) = <<>> \/ Head(Tail(todo)) # "mongo"
  BY <1>1, <1>2, WritesLeft
<1>4. job[t].at = "done" /\ Tail(todo) # <<>> /\ Head(Tail(todo)) = "memory" => Head(todo) = "report"
  <2>1. CASE job[t].at = "done"
    <3>1. todo \in DoneTodos
      BY <1>2, <2>1 DEF Todos
    <3>2. CASE todo = <<"memory", "mongo">>
      <4>1. Tail(<<"memory", "mongo">>) = <<"mongo">> /\ Head(<<"mongo">>) = "mongo"
        OBVIOUS
      <4> QED
        BY <3>2, <4>1, Zenon
    <3>3. CASE todo = <<"mongo">>
      BY <3>3
    <3>4. CASE todo = <<"report", "memory", "mongo">>
      BY <3>4
    <3>5. CASE todo = <<"store", "report", "memory", "mongo">>
      <4>1. Tail(<<"store", "report", "memory", "mongo">>) = <<"report", "memory", "mongo">>
            /\ Head(<<"report", "memory", "mongo">>) = "report"
        OBVIOUS
      <4> QED
        BY <3>5, <4>1, Zenon
    <3>6. CASE todo = <<"tracker", "store", "report", "memory", "mongo">>
      BY <1>1, <3>6
    <3> QED
      BY <3>1, <3>2, <3>3, <3>4, <3>5, <3>6 DEF DoneTodos
  <2> QED
    BY <2>1
<1>5. CASE job'[t].at = "ended" /\ Writing(t, "mongo")
  BY <1>3, <1>5 DEF Writing, Ending
<1>6. CASE Tail(todo) # <<>> /\ job'[t].todo = Tail(todo) /\ job'[t].at = job[t].at
              /\ job'[t].pct = job[t].pct
  BY <1>1, <1>3, <1>4, <1>6 DEF Writing, Ending
<1> QED
  BY <1>1, <1>5, <1>6 DEF Moves

\* What an administrator may leave in a copy.
LEMMA AdminWrites ==
  ASSUME TypeInv, NEW a \in Admins, AdminStep(a), NEW t \in Tasks
  PROVE  /\ mem'[t] \in {mem[t], NoEntry} \/ mem'[t].status = "failed"
         /\ doc'[t] \in {doc[t], NoEntry} \/ doc'[t].status = "failed"
         /\ touched \subseteq touched'
<1>1. ASSUME NEW u \in Tasks, MarkFailedInMemory(a, u)
      PROVE  mem'[t] \in {mem[t], NoEntry} \/ mem'[t].status = "failed"
  <2> DEFINE e == MemoryUpdated(u, "failed", mem[u].progress, TRUE)
  <2>1. mem' = [mem EXCEPT ![u] = IF mem[u] = NoEntry THEN NoEntry ELSE e]
    BY <1>1 DEF MarkFailedInMemory
  <2>2. mem[u] # NoEntry => e.status = "failed"
    BY DEF MemoryUpdated
  <2> HIDE DEF e
  <2> QED
    BY <2>1, <2>2 DEF TypeInv
<1>2. ASSUME MarkFailedInMongo(a) PROVE doc'[t] \in {doc[t], NoEntry} \/ doc'[t].status = "failed"
  <2> DEFINE d == [doc[admin[a].task] EXCEPT !.status = "failed"]
  <2>1. doc' = [doc EXCEPT ![admin[a].task] = IF @ = NoEntry THEN NoEntry ELSE d]
    BY <1>2 DEF MarkFailedInMongo
  <2>2. admin[a].task \in Tasks
    BY <1>2 DEF MarkFailedInMongo, TypeInv
  <2>3. doc[admin[a].task] # NoEntry => d.status = "failed"
    BY <2>2 DEF TypeInv, Document
  <2> HIDE DEF d
  <2> QED
    BY <2>1, <2>2, <2>3 DEF TypeInv
<1>3. ASSUME NEW S \in SUBSET Tasks, CleanMemory(a, S)
      PROVE  mem'[t] \in {mem[t], NoEntry} \/ mem'[t].status = "failed"
  <2>1. mem'[t] = IF t \in S THEN [status |-> "failed", progress |-> 0, ended |-> TRUE] ELSE mem[t]
    BY <1>3 DEF CleanMemory
  <2> QED
    BY <2>1
<1>4. ASSUME NEW S \in SUBSET Tasks, CleanMongo(a, S)
      PROVE  doc'[t] \in {doc[t], NoEntry} \/ doc'[t].status = "failed"
  <2>1. doc'[t] = IF t \in S THEN [doc[t] EXCEPT !.status = "failed"] ELSE doc[t]
    BY <1>4 DEF CleanMongo
  <2>2. t \in S => doc[t] \in Document
    BY <1>4 DEF CleanMongo, TypeInv
  <2> QED
    BY <2>1, <2>2 DEF Document
<1>5. CASE \E u \in Tasks : MarkFailedInMemory(a, u)
  BY <1>1, <1>5 DEF MarkFailedInMemory, StartOp
<1>6. CASE \E u \in Tasks : DeleteInMemory(a, u)
  BY <1>6 DEF DeleteInMemory, StartOp, TypeInv
<1>7. CASE DeleteInMongo(a)
  BY <1>7 DEF DeleteInMongo, Touch, TypeInv
<1>8. CASE \E S \in SUBSET Tasks : CleanMemory(a, S)
  BY <1>3, <1>8 DEF CleanMemory, StartOp
<1>9. CASE \E S \in SUBSET Tasks : CleanMongo(a, S)
  BY <1>4, <1>9 DEF CleanMongo, Touch
<1>10. CASE MarkFailedInMongo(a)
  BY <1>2, <1>10 DEF MarkFailedInMongo, Touch
<1> QED
  BY <1>5, <1>6, <1>7, <1>8, <1>9, <1>10 DEF AdminStep

-----------------------------------------------------------------------------
\* ReportOK of a task whose job and copies a step leaves alone.
LEMMA ReportFrame ==
  ASSUME NEW t \in Tasks, ReportOK(t), job'[t] = job[t], Completed(t)' => Completed(t),
         report \subseteq report', lost \subseteq lost'
  PROVE  ReportOK(t)'
BY DEF ReportOK, Writing

\* What a step of a task's own changes in the copies of the others: nothing.
LEMMA JobStepIsLocal ==
  ASSUME TaskInv, NEW t \in Tasks, JobStep(t), NEW u \in Tasks, u # t
  PROVE  /\ job'[u] = job[u] /\ mem'[u] = mem[u] /\ doc'[u] = doc[u]
         /\ report \subseteq report' /\ lost \subseteq lost' /\ touched' = touched
         /\ u \in lost' => u \in lost
         /\ UNCHANGED <<admin, told>>
<1>1. TypeInv /\ JobsOK
  BY DEF TaskInv, TypeInv
<1>2. CASE Advances(t)
  <2>1. /\ job'[u] = job[u] /\ UNCHANGED <<mem, doc, report, lost, touched, admin, told>>
    BY <1>1, <1>2, AdvanceFacts DEF history
  <2> QED
    BY <2>1
<1>3. CASE UpdateTracker(t)
  <2>1. tracker[t] # NoEntry
    BY <1>3 DEF TaskInv, TrackerOK, UpdateTracker
  <2> QED
    BY <1>1, <1>3, <2>1, UpdateTrackerFacts DEF UpdateTracker, history
<1>4. CASE CopySteps(t)
  <2>1. job'[u] = job[u] /\ UNCHANGED <<admin, told, touched>>
    BY <1>1, <1>4, CopyStepFacts
  <2>2. CASE UpdateMemory(t)
    BY <1>1, <2>1, <2>2, UpdateMemoryFacts DEF UpdateMemory, history
  <2>3. CASE UpdateMongo(t)
    BY <1>1, <2>1, <2>3, UpdateMongoFacts DEF UpdateMongo
  <2>4. CASE StoreProgress(t)
    BY <2>1, <2>4 DEF StoreProgress, history
  <2>5. CASE SaveReport(t)
    BY <2>1, <2>5 DEF SaveReport
  <2> QED
    BY <1>4, <2>2, <2>3, <2>4, <2>5 DEF CopySteps
<1> QED
  BY <1>2, <1>3, <1>4, JobStepKinds

\* A task's own step keeps its ReportOK: the report is written before memory and MongoDB.
LEMMA ReportJobStep ==
  ASSUME TaskInv, NEW t \in Tasks, ReportOK(t), JobStep(t)
  PROVE  ReportOK(t)'
<1>1. TypeInv /\ JobsOK
  BY DEF TaskInv, TypeInv
<1>2. CASE Advances(t)
  <2>1. UNCHANGED <<mem, doc, report, lost>>
    BY <1>1, <1>2, AdvanceFacts DEF history
  <2>2. job'[t].at = "done" => Writing(t, "tracker")'
    BY <1>1, <1>2, AdvanceFacts
  <2> QED
    BY <2>1, <2>2 DEF ReportOK, Completed, Writing
<1>3. CASE UpdateTracker(t)
  <2>1. tracker[t] # NoEntry
    BY <1>3 DEF TaskInv, TrackerOK, UpdateTracker
  <2>2. Writing(t, "store")' /\ UNCHANGED <<mem, doc, report, lost>>
    BY <1>1, <1>3, <2>1, UpdateTrackerFacts DEF UpdateTracker, history
  <2> QED
    BY <2>2 DEF ReportOK, Completed, Writing
<1>4. CASE CopySteps(t)
  <2>1. Moves(t) /\ job[t].at \in Updates
    BY <1>1, <1>4, CopyStepFacts
  <2>2. job'[t].at = "done" => job[t].at = "done"
    BY <2>1 DEF Moves
  <2>3. job[t].at = "done" => /\ (Writing(t, "mongo")' => Writing(t, "memory") \/ job'[t].at = "ended")
                              /\ (Writing(t, "memory")' => Writing(t, "report") \/ job'[t].at = "ended")
    BY <1>1, <1>4, LastWrites DEF Ending
  <2>4. CASE UpdateMemory(t)
    <3>1. Writing(t, "memory") /\ ~Writing(t, "report") /\ UNCHANGED <<doc, report, lost>>
      BY <2>4 DEF UpdateMemory, Writing, history
    <3>2. mem'[t] # NoEntry => mem'[t].status = EndStatus(job[t].at)
      BY <1>1, <2>4, UpdateMemoryFacts
    <3>3. EndStatus(job[t].at) = "completed" => job[t].at = "done"
      BY DEF EndStatus
    <3> QED
      BY <2>2, <2>3, <3>1, <3>2, <3>3 DEF ReportOK, Completed
  <2>5. CASE UpdateMongo(t)
    <3>1. Writing(t, "mongo") /\ ~Writing(t, "report") /\ ~Writing(t, "memory") /\ UNCHANGED <<mem, report>>
      BY <2>5 DEF UpdateMongo, Writing
    <3>2. CASE t \in lost'
      BY <3>2 DEF ReportOK
    <3>3. CASE t \notin lost'
      <4>1. /\ lost' = lost /\ (doc'[t] # NoEntry => doc[t] # NoEntry)
            /\ doc[t] # NoEntry =>
                    /\ job[t].at \in Ending => doc'[t].status = EndStatus(job[t].at)
                    /\ job[t].at \notin Ending => doc'[t].status \in {"processing", doc[t].status}
        BY <1>1, <2>5, <3>3, UpdateMongoFacts
      <4>2. EndStatus(job[t].at) = "completed" => job[t].at = "done"
        BY DEF EndStatus
      <4>3. Completed(t)' => Completed(t) \/ job[t].at = "done"
        BY <3>1, <4>1, <4>2 DEF Completed
      <4> QED
        BY <2>2, <2>3, <3>1, <4>1, <4>3 DEF ReportOK
    <3> QED
      BY <3>2, <3>3
  <2>6. CASE StoreProgress(t)
    <3>1. ~Writing(t, "report") /\ ~Writing(t, "memory") /\ UNCHANGED <<mem, doc, report, lost>>
      BY <2>6 DEF StoreProgress, Writing, history
    <3> QED
      BY <2>2, <2>3, <3>1 DEF ReportOK, Completed
  <2>7. CASE SaveReport(t)
    BY <2>7 DEF SaveReport, ReportOK
  <2> QED
    BY <1>4, <2>4, <2>5, <2>6, <2>7 DEF CopySteps
<1> QED
  BY <1>2, <1>3, <1>4, JobStepKinds

\* Every step keeps ReportOK of every task.
LEMMA ReportsStep ==
  ASSUME TaskInv, \A t \in Tasks : ReportOK(t), [Next]_vars, NEW t \in Tasks
  PROVE  ReportOK(t)'
<1>1. TypeInv /\ JobsOK
  BY DEF TaskInv, TypeInv
<1>2. CASE UNCHANGED <<job, mem, doc, report, lost>>
  BY <1>2, ReportFrame DEF Completed
<1>3. CASE UNCHANGED vars
  BY <1>2, <1>3 DEF vars, copies, history
<1>4. ASSUME NEW r \in Requests, CreateInMemory(r) PROVE ReportOK(t)'
  <2>1. PICK u \in req[r].todo : mem' = [mem EXCEPT ![u] = NewEntry]
    BY <1>4 DEF CreateInMemory
  <2>2. UNCHANGED <<job, doc, report, lost>> /\ NewEntry.status # "completed"
    BY <1>4 DEF CreateInMemory, history, NewEntry
  <2>3. Completed(t)' => Completed(t)
    BY <1>1, <2>1, <2>2 DEF Completed, TypeInv
  <2> QED
    BY <2>2, <2>3, ReportFrame
<1>5. ASSUME NEW r \in Requests, InsertDocument(r) PROVE ReportOK(t)'
  <2>1. PICK d \in Document : d = [status |-> "pending", progress |-> 0]
    BY FreshRecords
  <2>2. /\ doc' = [doc EXCEPT ![req[r].task] = IF @ = NoEntry THEN d ELSE @] \/ UNCHANGED doc
        /\ UNCHANGED <<mem, report>> /\ lost \subseteq lost'
    BY <1>5, <2>1 DEF InsertDocument
  <2>3. Completed(t)' => Completed(t)
    BY <1>1, <2>1, <2>2 DEF Completed, TypeInv
  <2>4. job'[t] = job[t] \/ job'[t].at = "launched"
    <3>1. CASE req[r].todo = {req[r].task}
      <4> DEFINE made == req[r].made \cup {req[r].task}
      <4>1. Launch(made) /\ req[r].task # NoEntry
        BY <1>5, <3>1 DEF InsertDocument
      <4>2. made \in SUBSET Tasks /\ \A u \in made : job[u].at = "none"
        BY <4>1 DEF TaskInv, RequestsOK, Owns, TypeInv, Req
      <4>3. job' = [u \in Tasks |-> IF u \in made THEN [job[u] EXCEPT !.at = "launched"] ELSE job[u]]
        BY <4>1 DEF Launch
      <4>4. /\ \A u \in made : job'[u].at = "launched"
            /\ \A u \in Tasks \ made : job'[u] = job[u]
        BY <1>1, <4>2, <4>3, StartFacts
      <4> QED
        BY <4>4
    <3>2. CASE req[r].todo # {req[r].task}
      BY <1>5, <3>2 DEF InsertDocument
    <3> QED
      BY <3>1, <3>2
  <2>5. CASE job'[t] = job[t]
    BY <2>2, <2>3, <2>5, ReportFrame
  <2>6. CASE job'[t].at = "launched"
    BY <2>2, <2>3, <2>6 DEF ReportOK
  <2> QED
    BY <2>4, <2>5, <2>6
<1>6. ASSUME NEW r \in Requests, RejectSymbol(r) PROVE ReportOK(t)'
  <2>1. job' = [u \in Tasks |-> IF u \in req[r].made THEN [job[u] EXCEPT !.at = "orphan"] ELSE job[u]]
    BY <1>6 DEF RejectSymbol
  <2>2. req[r].made \in SUBSET Tasks /\ \A u \in req[r].made : job[u].at = "none"
    BY DEF TaskInv, RequestsOK, Owns, TypeInv, Req
  <2>3. job'[t] = job[t] \/ job'[t].at = "orphan"
    BY <1>1, <2>1, <2>2, StartFacts
  <2>4. UNCHANGED <<mem, doc, report, lost>>
    BY <1>6 DEF RejectSymbol, copies, history
  <2>5. CASE job'[t] = job[t]
    BY <2>4, <2>5, ReportFrame DEF Completed
  <2>6. CASE job'[t].at = "orphan"
    BY <2>4, <2>6 DEF ReportOK, Completed
  <2> QED
    BY <2>3, <2>5, <2>6
<1>7. ASSUME NEW r \in Requests, NEW S \in SUBSET Tasks, Submit(r, S) PROVE ReportOK(t)'
  BY <1>2, <1>7 DEF Submit, copies, history
<1>8. ASSUME NEW u \in Tasks, JobStep(u) PROVE ReportOK(t)'
  <2>1. CASE u = t
    BY <1>8, <2>1, ReportJobStep
  <2>2. CASE u # t
    <3>1. /\ job'[t] = job[t] /\ mem'[t] = mem[t] /\ doc'[t] = doc[t]
          /\ report \subseteq report' /\ lost \subseteq lost'
      BY <1>8, <2>2, JobStepIsLocal
    <3> QED
      BY <3>1, ReportFrame DEF Completed
  <2> QED
    BY <2>1, <2>2
<1>9. ASSUME NEW u \in Tasks, SideStep(u) PROVE ReportOK(t)'
  BY <1>1, <1>2, <1>9, SideFrame DEF history
<1>10. ASSUME NEW a \in Admins, AdminStep(a) PROVE ReportOK(t)'
  <2>1. UNCHANGED <<job, report, lost>>
    BY <1>1, <1>10, AdminCopies
  <2>2. Completed(t)' => Completed(t)
    BY <1>1, <1>10, AdminWrites DEF Completed
  <2> QED
    BY <2>1, <2>2, ReportFrame
<1>11. CASE Restart
  <2>1. mem'[t] = NoEntry /\ UNCHANGED <<doc, report, lost>>
    BY <1>11 DEF Restart, history
  <2>2. job'[t].at # "done"
    BY <1>1, <1>11, RestartFacts
  <2> QED
    BY <2>1, <2>2 DEF ReportOK, Completed
<1> QED
  BY <1>3, <1>4, <1>5, <1>6, <1>7, <1>8, <1>9, <1>10, <1>11 DEF Next, RequestStep

\* A task that memory or MongoDB calls completed has its report, unless a MongoDB error
\* was logged for it: the order of the last writes of execute_analysis_background.
THEOREM CompletedIsReported == Spec => []CompletedHasReport
<1> DEFINE Inv == TaskInv /\ \A t \in Tasks : ReportOK(t)
<1>1. Init => Inv
  BY TaskInit DEF Init, ReportOK, Completed, Writing
<1>2. Inv /\ [Next]_vars => Inv'
  BY ReportsStep, TypesStep, RequestsStep, AdminsToldStep, TrackersStep DEF TaskInv
<1>3. Inv => CompletedHasReport
  BY DEF ReportOK, Completed, CompletedHasReport
<1> QED
  BY <1>1, <1>2, <1>3, PTL DEF Spec

\* A task that a step leaves alone, with every mark in progress.
LEMMA CopiesFrame ==
  ASSUME NEW t \in Tasks, CopiesOK(t), job'[t] = job[t], mem'[t] = mem[t], doc'[t] = doc[t],
         Clean(t)' => Clean(t),
         \A a \in Admins : admin[a].op = "mark" /\ admin[a].task = t
                             => admin'[a].op = "mark" /\ admin'[a].task = t
  PROVE  CopiesOK(t)'
BY DEF CopiesOK, Writing

\* A step that does not start a task, nor write it unless it fails or deletes it.
Spares(t) == /\ mem[t] = NoEntry => mem'[t] = NoEntry
             /\ job'[t].at \notin Idle => job[t].at \notin Idle
             /\ job[t].at \in Idle /\ mem[t] # NoEntry /\ mem[t].status = "failed" =>
                  mem'[t] = NoEntry \/ mem'[t].status = "failed"

\* An operation in progress, under a step of somebody else.
LEMMA OpFrame ==
  ASSUME TypeInv, AdminsTold, NEW a \in Admins, OpOK(a), admin'[a] = admin[a],
         touched \subseteq touched', lost \subseteq lost',
         \A t \in told : Spares(t)
  PROVE  OpOK(a)'
BY DEF OpOK, AdminsTold, Clean, Active, Spares

\* A task's own step keeps its CopiesOK: the last update writes memory, then MongoDB.
LEMMA CopiesJobStep ==
  ASSUME TaskInv, NEW t \in Tasks, CopiesOK(t), JobStep(t)
  PROVE  CopiesOK(t)'
<1>1. TypeInv /\ JobsOK
  BY DEF TaskInv, TypeInv
<1>2. CASE Advances(t)
  <2>1. UNCHANGED <<mem, doc, touched, lost>>
    BY <1>1, <1>2, AdvanceFacts DEF history
  <2>2. /\ job[t].at \notin {"none", "orphan", "dead"} /\ job'[t].at # "ended"
        /\ ~Writing(t, "mongo")'
    BY <1>1, <1>2, AdvanceFacts DEF Writing
  <2> QED
    BY <2>1, <2>2 DEF CopiesOK, Clean
<1>3. CASE UpdateTracker(t)
  <2>1. tracker[t] # NoEntry /\ Writing(t, "tracker") /\ UNCHANGED <<mem, doc, touched, lost>>
    BY <1>3 DEF TaskInv, TrackerOK, UpdateTracker, history
  <2>2. job[t].at \in Updates
    BY <1>1, <2>1, WritingFacts DEF Writing
  <2>3. Writing(t, "store")' /\ job'[t].at = job[t].at
    BY <1>1, <1>3, <2>1, UpdateTrackerFacts
  <2> QED
    BY <2>1, <2>2, <2>3, UpdateNames DEF CopiesOK, Writing, Clean
<1>4. CASE CopySteps(t)
  <2>1. Moves(t) /\ job[t].at \in Updates /\ touched' = touched
    BY <1>1, <1>4, CopyStepFacts
  <2>2. job[t].at \notin {"none", "orphan", "dead", "ended"}
    BY <2>1, UpdateNames
  <2>3. CASE job[t].at \notin Ending
    <3>1. job'[t].at \notin Ending \cup {"ended"}
      BY <2>1, <2>2, <2>3 DEF Moves, Ending
    <3>2. (mem'[t] # NoEntry => mem[t] # NoEntry) /\ (doc[t] # NoEntry => doc'[t] # NoEntry)
             /\ (Clean(t)' => Clean(t))
      <4>1. CASE UpdateMemory(t)
        BY <1>1, <4>1, UpdateMemoryFacts DEF UpdateMemory, history, Clean
      <4>2. CASE UpdateMongo(t)
        BY <1>1, <4>2, UpdateMongoFacts DEF UpdateMongo, Clean
      <4>3. CASE StoreProgress(t) \/ SaveReport(t)
        BY <4>3 DEF StoreProgress, SaveReport, history, Clean
      <4> QED
        BY <1>4, <4>1, <4>2, <4>3 DEF CopySteps
    <3> QED
      BY <2>2, <3>1, <3>2 DEF CopiesOK
  <2>4. CASE job[t].at \in Ending
    <3>1. /\ Writing(t, "mongo")' /\ job'[t].at \in Ending => Writing(t, "memory")
          /\ Writing(t, "mongo") => job'[t].at = "ended"
          /\ job'[t].at \in {job[t].at, "ended"}
          /\ job'[t].at # "ended" => job'[t].pct = job[t].pct
          /\ job'[t].at = "ended" => Writing(t, "mongo")
      BY <1>1, <1>4, <2>4, LastWrites
    <3>2. "ended" \notin Ending /\ job[t].at # "ended"
      BY <2>4 DEF Ending
    <3>3. CASE UpdateMemory(t)
      <4>1. UNCHANGED <<doc, lost>> /\ ~Writing(t, "mongo")
        BY <3>3 DEF UpdateMemory, history, Writing
      <4>2. mem'[t] # NoEntry => mem[t] # NoEntry /\ mem'[t].status = EndStatus(job[t].at)
               /\ mem'[t].progress = job[t].pct
        BY <1>1, <3>3, UpdateMemoryFacts
      <4>3. job'[t].at = job[t].at /\ job'[t].pct = job[t].pct
        BY <3>1, <4>1
      <4> QED
        BY <2>1, <2>2, <3>2, <4>1, <4>2, <4>3 DEF CopiesOK, Clean
    <3>4. CASE UpdateMongo(t)
      <4>1. UNCHANGED mem /\ Writing(t, "mongo")
        BY <3>4 DEF UpdateMongo
      <4>2. SUFFICES ASSUME Clean(t)', mem[t] # NoEntry
                     PROVE  /\ doc'[t] # NoEntry
                            /\ mem[t].status \in Terminal /\ doc'[t].status = mem[t].status
                            /\ doc'[t].progress = mem[t].progress
        BY <3>1, <3>2, <4>1 DEF CopiesOK
      <4>3. /\ lost' = lost /\ (doc[t] # NoEntry => doc'[t] # NoEntry)
            /\ doc[t] # NoEntry => doc'[t].progress = job[t].pct /\ doc'[t].status = EndStatus(job[t].at)
        BY <1>1, <2>4, <3>4, <4>2, UpdateMongoFacts DEF Clean
      <4>4. Clean(t)
        BY <2>1, <4>2, <4>3 DEF Clean
      <4>5. doc[t] # NoEntry /\ mem[t].status = EndStatus(job[t].at) /\ mem[t].progress = job[t].pct
        BY <2>2, <2>4, <4>1, <4>2, <4>4 DEF CopiesOK
      <4>6. EndStatus(job[t].at) \in Terminal
        BY <2>4 DEF EndStatus, Ending, Terminal
      <4> QED
        BY <4>3, <4>5, <4>6
    <3>5. CASE StoreProgress(t) \/ SaveReport(t)
      <4>1. UNCHANGED <<mem, doc>> /\ ~Writing(t, "mongo") /\ ~Writing(t, "memory") /\ (Clean(t)'
               => Clean(t))
        BY <3>5 DEF StoreProgress, SaveReport, history, Writing, Clean
      <4>2. job'[t].at = job[t].at
        BY <3>1, <4>1
      <4>3. ~Writing(t, "mongo")'
        BY <2>4, <3>1, <4>1, <4>2
      <4> QED
        BY <2>2, <3>2, <4>1, <4>2, <4>3 DEF CopiesOK
    <3> QED
      BY <1>4, <3>3, <3>4, <3>5 DEF CopySteps
  <2> QED
    BY <2>3, <2>4
<1> QED
  BY <1>2, <1>3, <1>4, JobStepKinds

\* ... and the CopiesOK of the others, and the operations under way.
LEMMA CopiesJobSteps ==
  ASSUME TaskInv, CopyInv, NEW t \in Tasks, JobStep(t)
  PROVE  (\A u \in Tasks : CopiesOK(u)') /\ \A a \in Admins : OpOK(a)'
<1>1. TypeInv /\ JobsOK /\ AdminsTold
  BY DEF TaskInv, TypeInv
<1>2. UNCHANGED <<admin, touched>> /\ lost \subseteq lost'
  <2>1. CASE Advances(t)
    BY <1>1, <2>1, AdvanceFacts DEF history
  <2>2. CASE UpdateTracker(t)
    BY <2>2 DEF UpdateTracker, history
  <2>3. CASE CopySteps(t)
    <3>1. UNCHANGED <<admin, touched>>
      BY <1>1, <2>3, CopyStepFacts
    <3>2. lost \subseteq lost'
      BY <2>3 DEF CopySteps, StoreProgress, UpdateMemory, UpdateMongo, SaveReport, history
    <3> QED
      BY <3>1, <3>2
  <2> QED
    BY <2>1, <2>2, <2>3, JobStepKinds
<1>3. ASSUME NEW u \in Tasks PROVE CopiesOK(u)'
  <2>1. CASE u = t
    BY <2>1, CopiesJobStep DEF CopyInv
  <2>2. CASE u # t
    <3>1. /\ job'[u] = job[u] /\ mem'[u] = mem[u] /\ doc'[u] = doc[u] /\ touched' = touched
          /\ (u \in lost' => u \in lost) /\ lost \subseteq lost' /\ UNCHANGED admin
      BY <2>2, JobStepIsLocal
    <3> QED
      BY <3>1, CopiesFrame DEF CopyInv, Clean
  <2> QED
    BY <2>1, <2>2
<1>4. Active(t) /\ (mem[t] = NoEntry => mem'[t] = NoEntry)
  <2>1. CASE Advances(t)
    BY <1>1, <2>1, AdvanceFacts DEF Active, Idle, CreateTracker
  <2>2. CASE UpdateTracker(t)
    BY <1>1, <2>2, WritingFacts, UpdateNames DEF UpdateTracker, Writing, Active, Idle
  <2>3. CASE CopySteps(t)
    <3>1. Active(t)
      BY <1>1, <2>3, CopyStepFacts, UpdateNames DEF Active, Idle
    <3>2. CASE UpdateMemory(t)
      BY <1>1, <3>1, <3>2, UpdateMemoryFacts
    <3>3. CASE UpdateMongo(t) \/ StoreProgress(t) \/ SaveReport(t)
      BY <3>1, <3>3 DEF UpdateMongo, StoreProgress, SaveReport
    <3> QED
      BY <2>3, <3>2, <3>3 DEF CopySteps
  <2> QED
    BY <2>1, <2>2, <2>3, JobStepKinds
<1>5. \A u \in Tasks : /\ mem[u] = NoEntry => mem'[u] = NoEntry
                       /\ u # t => mem'[u] = mem[u] /\ job'[u] = job[u]
  BY <1>4, JobStepIsLocal
<1>6. ASSUME NEW a \in Admins PROVE OpOK(a)'
  <2>1. \A u \in told : Spares(u)
    BY <1>1, <1>4, <1>5 DEF TypeInv, Active, Spares
  <2> QED
    BY <1>1, <1>2, <2>1, OpFrame DEF CopyInv
<1> QED
  BY <1>3, <1>6

\* A submitting request writes only the copies of tasks that have not started.
LEMMA CopiesRequestSteps ==
  ASSUME TaskInv, CopyInv, NEW r \in Requests,
         RequestStep(r) \/ RejectSymbol(r) \/ \E S \in SUBSET Tasks : Submit(r, S)
  PROVE  (\A u \in Tasks : CopiesOK(u)') /\ \A a \in Admins : OpOK(a)'
<1>1. TypeInv /\ JobsOK /\ AdminsTold
  BY DEF TaskInv, TypeInv
<1>2. /\ req[r].made \in SUBSET Tasks /\ req[r].todo \in SUBSET Tasks
      /\ \A u \in req[r].made \cup req[r].todo : job[u].at = "none" /\ u \notin told
  BY DEF TaskInv, RequestsOK, Owns, TypeInv, Req
<1>3. UNCHANGED <<admin, touched>> /\ lost \subseteq lost'
  BY DEF RequestStep, CreateInMemory, InsertDocument, RejectSymbol, Submit, history
<1>4. \A u \in Tasks : \/ /\ job'[u] = job[u] /\ mem'[u] = mem[u] /\ doc'[u] = doc[u]
                       \/ /\ u \notin told /\ job[u].at = "none" /\ ~Writing(u, "mongo")'
                          /\ job'[u].at \in {"none", "orphan"} \/ (job'[u].at = "launched"
                                /\ (u \in lost' \/ doc'[u] # NoEntry))
  <2>1. CASE CreateInMemory(r)
    <3>1. PICK t \in req[r].todo : mem' = [mem EXCEPT ![t] = NewEntry]
      BY <2>1 DEF CreateInMemory
    <3>2. UNCHANGED <<job, doc>>
      BY <2>1 DEF CreateInMemory
    <3>3. job[t].at = "none" /\ t \notin told /\ ~Writing(t, "mongo")
      BY <1>1, <1>2, WritingFacts, UpdateNames DEF Writing
    <3>4. \A u \in Tasks \ {t} : mem'[u] = mem[u]
      BY <1>1, <3>1 DEF TypeInv
    <3> QED
      BY <3>2, <3>3, <3>4 DEF Writing
  <2>2. CASE InsertDocument(r)
    <3>0. PICK t \in req[r].todo : t = req[r].task
      BY <2>2 DEF InsertDocument, TaskInv, RequestsOK
    <3> DEFINE made == req[r].made \cup {t}
    <3>1. t \in req[r].todo /\ UNCHANGED mem
      BY <2>2 DEF InsertDocument
    <3>2. (\A u \in Tasks \ {t} : doc'[u] = doc[u]) /\ (t \in lost' \/ doc'[t] # NoEntry)
      <4>1. PICK d \in Document : d = [status |-> "pending", progress |-> 0]
        BY FreshRecords
      <4>2. d # NoEntry
        BY NoEntryIsNew
      <4>3. \/ doc' = [doc EXCEPT ![t] = IF @ = NoEntry THEN d ELSE @]
            \/ lost' = lost \cup {t} /\ UNCHANGED doc
        BY <2>2, <3>0, <4>1 DEF InsertDocument
      <4> QED
        BY <1>1, <1>2, <3>1, <4>2, <4>3 DEF TypeInv
    <3>3. made \in SUBSET Tasks /\ \A u \in made : job[u].at = "none" /\ u \notin told
      BY <1>2, <3>1
    <3>4. \A u \in req[r].made : u \in lost' \/ doc'[u] # NoEntry
      BY <1>2, <1>3, <3>2 DEF TaskInv, RequestsOK
    <3>5. CASE req[r].todo = {t}
      <4>1. Launch(made)
        BY <2>2, <3>0, <3>5 DEF InsertDocument
      <4>2. job' = [u \in Tasks |-> IF u \in made THEN [job[u] EXCEPT !.at = "launched"] ELSE job[u]]
        BY <4>1 DEF Launch
      <4>3. /\ \A u \in made : job'[u].at = "launched" /\ job'[u].todo = <<>>
            /\ \A u \in Tasks \ made : job'[u] = job[u]
        BY <1>1, <3>3, <4>2, StartFacts
      <4> QED
        BY <3>1, <3>2, <3>3, <3>4, <4>3 DEF Writing
    <3>6. CASE req[r].todo # {t}
      <4>1. UNCHANGED job
        BY <2>2, <3>0, <3>6 DEF InsertDocument
      <4>2. ~Writing(t, "mongo")'
        BY <1>1, <3>3, <4>1, WritingFacts, UpdateNames DEF Writing
      <4> QED
        BY <3>1, <3>2, <3>3, <4>1, <4>2
    <3> QED
      BY <3>5, <3>6
  <2>3. CASE RejectSymbol(r)
    <3>1. job' = [u \in Tasks |-> IF u \in req[r].made THEN [job[u] EXCEPT !.at = "orphan"] ELSE job[u]]
      BY <2>3 DEF RejectSymbol
    <3>2. /\ \A u \in req[r].made : job'[u].at = "orphan" /\ job'[u].todo = <<>>
          /\ \A u \in Tasks \ req[r].made : job'[u] = job[u]
      BY <1>1, <1>2, <3>1, StartFacts
    <3>3. UNCHANGED <<mem, doc>>
      BY <2>3 DEF RejectSymbol, copies
    <3> QED
      BY <1>2, <3>2, <3>3 DEF Writing
  <2>4. CASE \E S \in SUBSET Tasks : Submit(r, S)
    BY <2>4 DEF Submit, copies
  <2> QED
    BY <2>1, <2>2, <2>3, <2>4 DEF RequestStep
<1>5. ASSUME NEW u \in Tasks PROVE CopiesOK(u)'
  <2>1. CASE job'[u] = job[u] /\ mem'[u] = mem[u] /\ doc'[u] = doc[u]
    BY <1>3, <2>1, CopiesFrame DEF CopyInv, Clean
  <2>2. CASE ~Writing(u, "mongo")' /\ (job'[u].at \in {"none", "orphan"} \/ (job'[u].at = "launched"
                /\ (u \in lost' \/ doc'[u] # NoEntry)))
    BY <2>2 DEF CopiesOK, Clean
  <2> QED
    BY <1>4, <2>1, <2>2
<1>6. ASSUME NEW a \in Admins PROVE OpOK(a)'
  <2>1. \A u \in told : Spares(u)
    <3>1. \A u \in told : job'[u] = job[u] /\ mem'[u] = mem[u]
      BY <1>1, <1>4 DEF TypeInv
    <3> QED
      BY <3>1 DEF Spares
  <2> QED
    BY <1>1, <1>3, <2>1, OpFrame DEF CopyInv
<1> QED
  BY <1>5, <1>6

\* The administrators' steps: each operation writes both copies, and touches a task
\* that is still running.
LEMMA CopiesAdminSteps ==
  ASSUME TaskInv, CopyInv, NEW a \in Admins, AdminStep(a)
  PROVE  (\A u \in Tasks : CopiesOK(u)') /\ \A b \in Admins : OpOK(b)'
<1>1. TypeInv /\ JobsOK /\ AdminsTold /\ RequestsOK
  BY DEF TaskInv, TypeInv
<1>2. /\ UNCHANGED <<job, told, lost>> /\ touched \subseteq touched'
      /\ \A t \in Tasks : mem[t] = NoEntry => mem'[t] = NoEntry
      /\ \A t \in Tasks : mem'[t] \in {mem[t], NoEntry} \/ mem'[t].status = "failed"
  <2>1. UNCHANGED <<job, told, lost>> /\ \A t \in Tasks : mem[t] = NoEntry => mem'[t] = NoEntry
    BY <1>1, AdminCopies
  <2>2. \A t \in Tasks : mem'[t] \in {mem[t], NoEntry} \/ mem'[t].status = "failed"
    BY <1>1, AdminWrites
  <2>3. touched \subseteq touched'
    BY DEF AdminStep, MarkFailedInMemory, MarkFailedInMongo, DeleteInMemory, DeleteInMongo, CleanMemory,
       CleanMongo, StartOp, Touch
  <2> QED
    BY <2>1, <2>2, <2>3
<1>3. \A t \in Tasks : (Clean(t)' => Clean(t)) /\ (Active(t)' <=> Active(t)) /\ (job'[t] = job[t])
  BY <1>2 DEF Clean, Active
<1>4. ASSUME NEW b \in Admins, b # a PROVE OpOK(b)' /\ admin'[b] = admin[b]
  <2>1. admin'[b] = admin[b]
    <3>1. \E c : admin' = [admin EXCEPT ![a] = c]
      BY Zenon DEF AdminStep, MarkFailedInMemory, MarkFailedInMongo, DeleteInMemory, DeleteInMongo,
         CleanMemory, CleanMongo
    <3> QED
      BY <1>1, <1>4, <3>1 DEF TypeInv
  <2>2. \A u \in told : Spares(u)
    BY <1>1, <1>2, <1>3 DEF TypeInv, Spares
  <2> QED
    BY <1>1, <1>2, <2>1, <2>2, OpFrame DEF CopyInv
<1>5. ASSUME NEW t \in Tasks, MarkFailedInMemory(a, t)
      PROVE  (\A u \in Tasks : CopiesOK(u)') /\ OpOK(a)'
  <2> DEFINE e == MemoryUpdated(t, "failed", mem[t].progress, TRUE)
  <2>1. /\ mem' = [mem EXCEPT ![t] = IF mem[t] = NoEntry THEN NoEntry ELSE e]
        /\ admin' = [admin EXCEPT ![a] = [op |-> "mark", task |-> t]]
        /\ admin[a].op = "idle" /\ UNCHANGED doc /\ t \in told
        /\ touched' = touched \cup {s \in {t} : Active(s)}
    BY <1>5 DEF MarkFailedInMemory, StartOp
  <2>2. mem[t] # NoEntry => e.status = "failed" /\ e.progress = mem[t].progress
    BY DEF MemoryUpdated
  <2> HIDE DEF e
  <2>3. admin'[a].op = "mark" /\ admin'[a].task = t
    BY <1>1, <2>1 DEF TypeInv
  <2>4. Clean(t)' => ~Active(t)
    BY <2>1 DEF Clean
  <2>5. mem'[t] = NoEntry \/ (mem[t] # NoEntry /\ mem'[t].status = "failed"
           /\ mem'[t].progress = mem[t].progress)
    BY <1>1, <2>1, <2>2 DEF TypeInv
  <2>6. OpOK(a)'
    BY <1>3, <2>3, <2>4, <2>5 DEF OpOK
  <2>7. CopiesOK(t)'
    <3>1. SUFFICES ASSUME Clean(t)', mem'[t] # NoEntry
                   PROVE  /\ job[t].at \notin {"none", "orphan", "dead"} => doc[t] # NoEntry
                          /\ job[t].at \notin Ending
                          /\ job[t].at = "ended" =>
                               /\ mem'[t].status = "failed" /\ doc[t].status \in Terminal
                               /\ doc[t].progress = mem'[t].progress
      BY <1>2, <2>1, <2>3 DEF CopiesOK, Terminal
    <3>2. CopiesOK(t) /\ Clean(t) /\ mem[t] # NoEntry /\ mem'[t].status = "failed"
             /\ mem'[t].progress = mem[t].progress
      BY <1>3, <2>5, <3>1 DEF CopyInv
    <3>3. job[t].at \notin Ending
      BY <2>4, <3>1 DEF Active, Idle, Ending
    <3> QED
      BY <3>2, <3>3 DEF CopiesOK
  <2>8. ASSUME NEW u \in Tasks, u # t PROVE CopiesOK(u)'
    <3>1. mem'[u] = mem[u] /\ doc'[u] = doc[u]
      BY <1>1, <2>1, <2>8 DEF TypeInv
    <3>2. \A b \in Admins : admin[b].op = "mark" => admin'[b] = admin[b]
      BY <1>4, <2>1
    <3> QED
      BY <1>3, <3>1, <3>2, CopiesFrame DEF CopyInv
  <2> QED
    BY <2>6, <2>7, <2>8
<1>6. ASSUME MarkFailedInMongo(a) PROVE (\A u \in Tasks : CopiesOK(u)') /\ OpOK(a)'
  <2>0. PICK t \in Tasks : t = admin[a].task
    BY <1>1, <1>6 DEF MarkFailedInMongo, TypeInv
  <2> DEFINE d == [doc[t] EXCEPT !.status = "failed"]
  <2>1. /\ admin[a].op = "mark" /\ t \in Tasks /\ UNCHANGED mem /\ OpOK(a) /\ CopiesOK(t)
        /\ touched' = touched \cup {s \in {t} : Active(s)}
        /\ doc' = [doc EXCEPT ![t] = IF doc[t] = NoEntry THEN NoEntry ELSE d]
        /\ admin' = [admin EXCEPT ![a] = [op |-> "idle", task |-> NoEntry]]
    BY <1>1, <1>6, <2>0 DEF MarkFailedInMongo, Touch, TypeInv, CopyInv
  <2>2. doc[t] # NoEntry => d \in Document /\ d.status = "failed" /\ d.progress = doc[t].progress
    BY <1>1, <2>1 DEF TypeInv, Document, Terminal
  <2>3. d \in Document => d # NoEntry
    BY NoEntryIsNew
  <2>4. doc'[t] = (IF doc[t] = NoEntry THEN NoEntry ELSE d) /\ \A u \in Tasks \ {t} : doc'[u] = doc[u]
    BY <1>1, <2>1 DEF TypeInv
  <2>5. OpOK(a)'
    <3>1. admin'[a].op = "idle"
      BY <1>1, <2>1 DEF TypeInv
    <3> QED
      BY <3>1 DEF OpOK
  <2> HIDE DEF d
  <2>6. CopiesOK(t)'
    <3>1. SUFFICES ASSUME Clean(t)', mem[t] # NoEntry
                   PROVE  /\ job[t].at \notin {"none", "orphan", "dead"} => doc'[t] # NoEntry
                          /\ job[t].at \notin Ending
                          /\ job[t].at = "ended" =>
                               /\ mem[t].status = "failed" /\ doc'[t].status = "failed"
                               /\ doc'[t].progress = mem[t].progress
      BY <1>2, <2>1 DEF CopiesOK, Terminal
    <3>2. Clean(t) /\ ~Active(t) /\ mem[t].status = "failed"
      BY <1>3, <2>0, <2>1, <3>1 DEF OpOK
    <3>3. job[t].at \notin Ending
      BY <3>2 DEF Active, Idle, Ending
    <3> QED
      BY <2>1, <2>2, <2>3, <2>4, <3>1, <3>2, <3>3 DEF CopiesOK
  <2>7. ASSUME NEW u \in Tasks, u # t PROVE CopiesOK(u)'
    <3>1. mem'[u] = mem[u] /\ doc'[u] = doc[u]
      BY <2>1, <2>4, <2>7
    <3>2. \A b \in Admins : admin[b].op = "mark" /\ admin[b].task = u => admin'[b] = admin[b]
      BY <1>4, <2>0, <2>7
    <3> QED
      BY <1>3, <3>1, <3>2, CopiesFrame DEF CopyInv
  <2> QED
    BY <2>5, <2>6, <2>7
<1>7. ASSUME NEW t \in Tasks, DeleteInMemory(a, t)
      PROVE  (\A u \in Tasks : CopiesOK(u)') /\ OpOK(a)'
  <2>1. /\ mem' = [mem EXCEPT ![t] = NoEntry] /\ UNCHANGED doc /\ admin[a].op = "idle"
        /\ admin' = [admin EXCEPT ![a] = [op |-> "delete", task |-> t]]
    BY <1>7 DEF DeleteInMemory, StartOp
  <2>2. mem'[t] = NoEntry /\ \A u \in Tasks \ {t} : mem'[u] = mem[u]
    BY <1>1, <2>1 DEF TypeInv
  <2>3. admin'[a].op = "delete" /\ admin'[a].task = t
    BY <1>1, <2>1 DEF TypeInv
  <2>4. \A b \in Admins : admin[b].op = "mark" => admin'[b] = admin[b]
    BY <1>4, <2>1
  <2>5. \A u \in Tasks \ {t} : CopiesOK(u)'
    BY <1>3, <2>1, <2>2, <2>4, CopiesFrame DEF CopyInv
  <2>6. CopiesOK(t)'
    BY <2>2 DEF CopiesOK
  <2> QED
    BY <2>2, <2>3, <2>5, <2>6 DEF OpOK
<1>8. ASSUME DeleteInMongo(a) PROVE (\A u \in Tasks : CopiesOK(u)') /\ OpOK(a)'
  <2>0. PICK t \in Tasks : t = admin[a].task
    BY <1>1, <1>8 DEF DeleteInMongo, TypeInv
  <2>1. /\ doc' = [doc EXCEPT ![t] = NoEntry] /\ UNCHANGED mem /\ admin[a].op = "delete"
        /\ admin' = [admin EXCEPT ![a] = [op |-> "idle", task |-> NoEntry]]
        /\ OpOK(a) /\ t \in Tasks
    BY <1>1, <1>8, <2>0 DEF DeleteInMongo, CopyInv, TypeInv
  <2>2. mem'[t] = NoEntry /\ \A u \in Tasks \ {t} : doc'[u] = doc[u]
    BY <1>1, <2>0, <2>1 DEF TypeInv, OpOK
  <2>3. admin'[a].op = "idle"
    BY <1>1, <2>1 DEF TypeInv
  <2>4. \A b \in Admins : admin[b].op = "mark" => admin'[b] = admin[b]
    BY <1>4, <2>1
  <2>5. \A u \in Tasks \ {t} : CopiesOK(u)'
    BY <1>3, <2>1, <2>2, <2>4, CopiesFrame DEF CopyInv
  <2>6. CopiesOK(t)'
    BY <2>2 DEF CopiesOK
  <2> QED
    BY <2>3, <2>5, <2>6 DEF OpOK
<1>9. ASSUME NEW S \in SUBSET Tasks, CleanMemory(a, S)
      PROVE  (\A u \in Tasks : CopiesOK(u)') /\ OpOK(a)'
  <2>1. /\ UNCHANGED doc /\ admin[a].op = "idle"
        /\ admin' = [admin EXCEPT ![a] = [op |-> "clean", task |-> NoEntry]]
        /\ touched' = touched \cup {s \in S : Active(s)}
        /\ \A u \in S : mem[u] # NoEntry /\ mem[u].status \notin Terminal
        /\ \A u \in Tasks \ S : mem'[u] = mem[u]
    BY <1>9 DEF CleanMemory, StartOp
  <2>2. admin'[a].op = "clean"
    BY <1>1, <2>1 DEF TypeInv
  <2>3. \A b \in Admins : admin[b].op = "mark" => admin'[b] = admin[b]
    BY <1>4, <2>1
  <2>4. \A u \in Tasks \ S : CopiesOK(u)'
    BY <1>3, <2>1, <2>3, CopiesFrame DEF CopyInv
  <2>5. ASSUME NEW u \in S PROVE CopiesOK(u)'
    <3>1. SUFFICES ASSUME Clean(u)' PROVE job[u].at \in {"none", "orphan", "dead"}
      BY <1>2, "ended" \notin {"none", "orphan", "dead"} DEF CopiesOK, Ending
    <3>2. job[u].at \in Idle
      BY <2>1, <3>1 DEF Clean, Active
    <3>3. job[u].at # "ended"
      BY <1>3, <2>1, <3>1 DEF CopyInv, CopiesOK
    <3> QED
      BY <3>2, <3>3 DEF Idle
  <2> QED
    BY <2>2, <2>4, <2>5 DEF OpOK
<1>10. ASSUME NEW S \in SUBSET Tasks, CleanMongo(a, S)
      PROVE  (\A u \in Tasks : CopiesOK(u)') /\ OpOK(a)'
  <2>1. /\ UNCHANGED mem /\ admin[a].op = "clean"
        /\ admin' = [admin EXCEPT ![a] = [op |-> "idle", task |-> NoEntry]]
        /\ touched' = touched \cup {s \in S : Active(s)}
        /\ \A u \in S : doc[u] # NoEntry /\ doc[u].status \notin Terminal
        /\ \A u \in Tasks \ S : doc'[u] = doc[u]
    BY <1>10 DEF CleanMongo, Touch
  <2>2. admin'[a].op = "idle"
    BY <1>1, <2>1 DEF TypeInv
  <2>3. \A b \in Admins : admin[b].op = "mark" => admin'[b] = admin[b]
    BY <1>4, <2>1
  <2>4. \A u \in Tasks \ S : CopiesOK(u)'
    BY <1>3, <2>1, <2>3, CopiesFrame DEF CopyInv
  <2>5. ASSUME NEW u \in S PROVE CopiesOK(u)'
    <3>1. SUFFICES ASSUME Clean(u)', mem[u] # NoEntry PROVE job[u].at \in {"none", "orphan", "dead"}
      BY <1>2, <2>1 DEF CopiesOK, Ending
    <3>2. job[u].at \in Idle
      BY <2>1, <3>1 DEF Clean, Active
    <3>3. job[u].at # "ended"
      BY <1>3, <2>1, <3>1 DEF CopyInv, CopiesOK
    <3> QED
      BY <3>2, <3>3 DEF Idle
  <2> QED
    BY <2>2, <2>4, <2>5 DEF OpOK
<1>11. (\A u \in Tasks : CopiesOK(u)') /\ OpOK(a)'
  BY <1>5, <1>6, <1>7, <1>8, <1>9, <1>10 DEF AdminStep
<1> QED
  BY <1>4, <1>11

\* Every step keeps CopyInv.
LEMMA CopiesStep ==
  ASSUME TaskInv, CopyInv, [Next]_vars
  PROVE  CopyInv'
<1>1. TypeInv /\ JobsOK /\ AdminsTold
  BY DEF TaskInv, TypeInv
<1>2. \A t \in Tasks : ReportOK(t)'
  BY ReportsStep DEF CopyInv
<1>3. ASSUME UNCHANGED <<job, mem, doc, admin, touched, lost>>
      PROVE  (\A u \in Tasks : CopiesOK(u)') /\ \A b \in Admins : OpOK(b)'
  BY <1>3 DEF CopyInv, CopiesOK, OpOK, Writing, Clean, Active
<1>4. CASE UNCHANGED vars
  BY <1>2, <1>3, <1>4 DEF vars, copies, history, CopyInv
<1>5. ASSUME NEW t \in Tasks, SideStep(t) PROVE CopyInv'
  BY <1>1, <1>2, <1>3, <1>5, SideFrame DEF history, CopyInv
<1>6. CASE Restart
  <2>1. \A t \in Tasks : mem'[t] = NoEntry
    BY <1>6 DEF Restart
  <2>2. \A a \in Admins : admin'[a].op = "idle"
    BY <1>6 DEF Restart
  <2> QED
    BY <1>2, <2>1, <2>2 DEF CopyInv, CopiesOK, OpOK
<1> QED
  BY <1>2, <1>4, <1>5, <1>6, CopiesJobSteps, CopiesRequestSteps, CopiesAdminSteps DEF Next, CopyInv

\* What holds of the copies, with what holds of the tasks, is an invariant.
THEOREM CopiesInductive == Spec => [](TaskInv /\ CopyInv)
<1>1. Init => CopyInv
  BY DEF Init, CopyInv, ReportOK, CopiesOK, OpOK, Completed, Writing
<1>2. TaskInv /\ CopyInv /\ [Next]_vars => (TaskInv /\ CopyInv)'
  BY CopiesStep, TypesStep, RequestsStep, AdminsToldStep, TrackersStep DEF TaskInv
<1> QED
  BY TaskInit, <1>1, <1>2, PTL DEF Spec

\* At rest memory and MongoDB tell the same of a task that no administrator wrote while it
\* ran and of which no MongoDB write failed: GET /tasks/{id}/status may be answered from either.
THEOREM CopiesAgree == Spec => []CopiesAgreeAtRest
<1>1. TaskInv /\ CopyInv => CopiesAgreeAtRest
  <2> SUFFICES ASSUME TaskInv, CopyInv, NEW t \in Tasks, job[t].at = "ended", t \notin touched \cup lost,
                      mem[t] # NoEntry, \A a \in Admins : admin[a].op = "idle"
               PROVE  doc[t] # NoEntry /\ doc[t].status = mem[t].status /\ doc[t].progress = mem[t].progress
    BY DEF CopiesAgreeAtRest
  <2> QED
    BY DEF CopyInv, CopiesOK, Clean
<1> QED
  BY CopiesInductive, <1>1, PTL

===============================================================================
