------------------------------ MODULE AgentGraph ------------------------------
(***************************************************************************)
(* One run of the LLM agent graph: sinoquant/graph/setup.py builds it,     *)
(* conditional_logic.py routes it, sinoquant/agents/ holds its nodes and   *)
(* SinaQuantGraph.propagate consumes its stream.                           *)
(*                                                                         *)
(* LangGraph runs the graph in supersteps. The nodes of a superstep all    *)
(* read the state the last one left; each finishes when it likes and its   *)
(* update is streamed to the caller at once; when all have finished their  *)
(* updates are applied in the order of the node names and the nodes their  *)
(* edges point to form the next superstep. A node that several edges point *)
(* to runs once. (The library is external; this is how it is used here.)   *)
(*                                                                         *)
(* An LLM's answer is any answer; texts are abstracted to what the routing *)
(* looks at: is a report longer than 100 characters, does the last message *)
(* ask for a tool, who spoke last.                                         *)
(***************************************************************************)
EXTENDS Naturals, FiniteSets

CONSTANTS Setups,        \* the graphs that may be built, see SetupType
          MaxRecurLimit, \* LangGraph's recursion_limit: supersteps allowed
          NoPlan         \* marks a plan, trade or decision not made yet

Analysts == {"market", "social", "news", "fundamentals"}

(* The rounds that each research depth (1 = fast, 5 = full) configures. *)
DebateRounds == [depth \in 1 .. 5 |-> IF depth <= 3 THEN 1 ELSE depth - 2]
RiskRounds == [depth \in 1 .. 5 |-> IF depth <= 2 THEN 1 ELSE IF depth <= 4 THEN 2 ELSE 3]

(* SinaQuantGraph(selected_analysts, config), and whether propagate gets a *)
(* progress callback.                                                      *)
SetupType == [analysts : (SUBSET Analysts) \ {{}}, depth : 1 .. 5, callback : BOOLEAN]

ASSUME GraphAssumption == /\ Setups \subseteq SetupType
                          /\ MaxRecurLimit \in Nat \ {0}   \* LangGraph refuses 0

VARIABLES
    setup,    \* which graph this is
    state,    \* AgentState: what the nodes of this superstep read
    running,  \* the nodes of this superstep that have not finished
    writes,   \* the updates of those that have
    next,     \* the nodes their edges point to
    step,     \* supersteps finished
    final,    \* final_state of propagate: the updates as they were streamed
    messages, \* AgentState's messages, the one key with a reducer: who posted
    posted,   \* who posted in this superstep
    reply,    \* final_state's messages
    outcome   \* "running", "done", "raised" or "recursion"

talk == <<messages, posted, reply>>
vars == <<setup, state, running, writes, next, step, final, talk, outcome>>

-----------------------------------------------------------------------------
(* Nodes, with the names of setup_graph (_ for a blank), and keys of the   *)
(* state                                                                   *)

AnalystNode == [market |-> "Market_Analyst", social |-> "Social_Analyst",
                news |-> "News_Analyst", fundamentals |-> "Fundamentals_Analyst"]
ToolsNode == [market |-> "tools_market", social |-> "tools_social",
              news |-> "tools_news", fundamentals |-> "tools_fundamentals"]
ClearNode == [market |-> "Msg_Clear_Market", social |-> "Msg_Clear_Social",
              news |-> "Msg_Clear_News", fundamentals |-> "Msg_Clear_Fundamentals"]
AnalystNodes == {AnalystNode[a] : a \in Analysts}
ToolsNodes == {ToolsNode[a] : a \in Analysts}
ClearNodes == {ClearNode[a] : a \in Analysts}
Owner(n) == CHOOSE a \in Analysts : n \in {AnalystNode[a], ToolsNode[a], ClearNode[a]}

Researchers == {"Bull_Researcher", "Bear_Researcher"}
RiskDebators == {"Risky_Analyst", "Safe_Analyst", "Neutral_Analyst"}
Nodes == AnalystNodes \cup ToolsNodes \cup ClearNodes \cup Researchers \cup RiskDebators
         \cup {"Research_Manager", "Trader", "Risk_Judge"}

(* The writers of each debate state in the order of their names. *)
WriteOrder == [n \in Researchers \cup RiskDebators \cup {"Research_Manager", "Risk_Judge"} |->
               CASE n \in {"Bear_Researcher", "Neutral_Analyst"} -> 1
                 [] n \in {"Bull_Researcher", "Risk_Judge"} -> 2
                 [] n \in {"Research_Manager", "Risky_Analyst"} -> 3
                 [] OTHER -> 4]

(* AgentState by key. An analyst's key holds its report, its tool counter  *)
(* and whether its last message asks for tools. A debate holds its counter,*)
(* the last speaker and how often each side speaks in its history. "plan", *)
(* "trade" and "decision" record what each was made from. (The messages    *)
(* are variables of their own, and sender goes with the trade.)            *)
Texts == {"short", "full"}
AnalystState == [report : Texts \cup {""}, calls : Nat, asks : BOOLEAN]
InvestDebateState == [count : Nat, speaker : {"", "Bull", "Bear", "Manager"},
                      bull : Nat, bear : Nat]
RiskDebateState == [count : Nat, speaker : {"", "Risky", "Safe", "Neutral", "Judge"},
                    risky : Nat, safe : Nat, neutral : Nat]
Plans == [reports : [Analysts -> AnalystState], heard : InvestDebateState]
Decisions == [plan : Plans, heard : RiskDebateState]

Keys == Analysts \cup {"debate", "risk", "plan", "trade", "decision"}

(* Propagator.create_initial_state *)
InitialState ==
    [k \in Keys |->
       CASE k \in Analysts -> [report |-> "", calls |-> 0, asks |-> FALSE]
         [] k = "debate" -> [count |-> 0, speaker |-> "", bull |-> 0, bear |-> 0]
         [] k = "risk" -> [count |-> 0, speaker |-> "", risky |-> 0, safe |-> 0, neutral |-> 0]
         [] OTHER -> NoPlan]

Init ==
    /\ setup \in Setups
    /\ state = InitialState
    /\ final = InitialState
    /\ running = {AnalystNode[a] : a \in setup.analysts}   \* START -> each analyst
    /\ writes = <<>>
    /\ next = {}
    /\ step = 0
    /\ messages = {"START"} /\ reply = {"START"}          \* the user's request
    /\ posted = {}
    /\ outcome = "running"

-----------------------------------------------------------------------------
(* ConditionalLogic: the routes, and the edges of setup_graph *)

(* should_continue_market, _social and _news: three tool calls at most, or *)
(* a report, or no tool asked for end an analyst's work.                   *)
ShouldContinueAnalyst(a, s) ==
    IF s[a].calls < 3 /\ s[a].report # "full" /\ s[a].asks
    THEN ToolsNode[a]
    ELSE ClearNode[a]

(* should_continue_fundamentals allows one tool call. *)
ShouldContinueFundamentals(s) ==
    LET f == s["fundamentals"] IN
    IF f.report # "full" /\ f.asks /\ f.calls < 1
    THEN ToolsNode["fundamentals"]
    ELSE ClearNode["fundamentals"]

\* Mutant of ShouldContinueDebate: no bound on the debate.
EndlessDebate(s) ==
    IF s["debate"].speaker = "Bull" THEN "Bear_Researcher" ELSE "Bull_Researcher"

ShouldContinueDebate(s) ==
    IF s["debate"].count >= 2 * DebateRounds[setup.depth] THEN "Research_Manager"
    ELSE IF s["debate"].speaker = "Bull" THEN "Bear_Researcher" ELSE "Bull_Researcher"

\* Mutant of ShouldContinueRiskAnalysis: the judge is registered as "Risk_Judge",
\* its factory is create_risk_manager.
RouteToRiskManager(s) ==
    IF s["risk"].count >= 3 * RiskRounds[setup.depth] THEN "Risk_Manager"
    ELSE CASE s["risk"].speaker = "Risky" -> "Safe_Analyst"
           [] s["risk"].speaker = "Safe" -> "Neutral_Analyst"
           [] OTHER -> "Risky_Analyst"

\* Mutant of ShouldContinueRiskAnalysis: two speeches a round, as in the debate.
ShortRiskDiscussion(s) ==
    IF s["risk"].count >= 2 * RiskRounds[setup.depth] THEN "Risk_Judge"
    ELSE CASE s["risk"].speaker = "Risky" -> "Safe_Analyst"
           [] s["risk"].speaker = "Safe" -> "Neutral_Analyst"
           [] OTHER -> "Risky_Analyst"

ShouldContinueRiskAnalysis(s) ==
    IF s["risk"].count >= 3 * RiskRounds[setup.depth] THEN "Risk_Judge"
    ELSE CASE s["risk"].speaker = "Risky" -> "Safe_Analyst"
           [] s["risk"].speaker = "Safe" -> "Neutral_Analyst"
           [] OTHER -> "Risky_Analyst"

(* The edges. Each Msg Clear node has an edge of its own to the bull       *)
(* researcher, which therefore runs after any of them, not after all.      *)
Successors(n, s) ==
    CASE n = AnalystNode["fundamentals"] -> {ShouldContinueFundamentals(s)}
      [] n \in AnalystNodes \ {AnalystNode["fundamentals"]} -> {ShouldContinueAnalyst(Owner(n), s)}
      [] n \in ToolsNodes -> {AnalystNode[Owner(n)]}
      [] n \in ClearNodes -> {"Bull_Researcher"}
      [] n \in Researchers -> {ShouldContinueDebate(s)}
      [] n = "Research_Manager" -> {"Trader"}
      [] n = "Trader" -> {"Risky_Analyst"}
      [] n \in RiskDebators -> {ShouldContinueRiskAnalysis(s)}
      [] n = "Risk_Judge" -> {}

-----------------------------------------------------------------------------
(* The nodes *)

(* A node returns an update: a value for each key it writes, for some of   *)
(* them none. Over(update, s) is s with the update applied.                *)
Only(k, v) == [key \in {k} |-> v]
Over(update, s) == [k \in DOMAIN update \cup DOMAIN s |->
                      IF k \in DOMAIN update THEN update[k] ELSE s[k]]

(* What a node returns for "messages": nothing, or a list, which it may    *)
(* leave empty.                                                            *)
Silent == <<>>
Posts(S) == Only("messages", S)

\* Mutant of Finish: propagate keeps the first decision it is sent.
FinishKeepsDecision(n, update, post) ==
    /\ outcome = "running" /\ setup.callback
    /\ n \in running
    /\ running' = running \ {n}
    /\ writes' = Over(Only(n, update), writes)
    /\ next' = next \cup Successors(n, Over(update, state))
    /\ final' = IF final["decision"] = NoPlan THEN Over(update, final) ELSE final
    /\ posted' = posted \cup UNION {post[k] : k \in DOMAIN post}
    /\ reply' = IF DOMAIN post = {} THEN reply ELSE post["messages"]
    /\ UNCHANGED <<setup, state, step, messages, outcome>>

(* A node finishes: its update waits in writes for the end of the superstep*)
(* and is streamed to propagate, which puts it into final_state, where the *)
(* messages of one node replace those of the others. Its edges are         *)
(* evaluated in the state it read with its own update applied.             *)
Finish(n, update, post) ==
    /\ outcome = "running" /\ setup.callback
    /\ n \in running
    /\ running' = running \ {n}
    /\ writes' = Over(Only(n, update), writes)
    /\ next' = next \cup Successors(n, Over(update, state))
    /\ final' = Over(update, final)
    /\ posted' = posted \cup UNION {post[k] : k \in DOMAIN post}
    /\ reply' = IF DOMAIN post = {} THEN reply ELSE post["messages"]
    /\ UNCHANGED <<setup, state, step, messages, outcome>>

(* What an analyst's node may return on each of its paths: any report,     *)
(* whether its last message asks for tools, whether it counted a call,     *)
(* whether it posts a message at all.                                      *)
Answer(asks, counts) == [report : Texts, asks : asks, counts : counts, posts : {TRUE}]
NoMessage(counts) == [report : Texts, asks : {FALSE}, counts : counts, posts : {FALSE}]

MarketGoogle == Answer(BOOLEAN, {1})      \* the LLM's first message is kept
MarketPlain == Answer({FALSE}, {1})       \* the LLM asked for no tool
MarketWithTools == Answer({FALSE}, {1})   \* tools run, then a report without tools
MarketFailed == Answer({TRUE}, {1})       \* the first message stays the last
SocialGoogle == Answer(BOOLEAN, {1})
SocialWithTools == Answer({FALSE}, {1})
SocialFailed == Answer({TRUE}, {1})
NewsPrefetched == Answer({FALSE}, {1})    \* always a clean message
NewsForced == Answer({FALSE}, {1})
NewsWithTools == Answer({FALSE}, {1})
FundamentalsGoogle == NoMessage({0})
FundamentalsWithTools == Answer({FALSE}, {1})
FundamentalsFromHistory == Answer({FALSE}, {0})
FundamentalsForced == NoMessage({0})

Answers ==
    [market |-> MarketGoogle \cup MarketPlain \cup MarketWithTools \cup MarketFailed,
     social |-> SocialGoogle \cup SocialWithTools \cup SocialFailed,
     news |-> NewsPrefetched \cup NewsForced \cup NewsWithTools,
     fundamentals |-> FundamentalsGoogle \cup FundamentalsWithTools
                      \cup FundamentalsFromHistory \cup FundamentalsForced]

Analyst(a) ==
    \E answer \in Answers[a] :
       Finish(AnalystNode[a], Only(a, [report |-> answer.report, asks |-> answer.asks,
                                       calls |-> state[a].calls + answer.counts]),
              IF answer.posts THEN Posts({AnalystNode[a]}) ELSE Silent)

(* The ToolNode of an analyst adds the answers of its tools, none when the *)
(* last AI message is another analyst's and asks for none; Msg Clear adds  *)
(* a placeholder and, despite its name, removes nothing.                   *)
RunTools(a) ==
    \E answered \in {{}, {ToolsNode[a]}} : Finish(ToolsNode[a], <<>>, Posts(answered))
MsgClear(a) == Finish(ClearNode[a], <<>>, Posts({ClearNode[a]}))

\* Mutant of BullSpeaks: the bull researcher without its guard.
BullUnguarded ==
    LET d == state["debate"] IN
    Finish("Bull_Researcher",
           Only("debate", [d EXCEPT !.count = @ + 1, !.speaker = "Bull", !.bull = @ + 1]),
           Silent)

(* bull_node and bear_node return the debate as it is once the bound is    *)
(* reached.                                                                *)
DebateOver(d) == d.count >= 2 * DebateRounds[setup.depth]

BullSpeaks ==
    LET d == state["debate"] IN
    Finish("Bull_Researcher",
           Only("debate", IF DebateOver(d) THEN d
                          ELSE [d EXCEPT !.count = @ + 1, !.speaker = "Bull", !.bull = @ + 1]),
           Silent)

BearSpeaks ==
    LET d == state["debate"] IN
    Finish("Bear_Researcher",
           Only("debate", IF DebateOver(d) THEN d
                          ELSE [d EXCEPT !.count = @ + 1, !.speaker = "Bear", !.bear = @ + 1]),
           Silent)

\* Mutant of ResearchManager: a plan that is there is not made again.
ResearchManagerOnce ==
    LET made == [reports |-> [a \in Analysts |-> state[a]], heard |-> state["debate"]]
        plan == IF state["plan"] = NoPlan THEN made ELSE state["plan"]
    IN Finish("Research_Manager",
              Over(Only("debate", [state["debate"] EXCEPT !.speaker = "Manager"]),
                   Only("plan", plan)),
              Silent)

(* research_manager_node makes the plan from the reports and the debate. *)
ResearchManager ==
    LET plan == [reports |-> [a \in Analysts |-> state[a]], heard |-> state["debate"]]
    IN Finish("Research_Manager",
              Over(Only("debate", [state["debate"] EXCEPT !.speaker = "Manager"]),
                   Only("plan", plan)),
              Silent)

(* trader_node: the trade, and the structured decision extracted from it,  *)
(* follow the plan it reads.                                               *)
Trader == Finish("Trader", Only("trade", state["plan"]), Posts({"Trader"}))

(* risky_node, safe_node and neutral_node: unlike the researchers they     *)
(* always speak.                                                           *)
Speech(who) == [state["risk"] EXCEPT !.count = @ + 1, !.speaker = who]
RiskySpeaks ==
    Finish("Risky_Analyst", Only("risk", [Speech("Risky") EXCEPT !.risky = @ + 1]), Silent)
SafeSpeaks ==
    Finish("Safe_Analyst", Only("risk", [Speech("Safe") EXCEPT !.safe = @ + 1]), Silent)
NeutralSpeaks ==
    Finish("Neutral_Analyst", Only("risk", [Speech("Neutral") EXCEPT !.neutral = @ + 1]), Silent)

(* risk_manager_node: it reads investment_plan, not the trader's plan, and *)
(* has a default decision for when the LLM fails three times.              *)
RiskJudge ==
    Finish("Risk_Judge",
           Over(Only("risk", [state["risk"] EXCEPT !.speaker = "Judge"]),
                Only("decision", [plan |-> state["plan"], heard |-> state["risk"]])),
           Silent)

(* An LLM call (or the ToolNode, when the last message of the shared list  *)
(* is no AI message) raises, and propagate with it. The judge catches, and *)
(* Msg Clear calls nothing.                                                *)
NodeRaises(n) ==
    /\ outcome = "running" /\ setup.callback
    /\ n \in running \ (ClearNodes \cup {"Risk_Judge"})
    /\ outcome' = "raised"
    /\ UNCHANGED <<setup, state, running, writes, next, step, final, talk>>

(* Without a callback the stream is in values mode and its first chunk is  *)
(* the state, which the loop takes for updates by node: final_state.update *)
(* of a message list raises.                                               *)
ValuesChunk ==
    /\ outcome = "running" /\ ~setup.callback
    /\ outcome' = "raised"
    /\ UNCHANGED <<setup, state, running, writes, next, step, final, talk>>

-----------------------------------------------------------------------------
(* The end of a superstep: LangGraph applies the updates and plans the next *)

Written == UNION {DOMAIN writes[n] : n \in DOMAIN writes}

LastWriter(k) ==
    LET W == {n \in DOMAIN writes : k \in DOMAIN writes[n]}
    IN CHOOSE n \in W : \A m \in W \ {n} : WriteOrder[m] < WriteOrder[n]

Superstep ==
    /\ outcome = "running" /\ setup.callback
    /\ running = {}
    /\ state' = [k \in Keys |-> IF k \in Written THEN writes[LastWriter(k)][k] ELSE state[k]]
    /\ step' = step + 1
    /\ running' = next
    /\ next' = {}
    /\ writes' = <<>>
    /\ messages' = messages \cup posted   \* add_messages
    /\ posted' = {}
    /\ outcome' = IF next = {} THEN "done"
                  ELSE IF step' >= MaxRecurLimit THEN "recursion" ELSE "running"
    /\ UNCHANGED <<setup, final, reply>>

(* What propagate returns as the decision: the trader's structured one. *)
StructuredDecision == final["trade"]

Node ==
    \/ \E a \in Analysts : Analyst(a) \/ RunTools(a) \/ MsgClear(a)
    \/ BullSpeaks \/ BearSpeaks \/ ResearchManager
    \/ Trader
    \/ RiskySpeaks \/ SafeSpeaks \/ NeutralSpeaks \/ RiskJudge

Next == Node \/ Superstep \/ ValuesChunk \/ \E n \in Nodes : NodeRaises(n)

Spec == Init /\ [][Next]_vars

(* Every LLM call has a timeout, so each node finishes or raises, and the  *)
(* LangGraph loop goes on until nothing is left to run.                    *)
FairSpec == Spec /\ WF_vars(Node) /\ WF_vars(Superstep) /\ WF_vars(ValuesChunk)

-----------------------------------------------------------------------------
(* Properties *)

TypeOK ==
    /\ setup \in Setups
    /\ \A s \in {state, final} :
          /\ DOMAIN s = Keys
          /\ \A a \in Analysts : s[a] \in AnalystState
          /\ s["debate"] \in InvestDebateState
          /\ s["risk"] \in RiskDebateState
          /\ \A k \in {"plan", "trade"} : s[k] = NoPlan \/ s[k] \in Plans
          /\ s["decision"] = NoPlan \/ s["decision"] \in Decisions
    /\ running \subseteq Nodes
    /\ next \subseteq Nodes
    /\ DOMAIN writes \subseteq Nodes
    /\ messages \cup posted \cup reply \subseteq Nodes \cup {"START"}
    /\ step \in 0 .. MaxRecurLimit
    /\ outcome \in {"running", "done", "raised", "recursion"}

(* conditional_logic.py:32-33: each side speaks max_debate_rounds times     *)
(* before the research manager decides. The debate may be started several  *)
(* times, while it runs or after its end; still no speech is lost, added   *)
(* or overwritten.                                                         *)
BothSidesHeard ==
    state["plan"] # NoPlan =>
        /\ state["plan"].heard.bull = DebateRounds[setup.depth]
        /\ state["plan"].heard.bear = DebateRounds[setup.depth]

(* The plan, the trade and the decision a finished run returns all come    *)
(* from the analysts' last reports, although earlier ones were made while  *)
(* an analyst was still at work.                                           *)
FinalUsesEveryReport ==
    outcome = "done" =>
        /\ final["decision"].plan = final["plan"]
        /\ StructuredDecision = final["plan"]
        /\ \A a \in Analysts : final["plan"].reports[a] = final[a]
        /\ \A a \in setup.analysts : final[a].report # ""

(* propagate keeps its own copy of the state, which it updates in the order*)
(* in which nodes finish, while the graph applies updates in the order of  *)
(* names. When the run is over the two agree on every key but one: of the  *)
(* conversation, where the graph has the request, every analyst's branch   *)
(* and the trader, the caller is left with the trader's message alone.     *)
CallerAgrees ==
    outcome = "done" =>
        /\ final = state
        /\ {"START", "Trader"} \cup {ClearNode[a] : a \in setup.analysts} \subseteq messages
        /\ reply = {"Trader"}

(* The risk judge never decides on fewer than three speeches a round. *)
JudgeHearsEnough ==
    state["decision"] # NoPlan =>
        LET h == state["decision"].heard IN
        h.risky + h.safe + h.neutral >= 3 * RiskRounds[setup.depth]

(* Every run ends with a decision or an exception of a node: no tool loop  *)
(* or debate goes on until LangGraph's recursion limit stops it            *)
(* (propagation.py:30 says it is enough).                                  *)
WorkflowEnds == <>(outcome \in {"done", "raised"})

(* conditional_logic.py:35-36: each of the three risk analysts speaks      *)
(* max_risk_discuss_rounds times before the judge decides. (They do not    *)
(* when the debate started twice: two of them speak in one superstep and   *)
(* the update applied last drops the other's speech.)                      *)
RiskVoicesHeard ==
    state["decision"] # NoPlan =>
        LET h == state["decision"].heard IN
        {h.risky, h.safe, h.neutral} = {RiskRounds[setup.depth]}

=============================================================================
