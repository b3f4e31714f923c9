-------------------------- MODULE AgentGraphProofs --------------------------
(***************************************************************************)
(* What holds of AgentGraph for every choice of analysts, every research   *)
(* depth and every recursion limit:                                        *)
(*                                                                         *)
(*   AgentInductive   the invariant AgentInv below is inductive;           *)
(*   AgentTypes       type correctness;                                    *)
(*   DebateIsWhole    BothSidesHeard;                                      *)
(*   JudgeWaits       JudgeHearsEnough;                                    *)
(*   CallerKeepsUp    CallerAgrees;                                        *)
(*   NoStaleReport    FinalUsesEveryReport.                                *)
(*                                                                         *)
(* The nodes of a superstep read one state, so what each of them may write *)
(* is a function of it (Wrote), whatever the order in which they finish.   *)
(* GraphInv relates the state to the nodes that read it (Active); it is    *)
(* disturbed by the end of a superstep alone.  FinalOK and, for the        *)
(* messages, TalkOK relate the state to the copy of propagate; they are    *)
(* disturbed by every node.                                                *)
(***************************************************************************)
EXTENDS AgentGraph, TLAPS

-----------------------------------------------------------------------------
(* The inductive invariant.                                                *)

\* The nodes of this superstep, which all read the same state.
Active == running \cup DOMAIN writes

\* The phases of the graph.  Whatever happens in the first leads to a plan.
Early == AnalystNodes \cup ToolsNodes \cup ClearNodes \cup Researchers \cup {"Research_Manager"}
Later == {"Trader", "Risk_Judge"} \cup RiskDebators

\* Analysts and the bull researcher run in one superstep, tools, message clearing
\* and the bear researcher in the next: the two researchers never meet.
Evens == AnalystNodes \cup {"Bull_Researcher"}
Odds == ToolsNodes \cup ClearNodes \cup {"Bear_Researcher"}

Rounds == DebateRounds[setup.depth]

\* Both sides have spoken equally often, or it is the bear's turn.
DebateOK ==
  LET d == state["debate"]
  IN  /\ d.count = d.bull + d.bear /\ d.count <= 2 * Rounds
      /\ "Bear_Researcher" \in Active => d.bull = d.bear + 1
      /\ "Bear_Researcher" \notin Active => d.bull = d.bear
      /\ "Research_Manager" \in Active => d.count = 2 * Rounds

InPhase ==
  \/ Active \cap Evens = {}
  \/ Active \cap Odds = {}

RiskOK ==
  LET r == state["risk"]
  IN  /\ r.count = r.risky + r.safe + r.neutral
      /\ "Risk_Judge" \in Active => r.count >= 3 * RiskRounds[setup.depth]

PlanMade == Active \cap Later # {} => state["plan"] \in Plans

\* What is stale is about to be made again.
ReportsUsed ==
  \/ Active \cap Early # {}
  \/ \A a \in Analysts : state["plan"].reports[a] = state[a]
TradeFollows ==
  \/ Active \cap (Early \cup {"Trader"}) # {}
  \/ state["trade"] = state["plan"]
DecisionFollows == Active # {} \/ state["decision"].plan = state["plan"]
AnalystsReport ==
  \A a \in setup.analysts : AnalystNode[a] \in Active \/ state[a].report # ""

\* What holds of the state and the nodes that read it.
GraphInv ==
  /\ DebateOK /\ InPhase /\ RiskOK /\ PlanMade
  /\ ReportsUsed /\ TradeFollows /\ DecisionFollows /\ AnalystsReport
  /\ BothSidesHeard /\ JudgeHearsEnough

\* The updates that a node may have returned.

Wrote(n, u) ==
  /\ \A a \in Analysts : n = AnalystNode[a] =>
       DOMAIN u = {a} /\ u[a] \in AnalystState /\ u[a].report # ""
  /\ n \in ToolsNodes \cup ClearNodes => DOMAIN u = {}
  /\ n \in Researchers =>
       /\ DOMAIN u = {"debate"} /\ u["debate"] \in InvestDebateState
       /\ LET d == state["debate"]
              e == u["debate"]
          IN  IF DebateOver(d) THEN e = d
              ELSE /\ e.count = d.count + 1
                   /\ n = "Bull_Researcher" =>
                        e.speaker = "Bull" /\ e.bull = d.bull + 1 /\ e.bear = d.bear
                   /\ n = "Bear_Researcher" =>
                        e.speaker = "Bear" /\ e.bull = d.bull /\ e.bear = d.bear + 1
  /\ n = "Research_Manager" =>
       /\ DOMAIN u = {"debate", "plan"} /\ u["debate"] \in InvestDebateState
       /\ LET d == state["debate"]
              e == u["debate"]
          IN  e.count = d.count /\ e.bull = d.bull /\ e.bear = d.bear
       /\ u["plan"] \in Plans
       /\ u["plan"].heard = state["debate"]
       /\ \A a \in Analysts : u["plan"].reports[a] = state[a]
  /\ n = "Trader" => DOMAIN u = {"trade"} /\ u["trade"] = state["plan"]
  /\ n \in RiskDebators =>
       /\ DOMAIN u = {"risk"} /\ u["risk"] \in RiskDebateState
       /\ LET r == state["risk"]
              e == u["risk"]
          IN  /\ e.count = r.count + 1
              /\ e.risky + e.safe + e.neutral = r.risky + r.safe + r.neutral + 1
  /\ n = "Risk_Judge" =>
       /\ DOMAIN u = {"risk", "decision"} /\ u["risk"] \in RiskDebateState
       /\ LET r == state["risk"]
              e == u["risk"]
          IN  e.count = r.count /\ e.risky = r.risky /\ e.safe = r.safe /\ e.neutral = r.neutral
       /\ u["decision"] \in Decisions
       /\ u["decision"].plan = state["plan"] /\ u["decision"].heard = state["risk"]

WritesOK ==
  /\ running \cap DOMAIN writes = {}
  /\ \A n \in DOMAIN writes : Wrote(n, writes[n])
  /\ \A n \in DOMAIN writes : Successors(n, Over(writes[n], state)) \subseteq next
  /\ \A m \in next : \E n \in DOMAIN writes : m \in Successors(n, Over(writes[n], state))

\* final_state holds what was written to the key k last, or the key will be
\* written again.
Current(k) ==
  /\ \A n \in DOMAIN writes : k \in DOMAIN writes[n] => final[k] = writes[n][k]
  /\ k \notin Written => final[k] = state[k]
Owed(k) ==
  \/ k = "debate" /\ "Research_Manager" \in running \cup next
  \/ k = "risk" /\ (running \cup next) \cap (RiskDebators \cup {"Risk_Judge"}) # {}
FinalOK == \A k \in Keys : Current(k) \/ Owed(k)

Functional(s) == s = [k \in Keys |-> s[k]]

OutcomeOK ==
  /\ outcome = "running" => step < MaxRecurLimit
  /\ outcome = "done" => Active = {} /\ next = {}

GraphTypes == TypeOK /\ Functional(state) /\ Functional(final) /\ OutcomeOK

\* What a node may return for the messages.
MayPost(n, post) ==
  /\ DOMAIN post \subseteq {"messages"}
  /\ \A k \in DOMAIN post : post[k] \subseteq {n}
  /\ n \in ClearNodes \cup {"Trader"} => "messages" \in DOMAIN post /\ post["messages"] = {n}
  /\ n \in RiskDebators \cup {"Risk_Judge"} => DOMAIN post = {}

\* The trader posts last, and every analyst's branch ends with a message.
TalkOK ==
  /\ "START" \in messages /\ posted \subseteq DOMAIN writes /\ reply \subseteq messages \cup posted
  /\ reply = {"Trader"} \/ (running \cup next) \cap (Early \cup {"Trader"}) # {}
  /\ \A a \in setup.analysts :
       \/ ClearNode[a] \in messages \cup posted
       \/ (running \cup next) \cap {AnalystNode[a], ToolsNode[a], ClearNode[a]} # {}

AgentInv == GraphTypes /\ GraphInv /\ WritesOK /\ FinalOK /\ TalkOK

-----------------------------------------------------------------------------
(* The graph: names, edges, and which node writes which key.               *)

\* The names of the analysts' nodes.
LEMMA NodeNames ==
  /\ AnalystNode["market"] = "Market_Analyst" /\ AnalystNode["social"] = "Social_Analyst"
  /\ AnalystNode["news"] = "News_Analyst"
  /\ AnalystNode["fundamentals"] = "Fundamentals_Analyst"
  /\ ToolsNode["market"] = "tools_market" /\ ToolsNode["social"] = "tools_social"
  /\ ToolsNode["news"] = "tools_news" /\ ToolsNode["fundamentals"] = "tools_fundamentals"
  /\ ClearNode["market"] = "Msg_Clear_Market" /\ ClearNode["social"] = "Msg_Clear_Social"
  /\ ClearNode["news"] = "Msg_Clear_News"
  /\ ClearNode["fundamentals"] = "Msg_Clear_Fundamentals"
BY DEF AnalystNode, ToolsNode, ClearNode

\* The sets of nodes, spelled out.
LEMMA NodeSets ==
  /\ AnalystNodes = {"Market_Analyst", "Social_Analyst", "News_Analyst", "Fundamentals_Analyst"}
  /\ ToolsNodes = {"tools_market", "tools_social", "tools_news", "tools_fundamentals"}
  /\ ClearNodes = {"Msg_Clear_Market", "Msg_Clear_Social", "Msg_Clear_News",
                   "Msg_Clear_Fundamentals"}
<1>1. AnalystNodes = {"Market_Analyst", "Social_Analyst", "News_Analyst", "Fundamentals_Analyst"}
  BY NodeNames DEF AnalystNodes, Analysts
<1>2. ToolsNodes = {"tools_market", "tools_social", "tools_news", "tools_fundamentals"}
  BY NodeNames DEF ToolsNodes, Analysts
<1>3. ClearNodes = {"Msg_Clear_Market", "Msg_Clear_Social", "Msg_Clear_News",
                    "Msg_Clear_Fundamentals"}
  BY NodeNames DEF ClearNodes, Analysts
<1> QED BY <1>1, <1>2, <1>3

\* The nodes of an analyst, and no node is of two kinds.
LEMMA Kinds ==
  /\ \A a \in Analysts :
       AnalystNode[a] \in AnalystNodes /\ ToolsNode[a] \in ToolsNodes /\ ClearNode[a] \in ClearNodes
  /\ \A n \in AnalystNodes : \E a \in Analysts : n = AnalystNode[a]
  /\ \A n \in ToolsNodes : \E a \in Analysts : n = ToolsNode[a]
  /\ \A n \in ClearNodes : \E a \in Analysts : n = ClearNode[a]
  /\ AnalystNode["fundamentals"] \in AnalystNodes
  /\ AnalystNodes \cap ToolsNodes = {} /\ AnalystNodes \cap ClearNodes = {}
  /\ ToolsNodes \cap ClearNodes = {}
  /\ \A n \in Researchers \cup RiskDebators \cup {"Research_Manager", "Trader", "Risk_Judge"} :
       n \notin AnalystNodes \cup ToolsNodes \cup ClearNodes
  /\ Researchers \cap RiskDebators = {}
  /\ \A n \in {"Research_Manager", "Trader", "Risk_Judge"} : n \notin Researchers \cup RiskDebators
<1>1. /\ \A a \in Analysts : AnalystNode[a] \in AnalystNodes /\ ToolsNode[a] \in ToolsNodes
                             /\ ClearNode[a] \in ClearNodes
      /\ \A n \in AnalystNodes : \E a \in Analysts : n = AnalystNode[a]
      /\ \A n \in ToolsNodes : \E a \in Analysts : n = ToolsNode[a]
      /\ \A n \in ClearNodes : \E a \in Analysts : n = ClearNode[a]
      /\ AnalystNode["fundamentals"] \in AnalystNodes
  BY DEF AnalystNodes, ToolsNodes, ClearNodes, Analysts
<1>2. /\ AnalystNodes \cap ToolsNodes = {} /\ AnalystNodes \cap ClearNodes = {}
      /\ ToolsNodes \cap ClearNodes = {}
  BY NodeSets
<1>3. \A n \in Researchers \cup RiskDebators \cup {"Research_Manager", "Trader", "Risk_Judge"} :
        n \notin AnalystNodes \cup ToolsNodes \cup ClearNodes
  BY NodeSets DEF Researchers, RiskDebators
<1>4. /\ Researchers \cap RiskDebators = {}
      /\ \A n \in {"Research_Manager", "Trader", "Risk_Judge"} : n \notin Researchers \cup RiskDebators
  BY DEF Researchers, RiskDebators
<1> QED BY <1>1, <1>2, <1>3, <1>4

\* No node is of two analysts.
LEMMA NodesOfTwo ==
  ASSUME NEW a \in Analysts, NEW b \in Analysts, a # b,
         NEW n \in {AnalystNode[a], ToolsNode[a], ClearNode[a]}
  PROVE  n \notin {AnalystNode[b], ToolsNode[b], ClearNode[b]}
BY NodeNames DEF Analysts

\* Each of an analyst's three nodes belongs to it.
LEMMA Owners ==
  ASSUME NEW a \in Analysts
  PROVE  Owner(AnalystNode[a]) = a /\ Owner(ToolsNode[a]) = a /\ Owner(ClearNode[a]) = a
<1>1. ASSUME NEW n \in {AnalystNode[a], ToolsNode[a], ClearNode[a]} PROVE Owner(n) = a
  BY <1>1, NodesOfTwo DEF Owner
<1> QED BY <1>1

\* An analyst asks for its tools or is done.
LEMMA AnalystEdge ==
  ASSUME NEW a \in Analysts, NEW s
  PROVE  Successors(AnalystNode[a], s) \in {{ToolsNode[a]}, {ClearNode[a]}}
<1>1. CASE a = "fundamentals"
  <2>1. Successors(AnalystNode["fundamentals"], s) = {ShouldContinueFundamentals(s)}
    BY Kinds DEF Successors
  <2>2. ShouldContinueFundamentals(s) \in {ToolsNode["fundamentals"], ClearNode["fundamentals"]}
    BY DEF ShouldContinueFundamentals
  <2> QED BY <1>1, <2>1, <2>2
<1>2. CASE a # "fundamentals"
  <2>1. AnalystNode[a] \in AnalystNodes \ {AnalystNode["fundamentals"]}
    <3>1. "fundamentals" \in Analysts
      BY DEF Analysts
    <3> QED BY <1>2, <3>1, Kinds, NodesOfTwo
  <2>2. Successors(AnalystNode[a], s) = {ShouldContinueAnalyst(Owner(AnalystNode[a]), s)}
    BY <2>1, Kinds DEF Successors
  <2>3. ShouldContinueAnalyst(a, s) \in {ToolsNode[a], ClearNode[a]}
    BY DEF ShouldContinueAnalyst
  <2> QED BY <2>2, <2>3, Owners
<1> QED BY <1>1, <1>2

\* The tools go back to their analyst.
LEMMA ToolsEdge ==
  ASSUME NEW a \in Analysts, NEW s
  PROVE  Successors(ToolsNode[a], s) = {AnalystNode[a]}
<1>1. /\ ToolsNode[a] \in ToolsNodes /\ ToolsNode[a] \notin AnalystNodes
      /\ ToolsNode[a] # AnalystNode["fundamentals"]
  BY Kinds
<1>2. Successors(ToolsNode[a], s) = {AnalystNode[Owner(ToolsNode[a])]}
  BY <1>1, Kinds DEF Successors
<1> QED BY <1>2, Owners

\* Clearing the messages starts the debate.
LEMMA ClearEdge ==
  ASSUME NEW n \in ClearNodes, NEW s
  PROVE  Successors(n, s) = {"Bull_Researcher"}
<1>1. /\ n \notin AnalystNodes /\ n \notin ToolsNodes /\ n # AnalystNode["fundamentals"]
      /\ n \notin Researchers /\ n \notin RiskDebators
      /\ n \notin {"Research_Manager", "Trader", "Risk_Judge"}
  BY Kinds
<1> QED BY <1>1 DEF Successors

\* The rest of the graph.
LEMMA OtherEdges ==
  ASSUME NEW s
  PROVE  /\ \A n \in Researchers : Successors(n, s) = {ShouldContinueDebate(s)}
         /\ Successors("Research_Manager", s) = {"Trader"}
         /\ Successors("Trader", s) = {"Risky_Analyst"}
         /\ \A n \in RiskDebators : Successors(n, s) = {ShouldContinueRiskAnalysis(s)}
         /\ Successors("Risk_Judge", s) = {}
<1>1. ASSUME NEW n \in Researchers \cup RiskDebators \cup {"Research_Manager", "Trader", "Risk_Judge"}
      PROVE  /\ n \notin AnalystNodes /\ n \notin ToolsNodes /\ n \notin ClearNodes
             /\ n # AnalystNode["fundamentals"]
  BY Kinds
<1>2. ASSUME NEW n \in Researchers PROVE Successors(n, s) = {ShouldContinueDebate(s)}
  BY <1>1, Kinds DEF Successors
<1>3. ASSUME NEW n \in RiskDebators PROVE Successors(n, s) = {ShouldContinueRiskAnalysis(s)}
  BY <1>1, Kinds DEF Successors, RiskDebators
<1>4. Successors("Research_Manager", s) = {"Trader"}
  BY <1>1, Kinds DEF Successors
<1>5. Successors("Trader", s) = {"Risky_Analyst"}
  BY <1>1, Kinds DEF Successors
<1>6. Successors("Risk_Judge", s) = {}
  BY <1>1, Kinds DEF Successors
<1> QED BY <1>2, <1>3, <1>4, <1>5, <1>6

\* A researcher gives the word to the other or to the manager.
LEMMA DebateRoutes ==
  ASSUME NEW s
  PROVE  /\ s["debate"].count >= 2 * Rounds => ShouldContinueDebate(s) = "Research_Manager"
         /\ ~(s["debate"].count >= 2 * Rounds) =>
              ShouldContinueDebate(s) = IF s["debate"].speaker = "Bull" THEN "Bear_Researcher"
                                        ELSE "Bull_Researcher"
BY DEF ShouldContinueDebate, Rounds

\* A risk analyst gives the word to another or to the judge.
LEMMA RiskRoutes ==
  ASSUME NEW s
  PROVE  /\ ShouldContinueRiskAnalysis(s) \in RiskDebators \cup {"Risk_Judge"}
         /\ ShouldContinueRiskAnalysis(s) = "Risk_Judge" =>
              s["risk"].count >= 3 * RiskRounds[setup.depth]
<1>1. CASE s["risk"].count >= 3 * RiskRounds[setup.depth]
  BY <1>1 DEF ShouldContinueRiskAnalysis
<1>2. CASE ~(s["risk"].count >= 3 * RiskRounds[setup.depth])
  BY <1>2 DEF ShouldContinueRiskAnalysis, RiskDebators
<1> QED BY <1>1, <1>2

\* Where the edges of each phase lead.
LEMMA EdgesByPhase ==
  ASSUME NEW n \in Nodes, NEW s
  PROVE  /\ Successors(n, s) \subseteq Nodes
         /\ n # "Risk_Judge" => Successors(n, s) # {}
         /\ n \in Early \ {"Research_Manager"} => Successors(n, s) \subseteq Early
         /\ n = "Research_Manager" => Successors(n, s) = {"Trader"}
         /\ n \in {"Trader"} \cup RiskDebators =>
              Successors(n, s) \subseteq RiskDebators \cup {"Risk_Judge"}
         /\ n = "Risk_Judge" => Successors(n, s) = {}
<1>1. CASE n \in AnalystNodes
  <2>1. PICK a \in Analysts : n = AnalystNode[a]
    BY <1>1, Kinds
  <2>2. Successors(n, s) = {ToolsNode[a]} \/ Successors(n, s) = {ClearNode[a]}
    BY <2>1, AnalystEdge
  <2>3. ToolsNode[a] \in ToolsNodes /\ ClearNode[a] \in ClearNodes
    BY Kinds
  <2> QED BY <1>1, <2>2, <2>3, Kinds DEF Early, Nodes
<1>2. CASE n \in ToolsNodes
  <2>1. PICK a \in Analysts : n = ToolsNode[a]
    BY <1>2, Kinds
  <2>2. Successors(n, s) = {AnalystNode[a]} /\ AnalystNode[a] \in AnalystNodes
    BY <2>1, ToolsEdge, Kinds
  <2> QED BY <1>2, <2>2, Kinds DEF Early, Nodes
<1>3. CASE n \in ClearNodes
  <2>1. Successors(n, s) = {"Bull_Researcher"}
    BY <1>3, ClearEdge
  <2> QED BY <1>3, <2>1, Kinds DEF Early, Nodes, Researchers
<1>4. CASE n \in Researchers
  <2>1. Successors(n, s) = {ShouldContinueDebate(s)}
    BY <1>4, OtherEdges
  <2>2. ShouldContinueDebate(s) \in Researchers \cup {"Research_Manager"}
    BY DebateRoutes DEF Researchers
  <2>3. n \notin RiskDebators /\ n \notin {"Research_Manager", "Trader", "Risk_Judge"}
    BY <1>4, Kinds
  <2> QED BY <2>1, <2>2, <2>3 DEF Early, Nodes
<1>5. CASE n \in RiskDebators
  <2>1. Successors(n, s) = {ShouldContinueRiskAnalysis(s)}
    BY <1>5, OtherEdges
  <2>2. ShouldContinueRiskAnalysis(s) \in RiskDebators \cup {"Risk_Judge"}
    BY RiskRoutes
  <2> QED BY <1>5, <2>1, <2>2, Kinds DEF Early, Nodes
<1>6. CASE n = "Research_Manager"
  <2>1. Successors(n, s) = {"Trader"} /\ n \notin RiskDebators
    BY <1>6, OtherEdges, Kinds
  <2> QED BY <1>6, <2>1 DEF Nodes
<1>7. CASE n = "Trader"
  <2>1. Successors(n, s) = {"Risky_Analyst"} /\ "Risky_Analyst" \in RiskDebators
    BY <1>7, OtherEdges DEF RiskDebators
  <2>2. n \notin Early
    BY <1>7, Kinds DEF Early
  <2> QED BY <1>7, <2>1, <2>2 DEF Nodes
<1>8. CASE n = "Risk_Judge"
  BY <1>8, OtherEdges, Kinds DEF Nodes, Early
<1> QED BY <1>1, <1>2, <1>3, <1>4, <1>5, <1>6, <1>7, <1>8 DEF Nodes

\* The edges between the nodes of the first phase change sides in every superstep.
LEMMA EdgesAlternate ==
  ASSUME NEW n \in Nodes, NEW s
  PROVE  /\ n \in Evens => Successors(n, s) \cap Evens = {}
                           \/ n = "Bull_Researcher"
         /\ n \in Odds => Successors(n, s) \cap Odds = {} \/ n = "Bear_Researcher"
         /\ n \notin Evens \cup Odds => Successors(n, s) \cap (Evens \cup Odds) = {}
<1>1. /\ Evens \cap Odds = {}
      /\ \A m \in RiskDebators \cup {"Research_Manager", "Trader", "Risk_Judge"} :
           m \notin Evens \cup Odds
  BY NodeSets DEF Evens, Odds, RiskDebators
<1>2. CASE n \in AnalystNodes
  <2>1. PICK a \in Analysts : n = AnalystNode[a]
    BY <1>2, Kinds
  <2>2. Successors(n, s) = {ToolsNode[a]} \/ Successors(n, s) = {ClearNode[a]}
    BY <2>1, AnalystEdge
  <2>3. ToolsNode[a] \in Odds /\ ClearNode[a] \in Odds /\ n \in Evens
    BY <1>2, Kinds DEF Odds, Evens
  <2> QED BY <2>2, <2>3, <1>1
<1>3. CASE n \in ToolsNodes
  <2>1. PICK a \in Analysts : n = ToolsNode[a]
    BY <1>3, Kinds
  <2>2. Successors(n, s) = {AnalystNode[a]} /\ AnalystNode[a] \in Evens /\ n \in Odds
    BY <1>3, <2>1, ToolsEdge, Kinds DEF Evens, Odds
  <2> QED BY <2>2, <1>1
<1>4. CASE n \in ClearNodes
  <2>1. Successors(n, s) = {"Bull_Researcher"} /\ "Bull_Researcher" \in Evens /\ n \in Odds
    BY <1>4, ClearEdge DEF Evens, Odds
  <2> QED BY <2>1, <1>1
<1>5. CASE n \in Researchers
  BY <1>1, <1>5 DEF Researchers, Evens, Odds
<1>6. CASE n \in RiskDebators \cup {"Research_Manager", "Trader", "Risk_Judge"}
  <2>1. Successors(n, s) \subseteq RiskDebators \cup {"Risk_Judge", "Trader"}
    BY <1>6, EdgesByPhase
  <2> QED BY <1>1, <1>6, <2>1
<1> QED BY <1>2, <1>3, <1>4, <1>5, <1>6 DEF Nodes

\* Which nodes write a key.
LEMMA Writers ==
  ASSUME NEW n \in Nodes, NEW u, Wrote(n, u), NEW k \in DOMAIN u
  PROVE  /\ k \in Keys
         /\ k \in Analysts => n = AnalystNode[k]
         /\ k = "debate" => n \in Researchers \cup {"Research_Manager"}
         /\ k = "risk" => n \in RiskDebators \cup {"Risk_Judge"}
         /\ k = "plan" => n = "Research_Manager"
         /\ k = "trade" => n = "Trader"
         /\ k = "decision" => n = "Risk_Judge"
<1>1. \A a \in Analysts : a \in Keys /\ a \notin {"debate", "risk", "plan", "trade", "decision"}
  BY DEF Analysts, Keys
<1>2. CASE n \in AnalystNodes
  <2>1. PICK a \in Analysts : n = AnalystNode[a]
    BY <1>2, Kinds
  <2>2. k = a
    BY <2>1 DEF Wrote
  <2> QED BY <1>1, <2>1, <2>2
<1>3. CASE n \in ToolsNodes \cup ClearNodes
  BY <1>3 DEF Wrote
<1>4. CASE n \in Researchers
  <2>1. k = "debate"
    BY <1>4 DEF Wrote
  <2> QED BY <1>1, <1>4, <2>1 DEF Keys
<1>5. CASE n = "Research_Manager"
  <2>1. k \in {"debate", "plan"}
    BY <1>5 DEF Wrote
  <2> QED BY <1>1, <1>5, <2>1 DEF Keys
<1>6. CASE n = "Trader"
  <2>1. k = "trade"
    BY <1>6 DEF Wrote
  <2> QED BY <1>1, <1>6, <2>1 DEF Keys
<1>7. CASE n \in RiskDebators
  <2>1. k = "risk"
    BY <1>7 DEF Wrote
  <2> QED BY <1>1, <1>7, <2>1 DEF Keys
<1>8. CASE n = "Risk_Judge"
  <2>1. k \in {"risk", "decision"}
    BY <1>8 DEF Wrote
  <2> QED BY <1>1, <1>8, <2>1 DEF Keys
<1> QED BY <1>2, <1>3, <1>4, <1>5, <1>6, <1>7, <1>8 DEF Nodes

\* Of some nodes that write the same debate one is the last.
LEMMA NamesInOrder ==
  ASSUME NEW W, W # {},
         \/ W \subseteq {"Bull_Researcher", "Bear_Researcher", "Research_Manager"}
         \/ W \subseteq {"Neutral_Analyst", "Risk_Judge", "Risky_Analyst", "Safe_Analyst"}
  PROVE  \E n \in W : \A m \in W \ {n} : WriteOrder[m] < WriteOrder[n]
<1>1. /\ WriteOrder["Bear_Researcher"] = 1 /\ WriteOrder["Bull_Researcher"] = 2
      /\ WriteOrder["Research_Manager"] = 3
  BY DEF WriteOrder, Researchers
<1>2. /\ WriteOrder["Neutral_Analyst"] = 1 /\ WriteOrder["Risk_Judge"] = 2
      /\ WriteOrder["Risky_Analyst"] = 3 /\ WriteOrder["Safe_Analyst"] = 4
  BY DEF WriteOrder, RiskDebators
<1>3. CASE W \subseteq {"Bull_Researcher", "Bear_Researcher", "Research_Manager"}
  <2>1. CASE "Research_Manager" \in W
    <3>1. \A m \in W \ {"Research_Manager"} : WriteOrder[m] < WriteOrder["Research_Manager"]
      BY <1>1, <1>3
    <3> QED BY <2>1, <3>1
  <2>2. CASE "Research_Manager" \notin W /\ "Bull_Researcher" \in W
    <3>1. \A m \in W \ {"Bull_Researcher"} : WriteOrder[m] < WriteOrder["Bull_Researcher"]
      BY <1>1, <1>3, <2>2
    <3> QED BY <2>2, <3>1
  <2>3. CASE "Research_Manager" \notin W /\ "Bull_Researcher" \notin W
    <3>1. W = {"Bear_Researcher"}
      BY <1>3, <2>3
    <3> QED BY <3>1
  <2> QED BY <2>1, <2>2, <2>3
<1>4. CASE W \subseteq {"Neutral_Analyst", "Risk_Judge", "Risky_Analyst", "Safe_Analyst"}
  <2>1. CASE "Safe_Analyst" \in W
    <3>1. \A m \in W \ {"Safe_Analyst"} : WriteOrder[m] < WriteOrder["Safe_Analyst"]
      BY <1>2, <1>4
    <3> QED BY <2>1, <3>1
  <2>2. CASE "Safe_Analyst" \notin W /\ "Risky_Analyst" \in W
    <3>1. \A m \in W \ {"Risky_Analyst"} : WriteOrder[m] < WriteOrder["Risky_Analyst"]
      BY <1>2, <1>4, <2>2
    <3> QED BY <2>2, <3>1
  <2>3. CASE "Safe_Analyst" \notin W /\ "Risky_Analyst" \notin W /\ "Risk_Judge" \in W
    <3>1. \A m \in W \ {"Risk_Judge"} : WriteOrder[m] < WriteOrder["Risk_Judge"]
      BY <1>2, <1>4, <2>3
    <3> QED BY <2>3, <3>1
  <2>4. CASE "Safe_Analyst" \notin W /\ "Risky_Analyst" \notin W /\ "Risk_Judge" \notin W
    <3>1. W = {"Neutral_Analyst"}
      BY <1>4, <2>4
    <3> QED BY <3>1
  <2> QED BY <2>1, <2>2, <2>3, <2>4
<1> QED BY <1>3, <1>4

\* The updates of a superstep that write the same key are in the order of the
\* names of their nodes, and the last one is one of them.
LEMMA LastWriterWrites ==
  ASSUME WritesOK, DOMAIN writes \subseteq Nodes, NEW k \in Written
  PROVE  LastWriter(k) \in DOMAIN writes /\ k \in DOMAIN writes[LastWriter(k)]
<1> DEFINE W == {n \in DOMAIN writes : k \in DOMAIN writes[n]}
<1>1. W # {}
  BY DEF Written
<1>2. ASSUME NEW n \in W
      PROVE  /\ k \in Keys
             /\ k \in Analysts => n = AnalystNode[k]
             /\ k = "debate" => n \in Researchers \cup {"Research_Manager"}
             /\ k = "risk" => n \in RiskDebators \cup {"Risk_Judge"}
             /\ k = "plan" => n = "Research_Manager"
             /\ k = "trade" => n = "Trader"
             /\ k = "decision" => n = "Risk_Judge"
  <2>1. Wrote(n, writes[n]) /\ n \in Nodes /\ k \in DOMAIN writes[n]
    BY DEF WritesOK
  <2> QED BY <2>1, Writers
<1> HIDE DEF W
<1>3. \E n \in W : \A m \in W \ {n} : WriteOrder[m] < WriteOrder[n]
  <2>1. CASE k \in Analysts \cup {"plan", "trade", "decision"}
    <3>1. \A n, m \in W : n = m
      BY <1>2, <2>1
    <3> QED BY <1>1, <3>1
  <2>2. CASE k = "debate"
    <3>1. W \subseteq {"Bull_Researcher", "Bear_Researcher", "Research_Manager"}
      BY <1>2, <2>2 DEF Researchers
    <3> QED BY <1>1, <3>1, NamesInOrder
  <2>3. CASE k = "risk"
    <3>1. W \subseteq {"Neutral_Analyst", "Risk_Judge", "Risky_Analyst", "Safe_Analyst"}
      BY <1>2, <2>3 DEF RiskDebators
    <3> QED BY <1>1, <3>1, NamesInOrder
  <2>4. k \in Keys
    BY <1>1, <1>2
  <2> QED BY <2>1, <2>2, <2>3, <2>4 DEF Keys
<1>4. LastWriter(k) \in W
  BY <1>3 DEF LastWriter, W
<1> QED BY <1>4 DEF W

-----------------------------------------------------------------------------
(* The end of a superstep.                                                 *)

\* What the end of a superstep does to the state and to the nodes at work.
StepView ==
  /\ UNCHANGED setup /\ Active' = next
  /\ \A n \in Active : n \in Nodes /\ Wrote(n, writes[n])
                       /\ Successors(n, Over(writes[n], state)) \subseteq next
  /\ \A m \in next : \E n \in Active : m \in Successors(n, Over(writes[n], state))
  /\ \A k \in Keys :
       \/ state'[k] = state[k] /\ \A n \in Active : k \notin DOMAIN writes[n]
       \/ \E n \in Active : k \in DOMAIN writes[n] /\ state'[k] = writes[n][k]

\* The empty update, and that of no node.
LEMMA NoUpdate == DOMAIN <<>> = {}
OBVIOUS

\* The state after a superstep is made of the updates and of what nobody wrote.
LEMMA SuperstepView ==
  ASSUME GraphTypes, WritesOK, Superstep
  PROVE  StepView
<1>1. DOMAIN writes \subseteq Nodes /\ running = {} /\ Active = DOMAIN writes
  BY DEF GraphTypes, TypeOK, Superstep, Active
<1>2. UNCHANGED setup /\ Active' = next
  BY NoUpdate DEF Superstep, Active
<1>3. \A n \in Active : n \in Nodes /\ Wrote(n, writes[n])
                        /\ Successors(n, Over(writes[n], state)) \subseteq next
  BY <1>1 DEF WritesOK
<1>4. \A m \in next : \E n \in Active : m \in Successors(n, Over(writes[n], state))
  BY <1>1 DEF WritesOK
<1>5. ASSUME NEW k \in Keys
      PROVE  \/ state'[k] = state[k] /\ \A n \in Active : k \notin DOMAIN writes[n]
             \/ \E n \in Active : k \in DOMAIN writes[n] /\ state'[k] = writes[n][k]
  <2>1. state'[k] = IF k \in Written THEN writes[LastWriter(k)][k] ELSE state[k]
    BY DEF Superstep
  <2>2. CASE k \in Written
    <3>1. LastWriter(k) \in Active /\ k \in DOMAIN writes[LastWriter(k)]
      BY <1>1, <2>2, LastWriterWrites
    <3> QED BY <2>1, <2>2, <3>1
  <2>3. CASE k \notin Written
    <3>1. \A n \in Active : k \notin DOMAIN writes[n]
      BY <1>1, <2>3 DEF Written
    <3> QED BY <2>1, <2>3, <3>1
  <2> QED BY <2>2, <2>3
<1> QED BY <1>2, <1>3, <1>4, <1>5 DEF StepView

\* Which nodes call for a speaker or a judge.
LEMMA CalledBy ==
  ASSUME NEW n \in Nodes, NEW s
  PROVE  /\ "Bear_Researcher" \in Successors(n, s) => n \in Researchers
         /\ "Research_Manager" \in Successors(n, s) => n \in Researchers
         /\ "Risk_Judge" \in Successors(n, s) => n \in RiskDebators
<1>1. CASE n \in AnalystNodes
  <2>1. PICK a \in Analysts : n = AnalystNode[a]
    BY <1>1, Kinds
  <2>2. Successors(n, s) = {ToolsNode[a]} \/ Successors(n, s) = {ClearNode[a]}
    BY <2>1, AnalystEdge
  <2>3. ToolsNode[a] \in ToolsNodes /\ ClearNode[a] \in ClearNodes
    BY Kinds
  <2> QED BY <2>2, <2>3, NodeSets
<1>2. CASE n \in ToolsNodes
  <2>1. PICK a \in Analysts : n = ToolsNode[a]
    BY <1>2, Kinds
  <2>2. Successors(n, s) = {AnalystNode[a]} /\ AnalystNode[a] \in AnalystNodes
    BY <2>1, ToolsEdge, Kinds
  <2> QED BY <2>2, NodeSets
<1>3. CASE n \in ClearNodes
  BY <1>3, ClearEdge
<1>4. CASE n \in Researchers
  <2>1. Successors(n, s) \subseteq Researchers \cup {"Research_Manager"}
    BY <1>4, OtherEdges, DebateRoutes DEF Researchers
  <2> QED BY <1>4, <2>1 DEF Researchers
<1>5. CASE n \in RiskDebators
  <2>1. Successors(n, s) \subseteq RiskDebators \cup {"Risk_Judge"}
    BY <1>5, OtherEdges, RiskRoutes
  <2> QED BY <1>5, <2>1 DEF RiskDebators
<1>6. CASE n \in {"Research_Manager", "Trader", "Risk_Judge"}
  BY <1>6, OtherEdges
<1> QED BY <1>1, <1>2, <1>3, <1>4, <1>5, <1>6 DEF Nodes

\* The rounds are numbers.
LEMMA RoundsAreNumbers ==
  ASSUME GraphAssumption, TypeOK
  PROVE  /\ Rounds \in Nat /\ RiskRounds[setup.depth] \in Nat
         /\ state["debate"] \in InvestDebateState /\ state["risk"] \in RiskDebateState
<1>1. setup.depth \in 1 .. 5
  BY DEF TypeOK, GraphAssumption, SetupType
<1> QED BY <1>1 DEF Rounds, DebateRounds, RiskRounds, TypeOK

\* Where the bear researcher is at work the debate is not over; where the bull is
\* it may be.  Neither calls itself again.
LEMMA SpeechPasses ==
  ASSUME GraphAssumption, TypeOK, DebateOK, NEW n \in Researchers \cap Active,
         NEW u, Wrote(n, u)
  PROVE  LET d == state["debate"]
             e == u["debate"]
         IN  /\ "debate" \in DOMAIN u /\ e \in InvestDebateState
             /\ n = "Bear_Researcher" => d.count < 2 * Rounds
             /\ IF d.count >= 2 * Rounds THEN e = d
                ELSE /\ e.count = d.count + 1
                     /\ n = "Bull_Researcher" => e.bull = d.bull + 1 /\ e.bear = d.bear
                     /\ n = "Bear_Researcher" => e.bull = d.bull /\ e.bear = d.bear + 1
             /\ Successors(n, Over(u, state)) =
                  {IF e.count >= 2 * Rounds THEN "Research_Manager"
                   ELSE IF n = "Bull_Researcher" THEN "Bear_Researcher" ELSE "Bull_Researcher"}
<1> DEFINE d == state["debate"]
           e == u["debate"]
           s == Over(u, state)
<1>1. Rounds \in Nat /\ d \in InvestDebateState
  BY RoundsAreNumbers
<1>2. /\ DOMAIN u = {"debate"} /\ e \in InvestDebateState
      /\ IF d.count >= 2 * Rounds THEN e = d
         ELSE /\ e.count = d.count + 1
              /\ n = "Bull_Researcher" => e.speaker = "Bull" /\ e.bull = d.bull + 1 /\ e.bear = d.bear
              /\ n = "Bear_Researcher" => e.speaker = "Bear" /\ e.bull = d.bull /\ e.bear = d.bear + 1
  BY DEF Wrote, DebateOver, Rounds
<1>3. n = "Bear_Researcher" => d.count < 2 * Rounds
  <2> SUFFICES ASSUME n = "Bear_Researcher" PROVE d.count < 2 * Rounds
    OBVIOUS
  <2>1. d.count = d.bull + d.bear /\ d.bull = d.bear + 1 /\ d.count <= 2 * Rounds
    BY DEF DebateOK
  <2>2. d.bull \in Nat /\ d.bear \in Nat /\ d.count \in Nat
    BY <1>1 DEF InvestDebateState
  <2> HIDE DEF d
  <2> QED BY <1>1, <2>1, <2>2
<1>4. s["debate"] = e
  BY <1>2 DEF Over
<1>5. Successors(n, s) = {ShouldContinueDebate(s)}
  BY OtherEdges
<1>6. e.count >= 2 * Rounds => ShouldContinueDebate(s) = "Research_Manager"
  BY <1>4, DebateRoutes
<1>7. ~(e.count >= 2 * Rounds) =>
        ShouldContinueDebate(s) = IF n = "Bull_Researcher" THEN "Bear_Researcher"
                                  ELSE "Bull_Researcher"
  <2> SUFFICES ASSUME ~(e.count >= 2 * Rounds)
               PROVE  ShouldContinueDebate(s) = IF n = "Bull_Researcher" THEN "Bear_Researcher"
                                                ELSE "Bull_Researcher"
    OBVIOUS
  <2>1. ~(d.count >= 2 * Rounds)
    BY <1>2
  <2>2. e.speaker = IF n = "Bull_Researcher" THEN "Bull" ELSE "Bear"
    BY <1>2, <2>1 DEF Researchers
  <2> QED BY <1>4, <2>2, DebateRoutes
<1> HIDE DEF d, e, s
<1>8. Successors(n, s) =
        {IF e.count >= 2 * Rounds THEN "Research_Manager"
         ELSE IF n = "Bull_Researcher" THEN "Bear_Researcher" ELSE "Bull_Researcher"}
  BY <1>5, <1>6, <1>7
<1> QED BY <1>2, <1>3, <1>8 DEF d, e, s

\* The same of the updates that a superstep ends with.
LEMMA WordPasses ==
  ASSUME GraphAssumption, TypeOK, StepView, DebateOK, NEW n \in Researchers \cap Active
  PROVE  LET d == state["debate"]
             e == writes[n]["debate"]
         IN  /\ "debate" \in DOMAIN writes[n] /\ e \in InvestDebateState
             /\ n = "Bear_Researcher" => d.count < 2 * Rounds
             /\ IF d.count >= 2 * Rounds THEN e = d
                ELSE /\ e.count = d.count + 1
                     /\ n = "Bull_Researcher" => e.bull = d.bull + 1 /\ e.bear = d.bear
                     /\ n = "Bear_Researcher" => e.bull = d.bull /\ e.bear = d.bear + 1
             /\ Successors(n, Over(writes[n], state)) =
                  {IF e.count >= 2 * Rounds THEN "Research_Manager"
                   ELSE IF n = "Bull_Researcher" THEN "Bear_Researcher" ELSE "Bull_Researcher"}
BY SpeechPasses DEF StepView

\* The two researchers are never at work together, nor the bear and the manager.
LEMMA OneSpeaker ==
  ASSUME GraphAssumption, TypeOK, DebateOK, InPhase, "Bear_Researcher" \in Active
  PROVE  "Bull_Researcher" \notin Active /\ "Research_Manager" \notin Active
<1> DEFINE d == state["debate"]
<1>1. "Bull_Researcher" \in Evens /\ "Bear_Researcher" \in Odds
  BY DEF Evens, Odds
<1>2. Rounds \in Nat /\ d.count \in Nat /\ d.bull \in Nat /\ d.bear \in Nat
  BY RoundsAreNumbers DEF InvestDebateState
<1>3. d.count = d.bull + d.bear /\ d.bull = d.bear + 1
      /\ ("Research_Manager" \in Active => d.count = 2 * Rounds)
  BY DEF DebateOK
<1> HIDE DEF d
<1>4. d.count # 2 * Rounds
  BY <1>2, <1>3
<1> QED BY <1>1, <1>3, <1>4 DEF InPhase

\* No superstep loses or repeats a speech of the debate.
LEMMA StepKeepsDebate ==
  ASSUME GraphAssumption, TypeOK, StepView, DebateOK, InPhase
  PROVE  DebateOK'
<1> DEFINE d == state["debate"]
           e == state'["debate"]
<1>1. /\ Rounds \in Nat /\ d \in InvestDebateState
      /\ d.count \in Nat /\ d.bull \in Nat /\ d.bear \in Nat
  BY RoundsAreNumbers DEF InvestDebateState
<1>2. /\ d.count = d.bull + d.bear /\ d.count <= 2 * Rounds
      /\ "Bear_Researcher" \in Active => d.bull = d.bear + 1
      /\ "Bear_Researcher" \notin Active => d.bull = d.bear
      /\ "Research_Manager" \in Active => d.count = 2 * Rounds
  BY DEF DebateOK
<1>3. /\ Rounds' = Rounds /\ Active' = next
      /\ \/ e = d /\ \A n \in Active : "debate" \notin DOMAIN writes[n]
         \/ \E n \in Active : "debate" \in DOMAIN writes[n] /\ e = writes[n]["debate"]
  BY DEF StepView, Rounds, Keys
<1>4. \A n \in Active : "debate" \in DOMAIN writes[n] =>
        n \in {"Bull_Researcher", "Bear_Researcher", "Research_Manager"}
  BY Writers DEF StepView, Researchers
<1>5. ASSUME NEW m \in next, m \in {"Bear_Researcher", "Research_Manager"}
      PROVE  \E n \in Researchers \cap Active : m \in Successors(n, Over(writes[n], state))
  BY <1>5, CalledBy DEF StepView
<1>6. "Research_Manager" \in Active =>
        LET f == writes["Research_Manager"]["debate"]
        IN  f.count = d.count /\ f.bull = d.bull /\ f.bear = d.bear
  BY DEF StepView, Wrote
<1>7. \A n \in Active : Successors(n, Over(writes[n], state)) \subseteq next
  BY DEF StepView
<1> SUFFICES /\ e.count = e.bull + e.bear /\ e.count <= 2 * Rounds
             /\ "Bear_Researcher" \in next => e.bull = e.bear + 1
             /\ "Bear_Researcher" \notin next => e.bull = e.bear
             /\ "Research_Manager" \in next => e.count = 2 * Rounds
  BY <1>3 DEF DebateOK
<1>8. CASE "Bear_Researcher" \in Active
  <2> DEFINE b == writes["Bear_Researcher"]["debate"]
  <2>1. "Bull_Researcher" \notin Active /\ "Research_Manager" \notin Active
    BY <1>8, OneSpeaker
  <2>2. /\ "debate" \in DOMAIN writes["Bear_Researcher"] /\ d.count < 2 * Rounds
        /\ b.count = d.count + 1 /\ b.bull = d.bull /\ b.bear = d.bear + 1
        /\ Successors("Bear_Researcher", Over(writes["Bear_Researcher"], state)) =
             {IF b.count >= 2 * Rounds THEN "Research_Manager" ELSE "Bull_Researcher"}
    <3>1. "Bear_Researcher" \in Researchers \cap Active
      BY <1>8 DEF Researchers
    <3>2. /\ "debate" \in DOMAIN writes["Bear_Researcher"] /\ d.count < 2 * Rounds
          /\ IF d.count >= 2 * Rounds THEN b = d
             ELSE b.count = d.count + 1 /\ b.bull = d.bull /\ b.bear = d.bear + 1
          /\ Successors("Bear_Researcher", Over(writes["Bear_Researcher"], state)) =
               {IF b.count >= 2 * Rounds THEN "Research_Manager" ELSE "Bull_Researcher"}
      BY <3>1, WordPasses
    <3> HIDE DEF b, d
    <3> QED BY <3>2, <1>1
  <2>3. e = b
    BY <1>3, <1>4, <1>8, <2>1, <2>2
  <2>4. \A n \in Researchers \cap Active : n = "Bear_Researcher"
    BY <2>1 DEF Researchers
  <2>5. "Bear_Researcher" \notin next
    BY <1>5, <2>2, <2>4
  <2>6. "Research_Manager" \in next => b.count >= 2 * Rounds
    BY <1>5, <2>2, <2>4
  <2> HIDE DEF b, d, e
  <2> QED BY <1>1, <1>2, <1>8, <2>2, <2>3, <2>5, <2>6
<1>9. CASE "Bear_Researcher" \notin Active /\ "Bull_Researcher" \in Active
  <2> DEFINE b == writes["Bull_Researcher"]["debate"]
  <2>1. /\ "debate" \in DOMAIN writes["Bull_Researcher"]
        /\ IF d.count >= 2 * Rounds THEN b = d
           ELSE b.count = d.count + 1 /\ b.bull = d.bull + 1 /\ b.bear = d.bear
        /\ Successors("Bull_Researcher", Over(writes["Bull_Researcher"], state)) =
             {IF b.count >= 2 * Rounds THEN "Research_Manager" ELSE "Bear_Researcher"}
    <3>1. "Bull_Researcher" \in Researchers \cap Active
      BY <1>9 DEF Researchers
    <3> QED BY <3>1, WordPasses
  <2>2. \A n \in Researchers \cap Active : n = "Bull_Researcher"
    BY <1>9 DEF Researchers
  <2>3. \A n \in Active : "debate" \in DOMAIN writes[n] =>
          n \in {"Bull_Researcher", "Research_Manager"}
    BY <1>4, <1>9
  <2>4. e = b \/ ("Research_Manager" \in Active /\ e = writes["Research_Manager"]["debate"])
    BY <1>3, <1>9, <2>1, <2>3
  <2>5. "Bear_Researcher" \in next => b.count < 2 * Rounds
    <3> SUFFICES ASSUME "Bear_Researcher" \in next PROVE ~(b.count >= 2 * Rounds) /\ b.count \in Nat
      BY <1>1
    <3>1. "Bear_Researcher" \in Successors("Bull_Researcher", Over(writes["Bull_Researcher"], state))
      BY <1>5, <2>2
    <3>2. b.count = d.count \/ b.count = d.count + 1
      BY <2>1
    <3> HIDE DEF b, d
    <3> QED BY <1>1, <2>1, <3>1, <3>2
  <2>6. ~(b.count >= 2 * Rounds) => "Bear_Researcher" \in next
    BY <1>7, <1>9, <2>1
  <2>7. "Research_Manager" \in next => b.count >= 2 * Rounds
    <3> SUFFICES ASSUME "Research_Manager" \in next PROVE b.count >= 2 * Rounds
      OBVIOUS
    <3>1. "Research_Manager" \in Successors("Bull_Researcher", Over(writes["Bull_Researcher"], state))
      BY <1>5, <2>2
    <3> HIDE DEF b, d
    <3> QED BY <2>1, <3>1
  <2>8. "Research_Manager" \in Active => e.count = d.count /\ e.bull = d.bull /\ e.bear = d.bear
    <3> SUFFICES ASSUME "Research_Manager" \in Active
                 PROVE  e.count = d.count /\ e.bull = d.bull /\ e.bear = d.bear
      OBVIOUS
    <3>1. d.count = 2 * Rounds
      BY <1>2
    <3>2. b = d
      <4> HIDE DEF b, d
      <4> QED BY <1>1, <2>1, <3>1
    <3> QED BY <1>6, <2>4, <3>2
  <2>9. "Research_Manager" \notin Active => e = b
    BY <2>4
  <2> HIDE DEF b, d, e
  <2>10. CASE d.count >= 2 * Rounds
    <3>1. e.count = d.count /\ e.bull = d.bull /\ e.bear = d.bear /\ b.count = d.count
      BY <2>1, <2>8, <2>9, <2>10
    <3> QED BY <1>1, <1>2, <1>9, <2>5, <2>10, <3>1
  <2>11. CASE ~(d.count >= 2 * Rounds)
    <3>1. "Research_Manager" \notin Active
      BY <1>1, <1>2, <2>11
    <3>2. e.count = d.count + 1 /\ e.bull = d.bull + 1 /\ e.bear = d.bear /\ e = b
      BY <2>1, <2>9, <2>11, <3>1
    <3>3. d.bull = d.bear /\ e.count # 2 * Rounds /\ e.count <= 2 * Rounds
      BY <1>1, <1>2, <1>9, <2>11, <3>2
    <3> QED BY <1>1, <1>2, <2>5, <2>6, <2>7, <3>2, <3>3
  <2> QED BY <2>10, <2>11
<1>10. CASE "Bear_Researcher" \notin Active /\ "Bull_Researcher" \notin Active
  <2>1. Researchers \cap Active = {}
    BY <1>10 DEF Researchers
  <2>2. "Bear_Researcher" \notin next /\ "Research_Manager" \notin next
    BY <1>5, <2>1
  <2>3. e = d \/ ("Research_Manager" \in Active /\ e = writes["Research_Manager"]["debate"])
    BY <1>3, <1>4, <1>10
  <2>4. e.count = d.count /\ e.bull = d.bull /\ e.bear = d.bear
    BY <2>3, <1>6
  <2> HIDE DEF d, e
  <2> QED BY <1>1, <1>2, <1>10, <2>2, <2>4
<1> QED BY <1>8, <1>9, <1>10

\* Supersteps of the analysts and the bull alternate with those of the bear.
LEMMA StepKeepsPhase ==
  ASSUME GraphAssumption, TypeOK, StepView, DebateOK, InPhase
  PROVE  InPhase'
<1>1. ASSUME NEW n \in Researchers \cap Active
      PROVE  /\ n = "Bear_Researcher" => n \notin Successors(n, Over(writes[n], state))
             /\ n = "Bull_Researcher" => n \notin Successors(n, Over(writes[n], state))
  BY WordPasses DEF Researchers
<1>2. /\ Active' = next /\ \A n \in Active : n \in Nodes
      /\ \A m \in next : \E n \in Active : m \in Successors(n, Over(writes[n], state))
  BY DEF StepView
<1>3. /\ "Bear_Researcher" \in Researchers /\ "Bull_Researcher" \in Researchers
      /\ Evens = AnalystNodes \cup {"Bull_Researcher"}
      /\ Odds = ToolsNodes \cup ClearNodes \cup {"Bear_Researcher"}
      /\ Researchers = {"Bull_Researcher", "Bear_Researcher"}
  BY DEF Researchers, Evens, Odds
<1>4. CASE Active \cap Evens = {}
  <2> SUFFICES ASSUME NEW m \in next \cap Odds PROVE FALSE
    BY <1>2 DEF InPhase
  <2>1. PICK n \in Active : m \in Successors(n, Over(writes[n], state))
    BY <1>2
  <2>2. n \notin Evens /\ n \in Nodes
    BY <1>2, <1>4
  <2>3. n = "Bear_Researcher"
    BY <2>1, <2>2, EdgesAlternate
  <2>4. Successors(n, Over(writes[n], state)) \subseteq {"Bull_Researcher", "Research_Manager"}
    BY <1>3, <2>3, WordPasses
  <2> QED BY <2>1, <2>4, NodeSets, <1>3
<1>5. CASE Active \cap Odds = {}
  <2> SUFFICES ASSUME NEW m \in next \cap Evens PROVE FALSE
    BY <1>2 DEF InPhase
  <2>1. PICK n \in Active : m \in Successors(n, Over(writes[n], state))
    BY <1>2
  <2>2. n \notin Odds /\ n \in Nodes
    BY <1>2, <1>5
  <2>3. n = "Bull_Researcher"
    BY <2>1, <2>2, EdgesAlternate
  <2>4. Successors(n, Over(writes[n], state)) \subseteq {"Bear_Researcher", "Research_Manager"}
    BY <1>3, <2>3, WordPasses
  <2> QED BY <2>1, <2>4, NodeSets, <1>3
<1> QED BY <1>4, <1>5 DEF InPhase

\* Who wrote what the state holds after the superstep.
LEMMA NewValues ==
  ASSUME StepView, NEW k \in Keys
  PROVE  \/ state'[k] = state[k]
         \/ \E n \in Active : /\ Wrote(n, writes[n]) /\ state'[k] = writes[n][k]
                              /\ k \in Analysts => n = AnalystNode[k]
                              /\ k = "debate" => n \in Researchers \cup {"Research_Manager"}
                              /\ k = "risk" => n \in RiskDebators \cup {"Risk_Judge"}
                              /\ k = "plan" => n = "Research_Manager"
                              /\ k = "trade" => n = "Trader"
                              /\ k = "decision" => n = "Risk_Judge"
                              /\ k \in DOMAIN writes[n]
<1>1. ASSUME NEW n \in Active, k \in DOMAIN writes[n]
      PROVE  /\ k \in Analysts => n = AnalystNode[k]
             /\ k = "debate" => n \in Researchers \cup {"Research_Manager"}
             /\ k = "risk" => n \in RiskDebators \cup {"Risk_Judge"}
             /\ k = "plan" => n = "Research_Manager"
             /\ k = "trade" => n = "Trader"
             /\ k = "decision" => n = "Risk_Judge"
             /\ Wrote(n, writes[n])
  <2>1. n \in Nodes /\ Wrote(n, writes[n])
    BY DEF StepView
  <2> QED BY <1>1, <2>1, Writers
<1> QED BY <1>1 DEF StepView

\* The plan is changed by the research manager alone, who made it from the
\* reports and the debate of the superstep.
LEMMA NewPlan ==
  ASSUME StepView
  PROVE  /\ "Research_Manager" \notin Active => state'["plan"] = state["plan"]
         /\ "Research_Manager" \in Active =>
              /\ state'["plan"] \in Plans /\ state'["plan"].heard = state["debate"]
              /\ \A a \in Analysts : state'["plan"].reports[a] = state[a]
<1>1. "plan" \in Keys
  BY DEF Keys
<1>2. CASE "Research_Manager" \notin Active
  BY <1>1, <1>2, NewValues DEF Analysts
<1>3. CASE "Research_Manager" \in Active
  <2>1. Wrote("Research_Manager", writes["Research_Manager"])
    BY <1>3 DEF StepView
  <2>2. LET u == writes["Research_Manager"]
        IN  /\ "plan" \in DOMAIN u /\ u["plan"] \in Plans /\ u["plan"].heard = state["debate"]
            /\ \A a \in Analysts : u["plan"].reports[a] = state[a]
    BY <2>1 DEF Wrote
  <2>3. state'["plan"] = writes["Research_Manager"]["plan"]
    <3>1. PICK n \in Active : "plan" \in DOMAIN writes[n] /\ state'["plan"] = writes[n]["plan"]
      BY <1>1, <1>3, <2>2 DEF StepView
    <3>2. n = "Research_Manager"
      BY <3>1, Writers DEF StepView
    <3> QED BY <3>1, <3>2
  <2> QED BY <1>3, <2>2, <2>3
<1> QED BY <1>2, <1>3

\* The trade is changed by the trader alone, who follows the plan it read.
LEMMA NewTrade ==
  ASSUME StepView
  PROVE  /\ "Trader" \notin Active => state'["trade"] = state["trade"]
         /\ "Trader" \in Active => state'["trade"] = state["plan"]
<1>1. "trade" \in Keys
  BY DEF Keys
<1>2. CASE "Trader" \notin Active
  BY <1>1, <1>2, NewValues
<1>3. CASE "Trader" \in Active
  <2>1. Wrote("Trader", writes["Trader"])
    BY <1>3 DEF StepView
  <2>2. "trade" \in DOMAIN writes["Trader"] /\ writes["Trader"]["trade"] = state["plan"]
    BY <2>1 DEF Wrote
  <2>3. state'["trade"] = writes["Trader"]["trade"]
    <3>1. PICK n \in Active : "trade" \in DOMAIN writes[n] /\ state'["trade"] = writes[n]["trade"]
      BY <1>1, <1>3, <2>2 DEF StepView
    <3>2. n = "Trader"
      BY <3>1, Writers DEF StepView
    <3> QED BY <3>1, <3>2
  <2> QED BY <1>3, <2>2, <2>3
<1> QED BY <1>2, <1>3

\* The decision is changed by the risk judge alone.
LEMMA NewDecision ==
  ASSUME StepView
  PROVE  /\ "Risk_Judge" \notin Active => state'["decision"] = state["decision"]
         /\ "Risk_Judge" \in Active =>
              /\ state'["decision"] \in Decisions
              /\ state'["decision"].plan = state["plan"] /\ state'["decision"].heard = state["risk"]
<1>1. "decision" \in Keys
  BY DEF Keys
<1>2. CASE "Risk_Judge" \notin Active
  BY <1>1, <1>2, NewValues
<1>3. CASE "Risk_Judge" \in Active
  <2>1. Wrote("Risk_Judge", writes["Risk_Judge"])
    BY <1>3 DEF StepView
  <2>2. LET u == writes["Risk_Judge"]
        IN  /\ "decision" \in DOMAIN u /\ u["decision"] \in Decisions
            /\ u["decision"].plan = state["plan"] /\ u["decision"].heard = state["risk"]
    BY <2>1 DEF Wrote
  <2>3. state'["decision"] = writes["Risk_Judge"]["decision"]
    <3>1. PICK n \in Active :
            "decision" \in DOMAIN writes[n] /\ state'["decision"] = writes[n]["decision"]
      BY <1>1, <1>3, <2>2 DEF StepView
    <3>2. n = "Risk_Judge"
      BY <3>1, Writers DEF StepView
    <3> QED BY <3>1, <3>2
  <2> QED BY <1>3, <2>2, <2>3
<1> QED BY <1>2, <1>3

\* A report is changed by its analyst alone, and never to nothing.
LEMMA NewReport ==
  ASSUME StepView, NEW a \in Analysts
  PROVE  /\ AnalystNode[a] \notin Active => state'[a] = state[a]
         /\ AnalystNode[a] \in Active => state'[a] \in AnalystState /\ state'[a].report # ""
<1>1. a \in Keys
  BY DEF Keys
<1>2. CASE AnalystNode[a] \notin Active
  BY <1>1, <1>2, NewValues
<1>3. CASE AnalystNode[a] \in Active
  <2>1. Wrote(AnalystNode[a], writes[AnalystNode[a]])
    BY <1>3 DEF StepView
  <2>2. LET u == writes[AnalystNode[a]]
        IN  a \in DOMAIN u /\ u[a] \in AnalystState /\ u[a].report # ""
    BY <2>1 DEF Wrote
  <2>3. state'[a] = writes[AnalystNode[a]][a]
    <3>1. PICK n \in Active : a \in DOMAIN writes[n] /\ state'[a] = writes[n][a]
      BY <1>1, <1>3, <2>2 DEF StepView
    <3>2. n = AnalystNode[a]
      BY <3>1, Writers DEF StepView
    <3> QED BY <3>1, <3>2
  <2> QED BY <1>3, <2>2, <2>3
<1> QED BY <1>2, <1>3

\* The risk debate never counts a speech it does not hold, and the judge is only
\* called when enough are counted.
LEMMA StepKeepsRisk ==
  ASSUME GraphAssumption, TypeOK, StepView, RiskOK
  PROVE  RiskOK'
<1> DEFINE r == state["risk"]
           e == state'["risk"]
           R == RiskRounds[setup.depth]
<1>1. R \in Nat /\ r.count \in Nat /\ r.risky \in Nat /\ r.safe \in Nat /\ r.neutral \in Nat
  BY RoundsAreNumbers DEF RiskDebateState
<1>2. r.count = r.risky + r.safe + r.neutral /\ ("Risk_Judge" \in Active => r.count >= 3 * R)
  BY DEF RiskOK
<1>3. ASSUME NEW n \in Active, n \in RiskDebators
      PROVE  LET f == writes[n]["risk"]
             IN  /\ f.count = r.count + 1 /\ f \in RiskDebateState
                 /\ f.risky + f.safe + f.neutral = r.risky + r.safe + r.neutral + 1
                 /\ "risk" \in DOMAIN writes[n]
  <2>1. Wrote(n, writes[n])
    BY DEF StepView
  <2> QED BY <1>3, <2>1 DEF Wrote
<1>4. ASSUME NEW n \in Active, n = "Risk_Judge"
      PROVE  LET f == writes[n]["risk"]
             IN  f.count = r.count /\ f.risky = r.risky /\ f.safe = r.safe /\ f.neutral = r.neutral
  BY <1>4 DEF StepView, Wrote
<1>5. \/ e = r
      \/ \E n \in Active : n \in RiskDebators \cup {"Risk_Judge"} /\ e = writes[n]["risk"]
  BY NewValues DEF Keys, Analysts
<1>6. e.count = e.risky + e.safe + e.neutral
  <2>1. CASE e = r
    BY <1>2, <2>1
  <2>2. CASE \E n \in Active : n \in RiskDebators /\ e = writes[n]["risk"]
    <3>1. /\ e.count = r.count + 1 /\ e \in RiskDebateState
          /\ e.risky + e.safe + e.neutral = r.risky + r.safe + r.neutral + 1
      BY <1>3, <2>2
    <3> HIDE DEF r, e
    <3> QED BY <1>1, <1>2, <3>1 DEF RiskDebateState
  <2>3. CASE \E n \in Active : n = "Risk_Judge" /\ e = writes[n]["risk"]
    BY <1>2, <1>4, <2>3
  <2> QED BY <1>5, <2>1, <2>2, <2>3
<1>7. "Risk_Judge" \in next => e.count >= 3 * R
  <2> SUFFICES ASSUME "Risk_Judge" \in next PROVE e.count >= 3 * R
    OBVIOUS
  <2>1. PICK n \in Active : n \in Nodes /\ "Risk_Judge" \in Successors(n, Over(writes[n], state))
    BY DEF StepView
  <2>2. n \in RiskDebators
    BY <2>1, CalledBy
  <2>3. Successors(n, Over(writes[n], state)) = {ShouldContinueRiskAnalysis(Over(writes[n], state))}
    BY <2>2, OtherEdges
  <2>4. Over(writes[n], state)["risk"].count >= 3 * R
    BY <2>1, <2>3, RiskRoutes
  <2>5. Over(writes[n], state)["risk"] = writes[n]["risk"]
    BY <1>3, <2>2 DEF Over
  <2>6. r.count + 1 >= 3 * R
    BY <1>3, <2>2, <2>4, <2>5
  <2>7. PICK m \in Active : m \in RiskDebators \cup {"Risk_Judge"} /\ e = writes[m]["risk"]
    <3>1. PICK m \in Active : "risk" \in DOMAIN writes[m] /\ e = writes[m]["risk"]
      BY <1>3, <2>2 DEF StepView, Keys
    <3>2. m \in RiskDebators \cup {"Risk_Judge"}
      BY <3>1, Writers DEF StepView
    <3> QED BY <3>1, <3>2
  <2>8. CASE m = "Risk_Judge"
    BY <1>2, <1>4, <2>7, <2>8
  <2>9. CASE m \in RiskDebators
    BY <1>3, <2>6, <2>7, <2>9
  <2> QED BY <2>7, <2>8, <2>9
<1>8. R' = R /\ Active' = next
  BY DEF StepView
<1> QED BY <1>6, <1>7, <1>8 DEF RiskOK

\* Whoever comes after the research manager finds a plan.
LEMMA StepKeepsPlan ==
  ASSUME StepView, PlanMade
  PROVE  PlanMade'
<1> SUFFICES ASSUME NEW m \in next \cap Later PROVE state'["plan"] \in Plans
  BY DEF PlanMade, StepView
<1>1. PICK n \in Active : n \in Nodes /\ m \in Successors(n, Over(writes[n], state))
  BY DEF StepView
<1>2. m \notin Early
  BY NodeSets DEF Later, Early, RiskDebators, Researchers
<1>3. n = "Research_Manager" \/ n \in Later
  BY <1>1, <1>2, EdgesByPhase DEF Nodes, Early, Later
<1>4. CASE n = "Research_Manager"
  BY <1>4, NewPlan
<1>5. CASE n \in Later
  BY <1>5, NewPlan DEF PlanMade
<1> QED BY <1>3, <1>4, <1>5

\* What is made from stale reports, plans or risk debates is made again.
LEMMA StepKeepsFresh ==
  ASSUME GraphAssumption, TypeOK, StepView, ReportsUsed, TradeFollows, DecisionFollows,
         AnalystsReport
  PROVE  ReportsUsed' /\ TradeFollows' /\ DecisionFollows' /\ AnalystsReport'
<1>1. Active' = next /\ setup' = setup /\ setup.analysts \subseteq Analysts
  BY DEF StepView, TypeOK, GraphAssumption, SetupType
<1>2. \A n \in Active : n \in Nodes /\ Successors(n, Over(writes[n], state)) \subseteq next
  BY DEF StepView
<1>3. ASSUME NEW n \in Active \cap Early, n # "Research_Manager" PROVE next \cap Early # {}
  <2>1. /\ Successors(n, Over(writes[n], state)) # {}
        /\ Successors(n, Over(writes[n], state)) \subseteq Early
    <3>1. n # "Risk_Judge"
      BY Kinds DEF Early
    <3> QED BY <1>2, <1>3, <3>1, EdgesByPhase
  <2> QED BY <1>2, <2>1
<1>4. \A a \in Analysts : AnalystNode[a] \in Early \ {"Research_Manager"}
  BY Kinds DEF Early
<1>5. "Research_Manager" \in Active => "Trader" \in next
  BY <1>2, OtherEdges
<1>6. "Research_Manager" \in Early
  BY DEF Early
<1>7. ReportsUsed'
  <2> SUFFICES ASSUME next \cap Early = {}
               PROVE  \A a \in Analysts : state'["plan"].reports[a] = state'[a]
    BY <1>1 DEF ReportsUsed
  <2>1. \A a \in Analysts : state'[a] = state[a]
    BY <1>3, <1>4, NewReport
  <2>2. CASE "Research_Manager" \in Active
    BY <2>1, <2>2, NewPlan
  <2>3. CASE "Research_Manager" \notin Active
    <3>1. Active \cap Early = {}
      BY <1>3, <2>3
    <3> QED BY <2>1, <2>3, <3>1, NewPlan DEF ReportsUsed
  <2> QED BY <2>2, <2>3
<1>8. TradeFollows'
  <2> SUFFICES ASSUME next \cap (Early \cup {"Trader"}) = {} PROVE state'["trade"] = state'["plan"]
    BY <1>1 DEF TradeFollows
  <2>1. "Research_Manager" \notin Active
    BY <1>5
  <2>2. Active \cap Early = {}
    BY <1>3, <2>1
  <2>3. state'["plan"] = state["plan"]
    BY <2>1, NewPlan
  <2> QED BY <2>2, <2>3, NewTrade DEF TradeFollows
<1>9. DecisionFollows'
  <2> SUFFICES ASSUME next = {} PROVE state'["decision"].plan = state'["plan"]
    BY <1>1 DEF DecisionFollows
  <2>1. \A n \in Active : n = "Risk_Judge"
    BY <1>2, EdgesByPhase
  <2>2. state'["plan"] = state["plan"]
    BY <2>1, NewPlan
  <2> QED BY <2>1, <2>2, NewDecision DEF DecisionFollows
<1>10. AnalystsReport'
  <2> SUFFICES ASSUME NEW a \in setup.analysts PROVE state'[a].report # ""
    BY <1>1 DEF AnalystsReport
  <2>1. a \in Analysts
    BY <1>1
  <2> QED BY <2>1, NewReport DEF AnalystsReport
<1> QED BY <1>7, <1>8, <1>9, <1>10

\* The plan is made from a whole debate, the decision from enough risk speeches.
LEMMA StepKeepsHeard ==
  ASSUME GraphAssumption, TypeOK, StepView, DebateOK, InPhase, RiskOK, BothSidesHeard, JudgeHearsEnough
  PROVE  BothSidesHeard' /\ JudgeHearsEnough'
<1>1. UNCHANGED setup
  BY DEF StepView
<1>2. BothSidesHeard'
  <2>1. CASE "Research_Manager" \notin Active
    BY <1>1, <2>1, NewPlan DEF BothSidesHeard
  <2>2. CASE "Research_Manager" \in Active
    <3> DEFINE d == state["debate"]
    <3>1. Rounds \in Nat /\ d.count \in Nat /\ d.bull \in Nat /\ d.bear \in Nat
      BY RoundsAreNumbers DEF InvestDebateState
    <3>2. d.count = d.bull + d.bear /\ d.bull = d.bear /\ d.count = 2 * Rounds
      BY <2>2, OneSpeaker DEF DebateOK
    <3>3. state'["plan"].heard = d
      BY <2>2, NewPlan
    <3>4. \A x, y \in Nat : x + x = 2 * y => x = y
      OBVIOUS
    <3>5. d.bull = Rounds /\ d.bear = Rounds
      BY <3>1, <3>2, <3>4
    <3> HIDE DEF d
    <3> QED BY <1>1, <3>3, <3>5 DEF BothSidesHeard, Rounds
  <2> QED BY <2>1, <2>2
<1>3. JudgeHearsEnough'
  <2>1. CASE "Risk_Judge" \notin Active
    BY <1>1, <2>1, NewDecision DEF JudgeHearsEnough
  <2>2. CASE "Risk_Judge" \in Active
    <3>1. state'["decision"].heard = state["risk"]
      BY <2>2, NewDecision
    <3>2. LET r == state["risk"]
          IN  r.risky + r.safe + r.neutral >= 3 * RiskRounds[setup.depth]
      BY <2>2 DEF RiskOK
    <3> QED BY <1>1, <3>1, <3>2 DEF JudgeHearsEnough
  <2> QED BY <2>1, <2>2
<1> QED BY <1>2, <1>3

-----------------------------------------------------------------------------
(* Types.                                                                  *)

\* What may stand under a key of the state.
KeyTyped(k, v) ==
  /\ k \in Analysts => v \in AnalystState
  /\ k = "debate" => v \in InvestDebateState
  /\ k = "risk" => v \in RiskDebateState
  /\ k \in {"plan", "trade"} => v = NoPlan \/ v \in Plans
  /\ k = "decision" => v = NoPlan \/ v \in Decisions

StateTyped(s) == DOMAIN s = Keys /\ \A k \in Keys : KeyTyped(k, s[k])

TypedByKey ==
  /\ setup \in Setups /\ StateTyped(state) /\ StateTyped(final)
  /\ running \subseteq Nodes /\ next \subseteq Nodes /\ DOMAIN writes \subseteq Nodes
  /\ messages \cup posted \cup reply \subseteq Nodes \cup {"START"}
  /\ step \in 0 .. MaxRecurLimit
  /\ outcome \in {"running", "done", "raised", "recursion"}

\* The type invariant, key by key.
LEMMA TypesByKey == TypeOK <=> TypedByKey
<1> DEFINE Typed(s) ==
             /\ DOMAIN s = Keys
             /\ \A a \in Analysts : s[a] \in AnalystState
             /\ s["debate"] \in InvestDebateState
             /\ s["risk"] \in RiskDebateState
             /\ \A k \in {"plan", "trade"} : s[k] = NoPlan \/ s[k] \in Plans
             /\ s["decision"] = NoPlan \/ s["decision"] \in Decisions
<1>1. ASSUME NEW s PROVE Typed(s) <=> StateTyped(s)
  <2>1. /\ Analysts \subseteq Keys /\ {"debate", "risk", "plan", "trade", "decision"} \subseteq Keys
        /\ \A a \in Analysts : a \notin {"debate", "risk", "plan", "trade", "decision"}
    BY DEF Keys, Analysts
  <2>2. ASSUME Typed(s) PROVE StateTyped(s)
    BY <2>1, <2>2 DEF StateTyped, KeyTyped, Keys
  <2>3. ASSUME StateTyped(s) PROVE Typed(s)
    BY <2>1, <2>3 DEF StateTyped, KeyTyped
  <2> QED BY <2>2, <2>3
<1>2. TypeOK <=> /\ setup \in Setups /\ Typed(state) /\ Typed(final)
                 /\ running \subseteq Nodes /\ next \subseteq Nodes /\ DOMAIN writes \subseteq Nodes
                 /\ messages \cup posted \cup reply \subseteq Nodes \cup {"START"}
                 /\ step \in 0 .. MaxRecurLimit
                 /\ outcome \in {"running", "done", "raised", "recursion"}
  BY DEF TypeOK
<1> HIDE DEF Typed
<1> QED BY <1>1, <1>2 DEF TypedByKey

\* An update of a node is typed.
LEMMA UpdateTyped ==
  ASSUME StateTyped(state), NEW n \in Nodes, NEW u, Wrote(n, u), NEW k \in DOMAIN u
  PROVE  k \in Keys /\ KeyTyped(k, u[k])
<1>1. /\ k \in Keys
      /\ k \in Analysts => n = AnalystNode[k]
      /\ k = "debate" => n \in Researchers \cup {"Research_Manager"}
      /\ k = "risk" => n \in RiskDebators \cup {"Risk_Judge"}
      /\ k = "plan" => n = "Research_Manager"
      /\ k = "trade" => n = "Trader"
      /\ k = "decision" => n = "Risk_Judge"
  BY Writers
<1>2. CASE k \in Analysts
  <2>1. u[k] \in AnalystState
    BY <1>1, <1>2 DEF Wrote
  <2> QED BY <1>1, <1>2, <2>1 DEF KeyTyped, Analysts
<1>3. CASE k = "debate"
  <2>1. u[k] \in InvestDebateState
    BY <1>1, <1>3 DEF Wrote
  <2> QED BY <1>1, <1>3, <2>1 DEF KeyTyped, Analysts
<1>4. CASE k = "risk"
  <2>1. u[k] \in RiskDebateState
    BY <1>1, <1>4 DEF Wrote
  <2> QED BY <1>1, <1>4, <2>1 DEF KeyTyped, Analysts
<1>5. CASE k = "plan"
  <2>1. u[k] \in Plans
    BY <1>1, <1>5 DEF Wrote
  <2> QED BY <1>1, <1>5, <2>1 DEF KeyTyped, Analysts
<1>6. CASE k = "trade"
  <2>1. u[k] = state["plan"]
    BY <1>1, <1>6 DEF Wrote
  <2>2. state["plan"] = NoPlan \/ state["plan"] \in Plans
    BY DEF StateTyped, KeyTyped, Keys
  <2> QED BY <1>1, <1>6, <2>1, <2>2 DEF KeyTyped, Analysts
<1>7. CASE k = "decision"
  <2>1. u[k] \in Decisions
    BY <1>1, <1>7 DEF Wrote
  <2> QED BY <1>1, <1>7, <2>1 DEF KeyTyped, Analysts
<1> QED BY <1>1, <1>2, <1>3, <1>4, <1>5, <1>6, <1>7 DEF Keys

\* A typed state with a node's update is typed, and still a function.
LEMMA OverTyped ==
  ASSUME StateTyped(state), NEW n \in Nodes, NEW u, Wrote(n, u), NEW s, StateTyped(s)
  PROVE  StateTyped(Over(u, s)) /\ Functional(Over(u, s))
<1>1. \A k \in DOMAIN u : k \in Keys /\ KeyTyped(k, u[k])
  BY UpdateTyped
<1>2. DOMAIN s = Keys
  BY DEF StateTyped
<1>3. Over(u, s) = [k \in Keys |-> IF k \in DOMAIN u THEN u[k] ELSE s[k]]
  <2>1. DOMAIN u \cup DOMAIN s = Keys
    BY <1>1, <1>2
  <2> QED BY <2>1 DEF Over
<1> QED BY <1>1, <1>3 DEF StateTyped, Functional

\* The state after a superstep is typed.
LEMMA StepTyped ==
  ASSUME GraphAssumption, GraphTypes, StepView, Superstep
  PROVE  GraphTypes'
<1>1. /\ setup \in Setups /\ StateTyped(state) /\ StateTyped(final)
      /\ next \subseteq Nodes /\ step \in 0 .. MaxRecurLimit /\ step < MaxRecurLimit
      /\ messages \cup posted \cup reply \subseteq Nodes \cup {"START"}
      /\ Functional(state) /\ Functional(final) /\ MaxRecurLimit \in Nat
  BY TypesByKey DEF TypedByKey, GraphTypes, OutcomeOK, Superstep, GraphAssumption
<1>2. /\ UNCHANGED <<setup, final, reply>> /\ running' = next /\ next' = {} /\ writes' = <<>>
      /\ step' = step + 1 /\ messages' = messages \cup posted /\ posted' = {}
      /\ outcome' = IF next = {} THEN "done"
                    ELSE IF step' >= MaxRecurLimit THEN "recursion" ELSE "running"
  BY DEF Superstep
<1>3. StateTyped(state')
  <2>1. DOMAIN state' = Keys
    BY DEF Superstep
  <2>2. ASSUME NEW k \in Keys PROVE KeyTyped(k, state'[k])
    <3>1. CASE state'[k] = state[k]
      BY <1>1, <3>1 DEF StateTyped
    <3>2. CASE \E n \in Active : k \in DOMAIN writes[n] /\ state'[k] = writes[n][k]
      BY <1>1, <3>2, UpdateTyped DEF StepView
    <3> QED BY <3>1, <3>2 DEF StepView
  <2> QED BY <2>1, <2>2 DEF StateTyped
<1>4. Functional(state')
  BY DEF Superstep, Functional
<1>5. step' \in 0 .. MaxRecurLimit
  BY <1>1, <1>2
<1>6. TypeOK'
  <2>1. TypedByKey'
    BY <1>1, <1>2, <1>3, <1>5, NoUpdate DEF TypedByKey
  <2> QED BY <2>1, TypesByKey, PTL
<1>7. OutcomeOK'
  BY <1>1, <1>2, <1>5, NoUpdate DEF OutcomeOK, Active
<1>8. Functional(final)'
  BY <1>1, <1>2
<1> QED BY <1>4, <1>6, <1>7, <1>8 DEF GraphTypes

\* final_state is current after a superstep, or the key will be written again.
LEMMA StepFinal ==
  ASSUME GraphTypes, WritesOK, FinalOK, Superstep, StepView
  PROVE  FinalOK'
<1>1. /\ running = {} /\ Active = DOMAIN writes /\ running' = next
      /\ writes' = <<>> /\ UNCHANGED final
  BY DEF Superstep, Active
<1>2. DOMAIN writes' = {} /\ Written' = {}
  BY <1>1, NoUpdate DEF Written
<1>3. ASSUME NEW k \in Keys, Current(k) PROVE Current(k)'
  <2>1. /\ \A n \in DOMAIN writes : k \in DOMAIN writes[n] => final[k] = writes[n][k]
        /\ (\A n \in DOMAIN writes : k \notin DOMAIN writes[n]) => final[k] = state[k]
    BY <1>3 DEF Current, Written
  <2>2. final[k] = state'[k]
    BY <1>1, <2>1 DEF StepView
  <2> QED BY <1>1, <1>2, <2>2 DEF Current
<1>4. ASSUME NEW k \in Keys, Owed(k) PROVE Owed(k)'
  BY <1>1, <1>4 DEF Owed
<1> QED BY <1>3, <1>4 DEF FinalOK

-----------------------------------------------------------------------------
(* A node finishes.                                                        *)

\* The edges depend on the graph alone.
LEMMA SameEdges ==
  ASSUME UNCHANGED setup, NEW n, NEW s
  PROVE  Successors(n, s)' = Successors(n, s)
BY DEF Successors, ShouldContinueDebate, ShouldContinueRiskAnalysis,
       ShouldContinueAnalyst, ShouldContinueFundamentals

\* The updates a node may return depend on the graph and the state it reads.
LEMMA SameWrote ==
  ASSUME UNCHANGED <<setup, state>>, NEW n, NEW u, Wrote(n, u)
  PROVE  Wrote(n, u)'
BY DEF Wrote, DebateOver

\* The update of one key.
LEMMA OnlyOne ==
  ASSUME NEW k, NEW v
  PROVE  DOMAIN Only(k, v) = {k} /\ Only(k, v)[k] = v
BY DEF Only

\* A state, or an update, with an update.
LEMMA OverBoth ==
  ASSUME NEW u, NEW s
  PROVE  /\ DOMAIN Over(u, s) = DOMAIN u \cup DOMAIN s
         /\ \A k \in DOMAIN u : Over(u, s)[k] = u[k]
         /\ \A k \in DOMAIN s : k \notin DOMAIN u => Over(u, s)[k] = s[k]
BY DEF Over

\* What the end of a node does.
FinishView(n, u) ==
  /\ outcome = "running" /\ n \in running /\ running' = running \ {n}
  /\ DOMAIN writes' = DOMAIN writes \cup {n} /\ writes'[n] = u
  /\ \A m \in DOMAIN writes : m # n => writes'[m] = writes[m]
  /\ next' = next \cup Successors(n, Over(u, state))
  /\ final' = Over(u, final)
  /\ UNCHANGED <<setup, state, step, outcome>> /\ Active' = Active

\* Finish, seen from the updates and the nodes at work.
LEMMA FinishSeen ==
  ASSUME NEW n, NEW u, NEW post, Finish(n, u, post)
  PROVE  FinishView(n, u)
<1>1. DOMAIN writes' = DOMAIN writes \cup {n} /\ writes'[n] = u
      /\ \A m \in DOMAIN writes : m # n => writes'[m] = writes[m]
  <2>1. writes' = Over(Only(n, u), writes)
    BY DEF Finish
  <2>2. DOMAIN Only(n, u) = {n} /\ Only(n, u)[n] = u
    BY OnlyOne
  <2>3. /\ DOMAIN Over(Only(n, u), writes) = DOMAIN Only(n, u) \cup DOMAIN writes
        /\ \A m \in DOMAIN Only(n, u) : Over(Only(n, u), writes)[m] = Only(n, u)[m]
        /\ \A m \in DOMAIN writes : m \notin DOMAIN Only(n, u) =>
             Over(Only(n, u), writes)[m] = writes[m]
    BY OverBoth
  <2> QED BY <2>1, <2>2, <2>3
<1>2. Active' = Active
  BY <1>1 DEF Finish, Active
<1> QED BY <1>1, <1>2 DEF Finish, FinishView

\* The updates of the others are as they were.
LEMMA FinishWrites ==
  ASSUME WritesOK, NEW n, NEW u, Wrote(n, u), FinishView(n, u)
  PROVE  WritesOK'
<1>1. /\ n \in running /\ running' = running \ {n}
      /\ DOMAIN writes' = DOMAIN writes \cup {n} /\ writes'[n] = u
      /\ next' = next \cup Successors(n, Over(u, state))
      /\ UNCHANGED <<setup, state>>
  BY DEF FinishView
<1>2. n \notin DOMAIN writes /\ \A m \in DOMAIN writes : writes'[m] = writes[m]
  BY <1>1 DEF WritesOK, FinishView
<1>3. running' \cap DOMAIN writes' = {}
  BY <1>1 DEF WritesOK
<1>4. ASSUME NEW m \in DOMAIN writes'
      PROVE  /\ Wrote(m, writes'[m])
             /\ Successors(m, Over(writes'[m], state)) \subseteq next'
             /\ m = n => writes'[m] = u
  BY <1>1, <1>2 DEF WritesOK
<1>5. \A m \in DOMAIN writes' : Wrote(m, writes[m])'
  <2>1. ASSUME NEW m \in DOMAIN writes' PROVE Wrote(m, writes[m])'
    BY <1>1, <1>4, SameWrote
  <2> QED BY <2>1
<1>6. \A m : Successors(m, Over(writes[m], state))' = Successors(m, Over(writes'[m], state))
  <2>1. ASSUME NEW m PROVE Successors(m, Over(writes[m], state))' = Successors(m, Over(writes'[m], state))
    BY <1>1 DEF Successors, ShouldContinueDebate, ShouldContinueRiskAnalysis,
                ShouldContinueAnalyst, ShouldContinueFundamentals, Over
  <2> QED BY <2>1
<1>7. \A m \in DOMAIN writes' : Successors(m, Over(writes'[m], state)) \subseteq next'
  BY <1>4
<1>8. \A p \in next' : \E m \in DOMAIN writes' : p \in Successors(m, Over(writes'[m], state))
  <2> SUFFICES ASSUME NEW p \in next'
               PROVE  \E m \in DOMAIN writes' : p \in Successors(m, Over(writes'[m], state))
    OBVIOUS
  <2>1. CASE p \in Successors(n, Over(u, state))
    BY <1>1, <2>1
  <2>2. CASE p \in next
    <3>1. PICK m \in DOMAIN writes : p \in Successors(m, Over(writes[m], state))
      BY <2>2 DEF WritesOK
    <3> QED BY <1>1, <1>2, <3>1
  <2> QED BY <1>1, <2>1, <2>2
<1> QED BY <1>3, <1>5, <1>6, <1>7, <1>8 DEF WritesOK

\* Two nodes of a superstep that write the same key write a debate, which its
\* judge will write again.
LEMMA SharedKeys ==
  ASSUME GraphAssumption, TypeOK, DebateOK, InPhase, NEW n \in Active, NEW m \in Active, n # m,
         NEW u, NEW v, Wrote(n, u), Wrote(m, v),
         NEW called, Successors(n, Over(u, state)) \subseteq called,
         Successors(m, Over(v, state)) \subseteq called,
         NEW k \in DOMAIN u \cap DOMAIN v
  PROVE  \/ k = "debate" /\ "Research_Manager" \in called
         \/ k = "risk" /\ called \cap (RiskDebators \cup {"Risk_Judge"}) # {}
<1> USE DEF Researchers
<1>1. n \in Nodes /\ m \in Nodes
  BY DEF Active, TypeOK
<1>2. /\ k \in Keys /\ k \notin Analysts \cup {"plan", "trade", "decision"}
      /\ k = "debate" => n \in Researchers \cup {"Research_Manager"}
      /\ k = "risk" => n \in RiskDebators \cup {"Risk_Judge"}
      /\ k = "debate" => m \in Researchers \cup {"Research_Manager"}
      /\ k = "risk" => m \in RiskDebators \cup {"Risk_Judge"}
  <2>1. /\ k \in Keys
        /\ k \in Analysts => n = AnalystNode[k] /\ m = AnalystNode[k]
        /\ k = "debate" => n \in Researchers \cup {"Research_Manager"}
        /\ k = "risk" => n \in RiskDebators \cup {"Risk_Judge"}
        /\ k = "debate" => m \in Researchers \cup {"Research_Manager"}
        /\ k = "risk" => m \in RiskDebators \cup {"Risk_Judge"}
        /\ k = "plan" => n = "Research_Manager" /\ m = "Research_Manager"
        /\ k = "trade" => n = "Trader" /\ m = "Trader"
        /\ k = "decision" => n = "Risk_Judge" /\ m = "Risk_Judge"
    BY <1>1, Writers
  <2> QED BY <2>1
<1>3. ASSUME k = "debate", NEW p \in Active, p \in Researchers, NEW w, Wrote(p, w),
             Successors(p, Over(w, state)) \subseteq called, "Research_Manager" \in Active
      PROVE  "Research_Manager" \in called
  <2> DEFINE d == state["debate"]
  <2>1. d.count = 2 * Rounds /\ Rounds \in Nat
    BY <1>3, RoundsAreNumbers DEF DebateOK
  <2>2. p \in Researchers \cap Active
    BY <1>3
  <2>3. /\ IF d.count >= 2 * Rounds THEN w["debate"] = d ELSE TRUE
        /\ w["debate"].count >= 2 * Rounds =>
             Successors(p, Over(w, state)) = {"Research_Manager"}
    BY <1>3, <2>2, SpeechPasses
  <2>4. w["debate"].count >= 2 * Rounds
    <3> HIDE DEF d
    <3> QED BY <2>1, <2>3
  <2> QED BY <1>3, <2>3, <2>4
<1>4. CASE k = "debate"
  <2>1. ~({n, m} = {"Bull_Researcher", "Bear_Researcher"})
    BY OneSpeaker
  <2>2. (n \in Researchers /\ m = "Research_Manager") \/ (m \in Researchers /\ n = "Research_Manager")
    BY <1>2, <1>4, <2>1
  <2> QED BY <1>3, <1>4, <2>2
<1>5. CASE k = "risk"
  <2>1. PICK p \in {n, m} : p \in RiskDebators
    BY <1>2, <1>5
  <2>2. \A s : Successors(p, s) = {ShouldContinueRiskAnalysis(s)}
    BY <2>1, OtherEdges
  <2>3. called \cap (RiskDebators \cup {"Risk_Judge"}) # {}
    BY <2>1, <2>2, RiskRoutes
  <2> QED BY <1>5, <2>3
<1> QED BY <1>2, <1>4, <1>5 DEF Keys

\* final_state is current after a node has finished, or the key will be written
\* again.
LEMMA FinishFinal ==
  ASSUME GraphAssumption, AgentInv, NEW n, NEW u, Wrote(n, u), FinishView(n, u), WritesOK'
  PROVE  FinalOK'
<1>1. /\ n \in running /\ running' = running \ {n} /\ n \in Nodes
      /\ DOMAIN writes' = DOMAIN writes \cup {n} /\ writes'[n] = u
      /\ next' = next \cup Successors(n, Over(u, state))
      /\ final' = Over(u, final) /\ UNCHANGED <<setup, state>>
      /\ DOMAIN final = Keys /\ n \in Active
  BY DEF FinishView, AgentInv, GraphTypes, TypeOK, Active
<1>2. n \notin DOMAIN writes /\ \A m \in DOMAIN writes : writes'[m] = writes[m]
  BY <1>1 DEF WritesOK, FinishView, AgentInv
<1>3. SUFFICES ASSUME NEW k \in Keys PROVE (Current(k) \/ Owed(k))'
  BY DEF FinalOK
<1>4. /\ k \in DOMAIN u => final'[k] = u[k]
      /\ k \notin DOMAIN u => final'[k] = final[k]
  <2>1. /\ \A j \in DOMAIN u : Over(u, final)[j] = u[j]
        /\ \A j \in DOMAIN final : j \notin DOMAIN u => Over(u, final)[j] = final[j]
    BY OverBoth
  <2> QED BY <1>1, <2>1
<1>5. CASE k \in DOMAIN u /\ \A m \in DOMAIN writes : k \notin DOMAIN writes[m]
  <2>1. \A m \in DOMAIN writes' : k \in DOMAIN writes'[m] => m = n
    BY <1>1, <1>2, <1>5
  <2>2. k \in Written'
    BY <1>1, <1>5 DEF Written
  <2> QED BY <1>1, <1>4, <1>5, <2>1, <2>2 DEF Current
<1>6. ASSUME k \in DOMAIN u, NEW m \in DOMAIN writes, k \in DOMAIN writes[m]
      PROVE  Owed(k)'
  <2>1. /\ Wrote(m, writes[m]) /\ m \in Active /\ n # m
        /\ Successors(m, Over(writes[m], state)) \subseteq next'
        /\ Successors(n, Over(u, state)) \subseteq next'
    BY <1>1, <1>2, <1>6 DEF AgentInv, WritesOK, Active
  <2>2. \/ k = "debate" /\ "Research_Manager" \in next'
        \/ k = "risk" /\ next' \cap (RiskDebators \cup {"Risk_Judge"}) # {}
    <3>1. TypeOK /\ DebateOK /\ InPhase
      BY DEF AgentInv, GraphTypes, GraphInv
    <3>2. n \in Active /\ k \in DOMAIN u \cap DOMAIN writes[m]
      BY <1>1, <1>6 DEF Active
    <3> QED BY <1>1, <2>1, <3>1, <3>2, SharedKeys
  <2> QED BY <2>2 DEF Owed
<1>7. CASE k \notin DOMAIN u /\ Current(k)
  <2>1. \A m \in DOMAIN writes' : k \in DOMAIN writes'[m] => m \in DOMAIN writes
    BY <1>1, <1>7
  <2>2. k \notin Written' => k \notin Written
    BY <1>1, <1>2 DEF Written
  <2> QED BY <1>1, <1>2, <1>4, <1>7, <2>1, <2>2 DEF Current
<1>8. CASE k \notin DOMAIN u /\ Owed(k)
  <2>1. n = "Research_Manager" => "debate" \in DOMAIN u
    BY DEF Wrote
  <2>2. n \in RiskDebators \cup {"Risk_Judge"} => "risk" \in DOMAIN u
    BY DEF Wrote
  <2> QED BY <1>1, <1>8, <2>1, <2>2 DEF Owed
<1>9. Current(k) \/ Owed(k)
  BY DEF AgentInv, FinalOK
<1> QED BY <1>5, <1>6, <1>7, <1>8, <1>9

\* What a node posts goes with its update, and replaces what propagate has.
LEMMA FinishPosts ==
  ASSUME NEW n, NEW u, NEW post, MayPost(n, post), Finish(n, u, post)
  PROVE  /\ messages' = messages /\ posted' \subseteq posted \cup {n}
         /\ posted \subseteq posted' /\ reply' \subseteq reply \cup {n}
         /\ reply' \subseteq reply \cup posted'
         /\ n \in ClearNodes => n \in posted'
         /\ n = "Trader" => reply' = {"Trader"}
         /\ DOMAIN post = {} => reply' = reply
<1>1. /\ messages' = messages /\ posted' = posted \cup UNION {post[k] : k \in DOMAIN post}
      /\ reply' = IF DOMAIN post = {} THEN reply ELSE post["messages"]
  BY DEF Finish
<1>2. CASE DOMAIN post = {}
  BY <1>1, <1>2 DEF MayPost
<1>3. CASE DOMAIN post = {"messages"}
  <2>1. post["messages"] \subseteq {n} /\ UNION {post[k] : k \in DOMAIN post} = post["messages"]
    BY <1>3 DEF MayPost
  <2>2. n \in ClearNodes \cup {"Trader"} => post["messages"] = {n}
    BY DEF MayPost
  <2> QED BY <1>1, <1>3, <2>1, <2>2
<1> QED BY <1>2, <1>3 DEF MayPost

\* A node before the trader leads to another, which will post after it.
LEMMA FinishTalk ==
  ASSUME GraphAssumption, AgentInv, NEW n, NEW u, NEW post, MayPost(n, post), Finish(n, u, post)
  PROVE  TalkOK'
<1> DEFINE S == Successors(n, Over(u, state))
<1>1. /\ n \in running /\ running' = running \ {n} /\ next' = next \cup S
      /\ DOMAIN writes' = DOMAIN writes \cup {n} /\ UNCHANGED setup /\ n \in Nodes
  BY FinishSeen DEF FinishView, AgentInv, GraphTypes, TypeOK
<1>2. /\ messages' = messages /\ posted' \subseteq posted \cup {n} /\ posted \subseteq posted'
      /\ reply' \subseteq reply \cup posted' /\ reply' \subseteq reply \cup {n}
      /\ n \in ClearNodes => n \in posted'
      /\ n = "Trader" => reply' = {"Trader"}
      /\ DOMAIN post = {} => reply' = reply
  BY FinishPosts
<1>3. /\ "START" \in messages /\ posted \subseteq DOMAIN writes /\ reply \subseteq messages \cup posted
      /\ reply = {"Trader"} \/ (running \cup next) \cap (Early \cup {"Trader"}) # {}
      /\ \A a \in setup.analysts :
           \/ ClearNode[a] \in messages \cup posted
           \/ (running \cup next) \cap {AnalystNode[a], ToolsNode[a], ClearNode[a]} # {}
  BY DEF AgentInv, TalkOK
<1>4. reply' = {"Trader"} \/ (running' \cup next') \cap (Early \cup {"Trader"}) # {}
  <2>1. CASE n \in Early
    <3>1. n \in Early \ {"Research_Manager"} => S \subseteq Early
      BY <1>1, EdgesByPhase
    <3>2. n = "Research_Manager" => S = {"Trader"}
      BY <1>1, EdgesByPhase
    <3>3. S # {}
      <4>1. n # "Risk_Judge"
        BY <2>1, Kinds DEF Early
      <4> QED BY <1>1, <4>1, EdgesByPhase
    <3> HIDE DEF S
    <3> QED BY <1>1, <2>1, <3>1, <3>2, <3>3
  <2>2. CASE n = "Trader"
    BY <1>2, <2>2
  <2>3. CASE n \in RiskDebators \cup {"Risk_Judge"}
    <3>1. n \notin Early \cup {"Trader"}
      BY <2>3, Kinds DEF Early
    <3>2. reply' = reply
      BY <1>2, <2>3 DEF MayPost
    <3> HIDE DEF S
    <3> QED BY <1>1, <1>3, <3>1, <3>2
  <2> QED BY <1>1, <2>1, <2>2, <2>3 DEF Nodes, Early
<1>5. ASSUME NEW a \in setup.analysts
      PROVE  \/ ClearNode[a] \in messages \cup posted'
             \/ (running' \cup next') \cap {AnalystNode[a], ToolsNode[a], ClearNode[a]} # {}
  <2>1. a \in Analysts
    BY GraphAssumption DEF AgentInv, GraphTypes, TypeOK, GraphAssumption, SetupType
  <2>2. CASE n \in {AnalystNode[a], ToolsNode[a]}
    <3>1. S = {ToolsNode[a]} \/ S = {ClearNode[a]} \/ S = {AnalystNode[a]}
      BY <2>1, <2>2, AnalystEdge, ToolsEdge
    <3> HIDE DEF S
    <3> QED BY <1>1, <3>1
  <2>3. CASE n = ClearNode[a]
    BY <1>2, <2>1, <2>3, Kinds
  <2>4. CASE n \notin {AnalystNode[a], ToolsNode[a], ClearNode[a]}
    BY <1>1, <1>2, <1>3, <2>4
  <2> QED BY <2>2, <2>3, <2>4
<1>6. /\ "START" \in messages' /\ posted' \subseteq DOMAIN writes'
      /\ reply' \subseteq messages' \cup posted'
  BY <1>1, <1>2, <1>3
<1> QED BY <1>1, <1>2, <1>4, <1>5, <1>6 DEF TalkOK

\* A node that finishes with an update it may return keeps the invariant.
LEMMA FinishKeeps ==
  ASSUME GraphAssumption, AgentInv, NEW n, NEW u, Wrote(n, u),
         NEW post, MayPost(n, post), Finish(n, u, post)
  PROVE  AgentInv'
<1>1. FinishView(n, u)
  BY FinishSeen
<1>2. /\ n \in running /\ running' = running \ {n} /\ n \in Nodes
      /\ DOMAIN writes' = DOMAIN writes \cup {n}
      /\ next' = next \cup Successors(n, Over(u, state))
      /\ final' = Over(u, final) /\ UNCHANGED <<setup, state, step, outcome>>
      /\ outcome = "running" /\ Active' = Active
  BY <1>1 DEF FinishView, AgentInv, GraphTypes, TypeOK
<1>3. WritesOK'
  BY <1>1, FinishWrites DEF AgentInv
<1>4. FinalOK'
  BY <1>1, <1>3, FinishFinal
<1>5. GraphTypes'
  <2>1. TypedByKey /\ Functional(state) /\ OutcomeOK
    BY TypesByKey DEF AgentInv, GraphTypes
  <2>2. StateTyped(final') /\ Functional(final')
    BY <1>2, <2>1, OverTyped DEF TypedByKey
  <2>3. Successors(n, Over(u, state)) \subseteq Nodes
    BY <1>2, EdgesByPhase
  <2>8. messages' = messages /\ posted' \subseteq posted \cup {n} /\ reply' \subseteq reply \cup {n}
    BY FinishPosts
  <2>4. TypedByKey'
    BY <1>2, <2>1, <2>2, <2>3, <2>8 DEF TypedByKey
  <2>5. TypeOK'
    BY <2>4, TypesByKey, PTL
  <2>6. OutcomeOK'
    BY <1>2, <2>1 DEF OutcomeOK
  <2>7. Functional(state)'
    BY <1>2, <2>1 DEF Functional
  <2> QED BY <2>2, <2>5, <2>6, <2>7 DEF GraphTypes
<1>6. GraphInv'
  BY <1>2 DEF AgentInv, GraphInv, DebateOK, InPhase, RiskOK, PlanMade, ReportsUsed, TradeFollows,
              DecisionFollows, AnalystsReport, BothSidesHeard, JudgeHearsEnough, Rounds
<1>7. TalkOK'
  BY FinishTalk
<1> QED BY <1>3, <1>4, <1>5, <1>6, <1>7 DEF AgentInv

-----------------------------------------------------------------------------
(* Each node returns an update it may return.                              *)

\* What the nodes read is typed, and the judge and the trader find a plan.
LEMMA WhatNodesRead ==
  ASSUME GraphAssumption, AgentInv
  PROVE  /\ \A a \in Analysts : state[a] \in AnalystState
         /\ state["debate"] \in InvestDebateState /\ state["risk"] \in RiskDebateState
         /\ "Risk_Judge" \in running => state["plan"] \in Plans
<1>1. "Risk_Judge" \in Later
  BY DEF Later
<1> QED BY <1>1 DEF AgentInv, GraphTypes, TypeOK, GraphInv, PlanMade, Active

\* An analyst writes a report, whether it asks for tools, and its calls.
LEMMA AnalystWrote ==
  ASSUME NEW a \in Analysts, NEW answer \in Answers[a], state[a] \in AnalystState
  PROVE  Wrote(AnalystNode[a], Only(a, [report |-> answer.report, asks |-> answer.asks,
                                        calls |-> state[a].calls + answer.counts]))
<1> DEFINE v == [report |-> answer.report, asks |-> answer.asks,
                 calls |-> state[a].calls + answer.counts]
           Paths == [report : Texts, asks : BOOLEAN, counts : {0, 1}, posts : BOOLEAN]
<1>1. answer.report \in Texts /\ answer.asks \in BOOLEAN /\ answer.counts \in {0, 1}
  <2>1. Answers[a] \subseteq Paths
    <3>1. \A asks \in SUBSET BOOLEAN, counts \in SUBSET {0, 1} :
            /\ Answer(asks, counts) \subseteq Paths
            /\ NoMessage(counts) \subseteq Paths
      BY DEF Answer, NoMessage
    <3>2. Answers["market"] \subseteq Paths
      BY <3>1 DEF Answers, MarketGoogle, MarketPlain, MarketWithTools, MarketFailed
    <3>3. Answers["social"] \subseteq Paths
      BY <3>1 DEF Answers, SocialGoogle, SocialWithTools, SocialFailed
    <3>4. Answers["news"] \subseteq Paths
      BY <3>1 DEF Answers, NewsPrefetched, NewsForced, NewsWithTools
    <3>5. Answers["fundamentals"] \subseteq Paths
      BY <3>1 DEF Answers, FundamentalsGoogle, FundamentalsWithTools, FundamentalsFromHistory,
                  FundamentalsForced
    <3> QED BY <3>2, <3>3, <3>4, <3>5 DEF Analysts
  <2> QED BY <2>1
<1>2. v \in AnalystState /\ v.report # ""
  <2>1. state[a].calls + answer.counts \in Nat
    <3>1. state[a].calls \in Nat
      BY DEF AnalystState
    <3>2. answer.counts \in Nat
      BY <1>1
    <3>3. \A x, y \in Nat : x + y \in Nat
      OBVIOUS
    <3> QED BY <3>1, <3>2, <3>3
  <2> QED BY <1>1, <2>1 DEF AnalystState, Texts
<1> HIDE DEF v
<1>3. DOMAIN Only(a, v) = {a} /\ Only(a, v)[a] = v
  BY OnlyOne
<1>4. /\ AnalystNode[a] \in AnalystNodes
      /\ \A b \in Analysts : AnalystNode[a] = AnalystNode[b] => b = a
  BY Kinds, NodesOfTwo
<1>5. /\ AnalystNode[a] \notin ToolsNodes \cup ClearNodes
      /\ AnalystNode[a] \notin Researchers \cup RiskDebators
      /\ AnalystNode[a] \notin {"Research_Manager", "Trader", "Risk_Judge"}
  BY <1>4, Kinds
<1>6. Wrote(AnalystNode[a], Only(a, v))
  BY <1>2, <1>3, <1>4, <1>5 DEF Wrote
<1> QED BY <1>6 DEF v

\* The tools and the clearing of the messages write nothing.
LEMMA NothingWrote ==
  ASSUME NEW n \in ToolsNodes \cup ClearNodes
  PROVE  Wrote(n, <<>>)
<1>1. \A a \in Analysts : n # AnalystNode[a]
  BY Kinds
<1>2. /\ n \notin Researchers \cup RiskDebators
      /\ n \notin {"Research_Manager", "Trader", "Risk_Judge"}
  BY Kinds
<1> QED BY <1>1, <1>2, NoUpdate DEF Wrote

\* What the nodes post.
LEMMA NodesPost ==
  /\ \A n \in Nodes \ (ClearNodes \cup {"Trader"}) : MayPost(n, Silent)
  /\ \A n \in AnalystNodes : MayPost(n, Posts({n}))
  /\ \A n \in ToolsNodes : \A S \in SUBSET {n} : MayPost(n, Posts(S))
  /\ \A n \in ClearNodes \cup {"Trader"} : MayPost(n, Posts({n}))
<1>1. \A S : DOMAIN Posts(S) = {"messages"} /\ Posts(S)["messages"] = S
  BY OnlyOne DEF Posts
<1>2. \A n \in AnalystNodes \cup ToolsNodes \cup ClearNodes \cup {"Trader"} :
        n \notin RiskDebators \cup {"Risk_Judge"}
  BY Kinds
<1>3. \A n \in AnalystNodes \cup ToolsNodes : n \notin ClearNodes \cup {"Trader"}
  BY Kinds
<1>4. \A n \in Nodes \ (ClearNodes \cup {"Trader"}) : MayPost(n, Silent)
  BY NoUpdate DEF MayPost, Silent
<1>5. \A n \in AnalystNodes \cup ToolsNodes : \A S \in SUBSET {n} : MayPost(n, Posts(S))
  BY <1>1, <1>2, <1>3 DEF MayPost
<1>6. \A n \in ClearNodes \cup {"Trader"} : MayPost(n, Posts({n}))
  BY <1>1, <1>2 DEF MayPost
<1> QED BY <1>4, <1>5, <1>6

\* The nodes that post nothing.
LEMMA SilentNodes ==
  ASSUME NEW n \in Researchers \cup RiskDebators \cup {"Research_Manager", "Risk_Judge"}
  PROVE  MayPost(n, Silent)
<1>1. n \in Nodes \ (ClearNodes \cup {"Trader"})
  BY Kinds DEF Nodes, Researchers, RiskDebators
<1> QED BY <1>1, NodesPost

\* A researcher adds a speech of its side to a debate that is not over.
LEMMA ResearcherWrote ==
  ASSUME NEW n \in Researchers, NEW e \in InvestDebateState,
         LET d == state["debate"]
         IN  IF DebateOver(d) THEN e = d
             ELSE /\ e.count = d.count + 1
                  /\ n = "Bull_Researcher" =>
                       e.speaker = "Bull" /\ e.bull = d.bull + 1 /\ e.bear = d.bear
                  /\ n = "Bear_Researcher" =>
                       e.speaker = "Bear" /\ e.bull = d.bull /\ e.bear = d.bear + 1
  PROVE  Wrote(n, Only("debate", e))
<1>1. DOMAIN Only("debate", e) = {"debate"} /\ Only("debate", e)["debate"] = e
  BY OnlyOne
<1>2. \A a \in Analysts : n # AnalystNode[a]
  BY Kinds
<1>3. /\ n \notin ToolsNodes \cup ClearNodes /\ n \notin RiskDebators
      /\ n \notin {"Research_Manager", "Trader", "Risk_Judge"}
  BY Kinds
<1> QED BY <1>1, <1>2, <1>3 DEF Wrote

\* A risk analyst adds a speech.
LEMMA DebatorWrote ==
  ASSUME NEW n \in RiskDebators, NEW e \in RiskDebateState,
         LET r == state["risk"]
         IN  /\ e.count = r.count + 1
             /\ e.risky + e.safe + e.neutral = r.risky + r.safe + r.neutral + 1
  PROVE  Wrote(n, Only("risk", e))
<1>1. DOMAIN Only("risk", e) = {"risk"} /\ Only("risk", e)["risk"] = e
  BY OnlyOne
<1>2. \A a \in Analysts : n # AnalystNode[a]
  BY Kinds
<1>3. /\ n \notin ToolsNodes \cup ClearNodes /\ n \notin Researchers
      /\ n \notin {"Research_Manager", "Trader", "Risk_Judge"}
  BY Kinds
<1> QED BY <1>1, <1>2, <1>3 DEF Wrote

\* A speech of one side of the debate.
LEMMA DebateSpeech ==
  ASSUME NEW c \in InvestDebateState, NEW who \in {"Bull", "Bear"}
  PROVE  /\ LET e == [c EXCEPT !.count = @ + 1, !.speaker = who, !.bull = @ + 1]
            IN  /\ e \in InvestDebateState /\ e.count = c.count + 1 /\ e.speaker = who
                /\ e.bull = c.bull + 1 /\ e.bear = c.bear
         /\ LET e == [c EXCEPT !.count = @ + 1, !.speaker = who, !.bear = @ + 1]
            IN  /\ e \in InvestDebateState /\ e.count = c.count + 1 /\ e.speaker = who
                /\ e.bull = c.bull /\ e.bear = c.bear + 1
<1>1. \A m, b \in Nat :
        /\ [c EXCEPT !.count = m, !.speaker = who, !.bull = b] \in InvestDebateState
        /\ [c EXCEPT !.count = m, !.speaker = who, !.bear = b] \in InvestDebateState
  BY DEF InvestDebateState
<1>2. c.count + 1 \in Nat /\ c.bull + 1 \in Nat /\ c.bear + 1 \in Nat
  <2>1. c.count \in Nat /\ c.bull \in Nat /\ c.bear \in Nat
    BY DEF InvestDebateState
  <2> QED BY <2>1
<1>3. /\ [c EXCEPT !.count = @ + 1, !.speaker = who, !.bull = @ + 1] \in InvestDebateState
      /\ [c EXCEPT !.count = @ + 1, !.speaker = who, !.bear = @ + 1] \in InvestDebateState
  BY <1>1, <1>2
<1>4. LET e == [c EXCEPT !.count = @ + 1, !.speaker = who, !.bull = @ + 1]
      IN  e.count = c.count + 1 /\ e.speaker = who /\ e.bull = c.bull + 1 /\ e.bear = c.bear
  BY DEF InvestDebateState
<1>5. LET e == [c EXCEPT !.count = @ + 1, !.speaker = who, !.bear = @ + 1]
      IN  e.count = c.count + 1 /\ e.speaker = who /\ e.bull = c.bull /\ e.bear = c.bear + 1
  BY DEF InvestDebateState
<1> QED BY <1>3, <1>4, <1>5

\* A speech of one of the risk analysts.
LEMMA RiskSpeech ==
  ASSUME state["risk"] \in RiskDebateState,
         NEW e \in {[Speech("Risky") EXCEPT !.risky = @ + 1],
                    [Speech("Safe") EXCEPT !.safe = @ + 1],
                    [Speech("Neutral") EXCEPT !.neutral = @ + 1]}
  PROVE  LET r == state["risk"]
         IN  /\ e \in RiskDebateState /\ e.count = r.count + 1
             /\ e.risky + e.safe + e.neutral = r.risky + r.safe + r.neutral + 1
<1> DEFINE c == state["risk"]
<1>1. PICK who \in {"Risky", "Safe", "Neutral"} :
        e \in {[Speech(who) EXCEPT !.risky = @ + 1], [Speech(who) EXCEPT !.safe = @ + 1],
               [Speech(who) EXCEPT !.neutral = @ + 1]}
  OBVIOUS
<1> DEFINE s == Speech(who)
<1>2. s = [c EXCEPT !.count = @ + 1, !.speaker = who]
  BY DEF Speech
<1>11. e \in {[s EXCEPT !.risky = @ + 1], [s EXCEPT !.safe = @ + 1], [s EXCEPT !.neutral = @ + 1]}
  BY <1>1
<1> HIDE DEF s
<1>3. c \in RiskDebateState
  OBVIOUS
<1> SUFFICES /\ e \in RiskDebateState /\ e.count = c.count + 1
             /\ e.risky + e.safe + e.neutral = c.risky + c.safe + c.neutral + 1
  OBVIOUS
<1> HIDE DEF c
<1>4. /\ c.risky \in Nat /\ c.safe \in Nat /\ c.neutral \in Nat /\ c.count \in Nat
      /\ c = [count |-> c.count, speaker |-> c.speaker, risky |-> c.risky, safe |-> c.safe,
              neutral |-> c.neutral]
  BY <1>3 DEF RiskDebateState
<1>5. s = [count |-> c.count + 1, speaker |-> who, risky |-> c.risky, safe |-> c.safe,
           neutral |-> c.neutral]
  BY <1>4, <1>2
<1>6. ASSUME NEW x \in Nat, NEW y \in Nat, NEW z \in Nat, x + y + z = c.risky + c.safe + c.neutral + 1,
             e = [count |-> c.count + 1, speaker |-> who, risky |-> x, safe |-> y, neutral |-> z]
      PROVE  /\ e \in RiskDebateState /\ e.count = c.count + 1
             /\ e.risky + e.safe + e.neutral = c.risky + c.safe + c.neutral + 1
  <2>1. c.count + 1 \in Nat
    BY <1>4
  <2>2. \A n \in Nat : [count |-> n, speaker |-> who, risky |-> x, safe |-> y, neutral |-> z]
                         \in RiskDebateState
    BY DEF RiskDebateState
  <2> QED BY <1>6, <2>1, <2>2
<1>7. \A i, j, k \in Nat : /\ i + 1 \in Nat /\ (i + 1) + j + k = i + j + k + 1
                           /\ i + (j + 1) + k = i + j + k + 1 /\ i + j + (k + 1) = i + j + k + 1
  OBVIOUS
<1>8. CASE e = [s EXCEPT !.risky = @ + 1]
  <2>1. e = [count |-> c.count + 1, speaker |-> who, risky |-> c.risky + 1, safe |-> c.safe,
             neutral |-> c.neutral]
    BY <1>5, <1>8
  <2> QED BY <1>4, <1>6, <1>7, <2>1
<1>9. CASE e = [s EXCEPT !.safe = @ + 1]
  <2>1. e = [count |-> c.count + 1, speaker |-> who, risky |-> c.risky, safe |-> c.safe + 1,
             neutral |-> c.neutral]
    BY <1>5, <1>9
  <2> QED BY <1>4, <1>6, <1>7, <2>1
<1>10. CASE e = [s EXCEPT !.neutral = @ + 1]
  <2>1. e = [count |-> c.count + 1, speaker |-> who, risky |-> c.risky, safe |-> c.safe,
             neutral |-> c.neutral + 1]
    BY <1>5, <1>10
  <2> QED BY <1>4, <1>6, <1>7, <2>1
<1> QED BY <1>8, <1>9, <1>10, <1>11

-----------------------------------------------------------------------------
(* The theorems.                                                           *)

\* Every node keeps the invariant.
LEMMA NodeKeeps ==
  ASSUME GraphAssumption, AgentInv, Node
  PROVE  AgentInv'
<1>1. /\ \A a \in Analysts : state[a] \in AnalystState
      /\ state["debate"] \in InvestDebateState /\ state["risk"] \in RiskDebateState
      /\ "Risk_Judge" \in running => state["plan"] \in Plans
  BY WhatNodesRead
<1>2. ASSUME NEW a \in Analysts, Analyst(a) PROVE AgentInv'
  <2>1. PICK answer \in Answers[a] :
          Finish(AnalystNode[a], Only(a, [report |-> answer.report, asks |-> answer.asks,
                                          calls |-> state[a].calls + answer.counts]),
                 IF answer.posts THEN Posts({AnalystNode[a]}) ELSE Silent)
    BY <1>2 DEF Analyst
  <2>2. /\ MayPost(AnalystNode[a], Posts({AnalystNode[a]}))
        /\ MayPost(AnalystNode[a], Silent)
    BY Kinds, NodesPost DEF Nodes
  <2>3. MayPost(AnalystNode[a], IF answer.posts THEN Posts({AnalystNode[a]}) ELSE Silent)
    BY <2>2
  <2>4. Wrote(AnalystNode[a], Only(a, [report |-> answer.report, asks |-> answer.asks,
                                       calls |-> state[a].calls + answer.counts]))
    BY <1>1, AnalystWrote
  <2> QED BY <2>1, <2>3, <2>4, FinishKeeps
<1>3. ASSUME NEW a \in Analysts, RunTools(a) \/ MsgClear(a) PROVE AgentInv'
  <2>1. ToolsNode[a] \in ToolsNodes /\ ClearNode[a] \in ClearNodes
    BY Kinds
  <2>2. CASE RunTools(a)
    <3>1. PICK answered \in {{}, {ToolsNode[a]}} : Finish(ToolsNode[a], <<>>, Posts(answered))
      BY <2>2 DEF RunTools
    <3>2. MayPost(ToolsNode[a], Posts(answered))
      BY <2>1, NodesPost
    <3> QED BY <2>1, <3>1, <3>2, NothingWrote, FinishKeeps
  <2>3. CASE MsgClear(a)
    <3>1. MayPost(ClearNode[a], Posts({ClearNode[a]}))
      BY <2>1, NodesPost
    <3> QED BY <2>1, <2>3, <3>1, NothingWrote, FinishKeeps DEF MsgClear
  <2> QED BY <1>3, <2>2, <2>3
<1>4. ASSUME BullSpeaks PROVE AgentInv'
  <2> DEFINE d == state["debate"]
             e == IF DebateOver(d) THEN d
                  ELSE [d EXCEPT !.count = @ + 1, !.speaker = "Bull", !.bull = @ + 1]
  <2>1. Wrote("Bull_Researcher", Only("debate", e))
    <3>1. "Bull_Researcher" \in Researchers
      BY DEF Researchers
    <3>2. e \in InvestDebateState
          /\ IF DebateOver(d) THEN e = d
             ELSE e.count = d.count + 1 /\ e.speaker = "Bull" /\ e.bull = d.bull + 1 /\ e.bear = d.bear
      BY <1>1, DebateSpeech
    <3> HIDE DEF e
    <3> QED BY <3>1, <3>2, ResearcherWrote
  <2>3. MayPost("Bull_Researcher", Silent)
    BY SilentNodes DEF Researchers
  <2>2. Finish("Bull_Researcher", Only("debate", e), Silent)
    BY <1>4 DEF BullSpeaks
  <2> HIDE DEF e
  <2> QED BY <2>1, <2>2, <2>3, FinishKeeps
<1>5. ASSUME BearSpeaks PROVE AgentInv'
  <2> DEFINE d == state["debate"]
             e == IF DebateOver(d) THEN d
                  ELSE [d EXCEPT !.count = @ + 1, !.speaker = "Bear", !.bear = @ + 1]
  <2>1. Wrote("Bear_Researcher", Only("debate", e))
    <3>1. "Bear_Researcher" \in Researchers
      BY DEF Researchers
    <3>2. e \in InvestDebateState
          /\ IF DebateOver(d) THEN e = d
             ELSE e.count = d.count + 1 /\ e.speaker = "Bear" /\ e.bull = d.bull /\ e.bear = d.bear + 1
      BY <1>1, DebateSpeech
    <3> HIDE DEF e
    <3> QED BY <3>1, <3>2, ResearcherWrote
  <2>3. MayPost("Bear_Researcher", Silent)
    BY SilentNodes DEF Researchers
  <2>2. Finish("Bear_Researcher", Only("debate", e), Silent)
    BY <1>5 DEF BearSpeaks
  <2> HIDE DEF e
  <2> QED BY <2>1, <2>2, <2>3, FinishKeeps
<1>6. ASSUME ResearchManager PROVE AgentInv'
  <2> DEFINE d == state["debate"]
             e == [d EXCEPT !.speaker = "Manager"]
             plan == [reports |-> [a \in Analysts |-> state[a]], heard |-> d]
             u == Over(Only("debate", e), Only("plan", plan))
  <2>1. DOMAIN u = {"debate", "plan"} /\ u["debate"] = e /\ u["plan"] = plan
    <3> HIDE DEF e, plan
    <3> QED BY DEF Only, Over
  <2>2. /\ e \in InvestDebateState
        /\ e.count = d.count /\ e.bull = d.bull /\ e.bear = d.bear
    BY <1>1 DEF InvestDebateState
  <2>3. /\ plan \in Plans /\ plan.heard = d /\ \A a \in Analysts : plan.reports[a] = state[a]
    BY <1>1 DEF Plans
  <2>4. \A a \in Analysts : "Research_Manager" # AnalystNode[a]
    BY Kinds
  <2>5. /\ "Research_Manager" \notin ToolsNodes \cup ClearNodes
        /\ "Research_Manager" \notin Researchers \cup RiskDebators
    BY Kinds
  <2>8. MayPost("Research_Manager", Silent)
    BY SilentNodes
  <2>6. Finish("Research_Manager", u, Silent)
    BY <1>6 DEF ResearchManager
  <2> HIDE DEF u, plan, e
  <2>7. Wrote("Research_Manager", u)
    BY <2>1, <2>2, <2>3, <2>4, <2>5 DEF Wrote
  <2> QED BY <2>6, <2>7, <2>8, FinishKeeps
<1>7. ASSUME Trader PROVE AgentInv'
  <2> DEFINE u == Only("trade", state["plan"])
  <2>1. DOMAIN u = {"trade"} /\ u["trade"] = state["plan"]
    BY DEF Only
  <2>2. \A a \in Analysts : "Trader" # AnalystNode[a]
    BY Kinds
  <2>3. "Trader" \notin ToolsNodes \cup ClearNodes /\ "Trader" \notin Researchers \cup RiskDebators
    BY Kinds
  <2>6. MayPost("Trader", Posts({"Trader"}))
    BY NodesPost
  <2>4. Finish("Trader", u, Posts({"Trader"}))
    BY <1>7 DEF Trader
  <2> HIDE DEF u
  <2>5. Wrote("Trader", u)
    BY <2>1, <2>2, <2>3 DEF Wrote
  <2> QED BY <2>4, <2>5, <2>6, FinishKeeps
<1>8. ASSUME RiskySpeaks \/ SafeSpeaks \/ NeutralSpeaks PROVE AgentInv'
  <2>1. ASSUME NEW e \in {[Speech("Risky") EXCEPT !.risky = @ + 1],
                          [Speech("Safe") EXCEPT !.safe = @ + 1],
                          [Speech("Neutral") EXCEPT !.neutral = @ + 1]}
        PROVE  LET r == state["risk"]
               IN  /\ e \in RiskDebateState /\ e.count = r.count + 1
                   /\ e.risky + e.safe + e.neutral = r.risky + r.safe + r.neutral + 1
    BY <1>1, <2>1, RiskSpeech
  <2>2. PICK n \in RiskDebators :
          \E e \in {[Speech("Risky") EXCEPT !.risky = @ + 1],
                    [Speech("Safe") EXCEPT !.safe = @ + 1],
                    [Speech("Neutral") EXCEPT !.neutral = @ + 1]} :
             Finish(n, Only("risk", e), Silent)
    BY <1>8 DEF RiskySpeaks, SafeSpeaks, NeutralSpeaks, RiskDebators
  <2> QED BY <2>1, <2>2, DebatorWrote, SilentNodes, FinishKeeps
<1>9. ASSUME RiskJudge PROVE AgentInv'
  <2> DEFINE r == state["risk"]
             e == [r EXCEPT !.speaker = "Judge"]
             decision == [plan |-> state["plan"], heard |-> r]
             u == Over(Only("risk", e), Only("decision", decision))
  <2>1. DOMAIN u = {"risk", "decision"} /\ u["risk"] = e /\ u["decision"] = decision
    <3> HIDE DEF e, decision
    <3> QED BY DEF Only, Over
  <2>2. /\ e \in RiskDebateState
        /\ e.count = r.count /\ e.risky = r.risky /\ e.safe = r.safe /\ e.neutral = r.neutral
    BY <1>1 DEF RiskDebateState
  <2>8. MayPost("Risk_Judge", Silent)
    BY SilentNodes
  <2>3. Finish("Risk_Judge", u, Silent)
    BY <1>9 DEF RiskJudge
  <2>4. /\ decision \in Decisions /\ decision.plan = state["plan"] /\ decision.heard = r
    <3>1. state["plan"] \in Plans
      BY <1>1, <2>3 DEF Finish
    <3> QED BY <1>1, <3>1 DEF Decisions
  <2>5. \A a \in Analysts : "Risk_Judge" # AnalystNode[a]
    BY Kinds
  <2>6. /\ "Risk_Judge" \notin ToolsNodes \cup ClearNodes
        /\ "Risk_Judge" \notin Researchers \cup RiskDebators
    BY Kinds
  <2> HIDE DEF u, decision, e
  <2>7. Wrote("Risk_Judge", u)
    BY <2>1, <2>2, <2>4, <2>5, <2>6 DEF Wrote
  <2> QED BY <2>3, <2>7, <2>8, FinishKeeps
<1> QED BY <1>2, <1>3, <1>4, <1>5, <1>6, <1>7, <1>8, <1>9 DEF Node

\* The end of a superstep keeps the invariant.
LEMMA SuperstepKeeps ==
  ASSUME GraphAssumption, AgentInv, Superstep
  PROVE  AgentInv'
<1>1. StepView
  BY SuperstepView DEF AgentInv
<1>2. GraphTypes'
  BY <1>1, StepTyped DEF AgentInv
<1>3. GraphInv'
  BY <1>1, StepKeepsDebate, StepKeepsPhase, StepKeepsRisk, StepKeepsPlan, StepKeepsFresh,
     StepKeepsHeard DEF AgentInv, GraphInv, GraphTypes
<1>4. WritesOK'
  <2>1. DOMAIN writes' = {} /\ next' = {}
    BY NoUpdate DEF Superstep
  <2> QED BY <2>1 DEF WritesOK
<1>5. FinalOK'
  BY <1>1, StepFinal DEF AgentInv
<1>6. TalkOK'
  <2>1. /\ running = {} /\ running' = next /\ next' = {} /\ UNCHANGED <<setup, reply>>
        /\ messages' = messages \cup posted /\ posted' = {}
    BY DEF Superstep
  <2> QED BY <2>1 DEF AgentInv, TalkOK
<1> QED BY <1>2, <1>3, <1>4, <1>5, <1>6 DEF AgentInv

\* A run that raises leaves everything as it is.
LEMMA RaisingKeeps ==
  ASSUME AgentInv, ValuesChunk \/ \E n \in Nodes : NodeRaises(n)
  PROVE  AgentInv'
<1>1. /\ outcome' = "raised"
      /\ UNCHANGED <<setup, state, running, writes, next, step, final, messages, posted, reply>>
  BY DEF ValuesChunk, NodeRaises, talk
<1>2. Active' = Active /\ Written' = Written
  BY <1>1 DEF Active, Written
<1>3. GraphTypes'
  <2>1. TypeOK'
    BY <1>1 DEF AgentInv, GraphTypes, TypeOK
  <2> QED BY <1>1, <2>1 DEF AgentInv, GraphTypes, Functional, OutcomeOK
<1>4. GraphInv'
  BY <1>1, <1>2 DEF AgentInv, GraphInv, DebateOK, InPhase, RiskOK, PlanMade, ReportsUsed,
     TradeFollows, DecisionFollows, AnalystsReport, BothSidesHeard, JudgeHearsEnough, Rounds
<1>5. WritesOK'
  BY <1>1, SameWrote, SameEdges DEF AgentInv, WritesOK
<1>6. FinalOK'
  BY <1>1, <1>2 DEF AgentInv, FinalOK, Current, Owed
<1>7. TalkOK'
  BY <1>1 DEF AgentInv, TalkOK
<1> QED BY <1>3, <1>4, <1>5, <1>6, <1>7 DEF AgentInv

\* A stuttering step leaves everything as it is.
LEMMA StutterKeeps ==
  ASSUME AgentInv, UNCHANGED vars
  PROVE  AgentInv'
<1>1. UNCHANGED <<setup, state, running, writes, next, step, final, messages, posted, reply,
                  outcome>>
  BY DEF vars, talk
<1>2. Active' = Active /\ Written' = Written
  BY <1>1 DEF Active, Written
<1>3. GraphTypes'
  <2>1. TypeOK'
    BY <1>1 DEF AgentInv, GraphTypes, TypeOK
  <2> QED BY <1>1, <1>2, <2>1 DEF AgentInv, GraphTypes, Functional, OutcomeOK
<1>4. GraphInv'
  BY <1>1, <1>2 DEF AgentInv, GraphInv, DebateOK, InPhase, RiskOK, PlanMade, ReportsUsed,
     TradeFollows, DecisionFollows, AnalystsReport, BothSidesHeard, JudgeHearsEnough, Rounds
<1>5. WritesOK'
  BY <1>1, SameWrote, SameEdges DEF AgentInv, WritesOK
<1>6. FinalOK'
  BY <1>1, <1>2 DEF AgentInv, FinalOK, Current, Owed
<1>7. TalkOK'
  BY <1>1 DEF AgentInv, TalkOK
<1> QED BY <1>3, <1>4, <1>5, <1>6, <1>7 DEF AgentInv

\* The invariant holds when the analysts of the graph are about to start.
LEMMA AgentStarts ==
  ASSUME GraphAssumption, Init
  PROVE  AgentInv
<1>1. /\ setup \in Setups /\ state = InitialState /\ final = InitialState
      /\ running = {AnalystNode[a] : a \in setup.analysts}
      /\ writes = <<>> /\ next = {} /\ step = 0 /\ outcome = "running"
      /\ messages = {"START"} /\ reply = {"START"} /\ posted = {}
  BY DEF Init
<1>2. /\ setup.analysts \subseteq Analysts /\ setup.analysts # {} /\ setup.depth \in 1 .. 5
      /\ MaxRecurLimit \in Nat /\ 0 < MaxRecurLimit
  <2>1. setup \in SetupType /\ MaxRecurLimit \in Nat \ {0}
    BY <1>1 DEF GraphAssumption
  <2>2. setup.analysts \in (SUBSET Analysts) \ {{}} /\ setup.depth \in 1 .. 5
    BY <2>1 DEF SetupType
  <2>3. MaxRecurLimit \in Nat /\ 0 < MaxRecurLimit
    BY <2>1
  <2>4. setup.analysts \subseteq Analysts /\ setup.analysts # {}
    BY <2>2
  <2> QED BY <2>2, <2>3, <2>4
<1>3. /\ DOMAIN writes = {} /\ Written = {} /\ Active = running
      /\ running \subseteq AnalystNodes /\ running # {}
      /\ \A a \in setup.analysts : AnalystNode[a] \in running
  BY <1>1, <1>2, NoUpdate, Kinds DEF Written, Active
<1>4. /\ \A a \in Analysts : state[a] = [report |-> "", calls |-> 0, asks |-> FALSE]
      /\ state["debate"] = [count |-> 0, speaker |-> "", bull |-> 0, bear |-> 0]
      /\ state["risk"] = [count |-> 0, speaker |-> "", risky |-> 0, safe |-> 0, neutral |-> 0]
      /\ state["plan"] = NoPlan /\ state["trade"] = NoPlan /\ state["decision"] = NoPlan
      /\ DOMAIN state = Keys
  BY <1>1 DEF InitialState, Keys, Analysts
<1>5. GraphTypes
  <2>1. StateTyped(state)
    <3>1. /\ [report |-> "", calls |-> 0, asks |-> FALSE] \in AnalystState
          /\ [count |-> 0, speaker |-> "", bull |-> 0, bear |-> 0] \in InvestDebateState
          /\ [count |-> 0, speaker |-> "", risky |-> 0, safe |-> 0, neutral |-> 0] \in RiskDebateState
      BY DEF AnalystState, InvestDebateState, RiskDebateState
    <3>2. ASSUME NEW k \in Keys PROVE KeyTyped(k, state[k])
      <4>1. CASE k \in Analysts
        BY <1>4, <3>1, <4>1 DEF KeyTyped, Analysts
      <4>2. CASE k \in {"debate", "risk", "plan", "trade", "decision"}
        BY <1>4, <3>1, <4>2 DEF KeyTyped, Analysts
      <4> QED BY <4>1, <4>2 DEF Keys
    <3> QED BY <1>4, <3>2 DEF StateTyped
  <2>2. TypedByKey
    BY <1>1, <1>2, <1>3, <2>1 DEF TypedByKey, Nodes
  <2>3. Functional(state)
    <3>1. InitialState = [k \in Keys |-> InitialState[k]]
      BY DEF InitialState
    <3> QED BY <1>1, <3>1 DEF Functional
  <2> QED BY <1>1, <1>2, <2>2, <2>3, TypesByKey DEF GraphTypes, OutcomeOK
<1>6. GraphInv
  <2>1. Active \cap (Odds \cup Later) = {} /\ Active \cap Early # {}
    BY <1>3, Kinds DEF Odds, Later, Early, Researchers
  <2>2. "Bear_Researcher" \notin Active /\ "Research_Manager" \notin Active
        /\ "Risk_Judge" \notin Active
    BY <1>3, Kinds DEF Researchers
  <2>3. DebateOK
    <3>1. Rounds \in Nat
      BY <1>2 DEF Rounds, DebateRounds
    <3>2. 0 <= 2 * Rounds
      BY <3>1
    <3>3. LET d == state["debate"] IN d.count = 0 /\ d.bull = 0 /\ d.bear = 0
      <4> DEFINE d == [count |-> 0, speaker |-> "", bull |-> 0, bear |-> 0]
      <4>1. d.count = 0 /\ d.bull = 0 /\ d.bear = 0
        OBVIOUS
      <4>2. state["debate"] = d
        BY <1>4
      <4> HIDE DEF d
      <4> QED BY <4>1, <4>2
    <3> QED BY <2>2, <3>2, <3>3 DEF DebateOK
  <2>4. RiskOK
    <3>1. LET r == state["risk"]
          IN  r.count = 0 /\ r.risky = 0 /\ r.safe = 0 /\ r.neutral = 0
      <4> DEFINE r == [count |-> 0, speaker |-> "", risky |-> 0, safe |-> 0, neutral |-> 0]
      <4>1. r.count = 0 /\ r.risky = 0 /\ r.safe = 0 /\ r.neutral = 0
        OBVIOUS
      <4>2. state["risk"] = r
        BY <1>4
      <4> HIDE DEF r
      <4> QED BY <4>1, <4>2
    <3> QED BY <2>2, <3>1 DEF RiskOK
  <2>5. InPhase /\ PlanMade
    BY <2>1 DEF InPhase, PlanMade
  <2>6. ReportsUsed /\ TradeFollows /\ DecisionFollows
    BY <2>1 DEF ReportsUsed, TradeFollows, DecisionFollows
  <2>7. AnalystsReport
    BY <1>3 DEF AnalystsReport
  <2>8. BothSidesHeard /\ JudgeHearsEnough
    BY <1>4 DEF BothSidesHeard, JudgeHearsEnough
  <2> QED BY <2>3, <2>4, <2>5, <2>6, <2>7, <2>8 DEF GraphInv
<1>7. WritesOK
  BY <1>1, <1>3 DEF WritesOK
<1>8. FinalOK
  BY <1>1, <1>3 DEF FinalOK, Current
<1>9. TalkOK
  <2>1. running \cap Early # {}
    BY <1>3 DEF Early
  <2> QED BY <1>1, <1>3, <2>1 DEF TalkOK
<1> QED BY <1>5, <1>6, <1>7, <1>8, <1>9 DEF AgentInv

\* The invariant is inductive: nodes finish in any order, the debates are restarted
\* by late analysts, and what a node wrote and what propagate keeps still agree with
\* the state that it read.
THEOREM AgentInductive == Spec => []AgentInv
<1>1. Init => AgentInv
  BY AgentStarts, GraphAssumption
<1>2. AgentInv /\ [Next]_vars => AgentInv'
  <2>1. ASSUME AgentInv, Node PROVE AgentInv'
    BY <2>1, NodeKeeps, GraphAssumption
  <2>2. ASSUME AgentInv, Superstep PROVE AgentInv'
    BY <2>2, SuperstepKeeps, GraphAssumption
  <2>3. ASSUME AgentInv, ValuesChunk \/ \E n \in Nodes : NodeRaises(n) PROVE AgentInv'
    BY <2>3, RaisingKeeps
  <2>4. ASSUME AgentInv, UNCHANGED vars PROVE AgentInv'
    BY <2>4, StutterKeeps
  <2> QED BY <2>1, <2>2, <2>3, <2>4 DEF Next
<1> QED BY <1>1, <1>2, PTL DEF Spec

\* Type correctness of setup_graph's state, its nodes and what propagate collects.
THEOREM AgentTypes == Spec => []TypeOK
<1>1. AgentInv => TypeOK
  BY DEF AgentInv, GraphTypes
<1> QED BY <1>1, AgentInductive, PTL

\* conditional_logic.py:32-33: whatever the analysts' timing, the research manager
\* has heard each side max_debate_rounds times.
THEOREM DebateIsWhole == Spec => []BothSidesHeard
<1>1. AgentInv => BothSidesHeard
  BY DEF AgentInv, GraphInv
<1> QED BY <1>1, AgentInductive, PTL

\* The risk judge has heard three speeches a round, although speeches of risk
\* analysts that share a superstep are lost.
THEOREM JudgeWaits == Spec => []JudgeHearsEnough
<1>1. AgentInv => JudgeHearsEnough
  BY DEF AgentInv, GraphInv
<1> QED BY <1>1, AgentInductive, PTL

\* When the run is over, final_state of propagate is the state of the graph, but for
\* the messages: there it holds the trader's alone, the graph the whole conversation.
THEOREM CallerKeepsUp == Spec => []CallerAgrees
<1>1. AgentInv => CallerAgrees
  <2> SUFFICES ASSUME AgentInv, outcome = "done" PROVE CallerAgrees
    BY DEF CallerAgrees
  <2>1. Active = {} /\ next = {}
    BY DEF AgentInv, GraphTypes, OutcomeOK
  <2>2. DOMAIN writes = {} /\ running = {} /\ Written = {}
    BY <2>1 DEF Active, Written
  <2>3. ASSUME NEW k \in Keys PROVE final[k] = state[k]
    BY <2>1, <2>2 DEF AgentInv, FinalOK, Current, Owed
  <2>4. final = state
    BY <2>3 DEF AgentInv, GraphTypes, Functional
  <2>5. posted = {} /\ reply = {"Trader"} /\ reply \subseteq messages /\ "START" \in messages
        /\ \A a \in setup.analysts : ClearNode[a] \in messages
    BY <2>1, <2>2 DEF AgentInv, TalkOK
  <2> QED BY <2>4, <2>5 DEF CallerAgrees
<1> QED BY <1>1, AgentInductive, PTL

\* The plan, the trade and the decision that a finished run returns come from the
\* last report of every analyst.
THEOREM NoStaleReport == Spec => []FinalUsesEveryReport
<1>1. AgentInv => FinalUsesEveryReport
  <2> SUFFICES ASSUME AgentInv, outcome = "done" PROVE FinalUsesEveryReport
    BY DEF FinalUsesEveryReport
  <2>1. Active = {} /\ next = {}
    BY DEF AgentInv, GraphTypes, OutcomeOK
  <2>2. DOMAIN writes = {} /\ running = {} /\ Written = {}
    BY <2>1 DEF Active, Written
  <2>3. ASSUME NEW k \in Keys PROVE final[k] = state[k]
    BY <2>1, <2>2 DEF AgentInv, FinalOK, Current, Owed
  <2>4. /\ \A a \in Analysts : state["plan"].reports[a] = state[a]
        /\ state["trade"] = state["plan"] /\ state["decision"].plan = state["plan"]
        /\ \A a \in setup.analysts : state[a].report # ""
    BY <2>1 DEF AgentInv, GraphInv, ReportsUsed, TradeFollows, DecisionFollows, AnalystsReport
  <2>5. setup.analysts \subseteq Analysts /\ Analysts \subseteq Keys
        /\ {"plan", "trade", "decision"} \subseteq Keys
    BY GraphAssumption DEF AgentInv, GraphTypes, TypeOK, GraphAssumption, SetupType, Keys
  <2>6. /\ final["plan"] = state["plan"] /\ final["trade"] = state["trade"]
        /\ final["decision"] = state["decision"]
    BY <2>3, <2>5
  <2>7. \A a \in Analysts : final[a] = state[a]
    BY <2>3, <2>5
  <2> QED BY <2>4, <2>5, <2>6, <2>7 DEF FinalUsesEveryReport, StructuredDecision
<1> QED BY <1>1, AgentInductive, PTL

=============================================================================
