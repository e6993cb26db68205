---------------------------- MODULE MCAgentLoop ----------------------------
(* Answers, questions and a collection of one chunk for AgentLoop.        *)
EXTENDS AgentLoop, TLC

CONSTANTS t1, t2, m1, m2, s1

MCNames == "auth" :> {"auth", "service"} @@ "pay" :> {"payment"} @@ "unknown" :> {"unknown"}

(* The one substantive line of the system prompt that documents may share  *)
(* words with: the example answer in prompts/v1/agent_system.txt.          *)
ExampleLine == {"then", "admin", "sessions", "last", "hours", "720", "minutes",
                "source", "auth", "service"}

MCPromptLines == {ExampleLine}

MCWord == ExampleLine \cup {"refund", "payment", "unknown", "chunk", "relevant", "documentation", "found",
                            "help", "answer", "within", "step", "limit"}

MCPassages == {[source |-> "auth", words |-> {"admin", "hours", "sessions"}]}

Says(words, cites) == [words |-> words, cites |-> cites, abstains |-> FALSE, canary |-> FALSE]
Reply(strict, lenient, text) == [strict |-> strict, lenient |-> lenient, text |-> text]

MCRefusal   == Says({"help", "documentation"}, <<>>)
MCStepLimit == Says({"answer", "within", "step", "limit"}, <<>>)

(* Right, and leaking a line of the prompt; two tool calls; and a call of  *)
(* a tool that does not exist, which is taken for an answer.               *)
MCReplies ==
  {Reply(None, None, Says({"admin", "hours"}, <<"auth">>)),
   Reply(None, None, Says({"admin", "sessions", "last", "hours", "720", "minutes"}, <<"auth">>)),
   Reply("search_docs", None, MCRefusal), Reply(None, "calculator", MCRefusal),
   Reply("no_such_tool", "search_docs", Says({"admin", "hours"}, <<"pay">>))}

MCQuestions == {[key |-> "q", matches |-> {}], [key |-> "p", matches |-> {2, 7}]}

MCModelId == m1 :> "llama" @@ m2 :> "qwen"

Symmetry == Permutations({t1, t2})
=============================================================================
