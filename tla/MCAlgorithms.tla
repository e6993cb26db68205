---------------------------- MODULE MCAlgorithms ----------------------------
(* Bounded inputs for the functions of Algorithms.                         *)
EXTENDS Algorithms, TLC

CONSTANTS a, b, c

(* Documents of up to two sections; the preamble has no header.            *)
Section(i, h, n) ==
  [header |-> [k \in 1 .. h |-> <<i, 0, k>>], body |-> [k \in 1 .. n |-> <<i, 1, k>>]]

MCDocuments ==
  {<<Section(1, h, n)>> : h \in 0 .. 1, n \in 0 .. 5}
  \cup {<<Section(1, h, n), Section(2, 1, m)>> : h \in 0 .. 1, n \in 0 .. 5, m \in 0 .. 5}

(* Two documents with names of one and two words, one nobody wrote, and    *)
(* the source the retriever gives a chunk it does not know.                *)
MCNames == "auth" :> {"auth"} @@ "pay" :> {"pay", "service"} @@
           "ghost" :> {"ghost"} @@ "unknown" :> {"unknown"}

DocWords == {"token", "refund", "key", "limit", "call"}

MCWord == DocWords \cup UNION {MCNames[s] : s \in DOMAIN MCNames}
          \cup {"source", "chunk", "relevant", "documentation", "found"}

MCAnswers ==
  [words : SUBSET (DocWords \cup {"auth"}), cites : SeqOf({"auth", "pay", "ghost"}, 2),
   abstains : BOOLEAN, canary : {FALSE}]

ChunksFound ==
  {[source |-> "auth", words |-> {"token", "key"}], [source |-> "auth", words |-> {"call"}],
   [source |-> "pay", words |-> {"refund", "auth"}], [source |-> "unknown", words |-> {"limit"}]}

MCContexts ==
  {<<r>> : r \in SeqOf(ChunksFound, 2)} \cup {<<r, s>> : r, s \in SeqOf(ChunksFound, 1)} \cup {<<>>}
=============================================================================
