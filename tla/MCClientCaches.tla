--------------------------- MODULE MCClientCaches ---------------------------
(* Two clients of one process and of two, with methods of each way to       *)
(* cache: everything, only data, values that are not JSON, failures hidden, *)
(* sources whose failures are and are not kept.                             *)
EXTENDS ClientCaches, TLC

Setup(kind, singleton, fetch_sec, method, made_of, home) ==
  [kind |-> kind, singleton |-> singleton, fetch_sec |-> fetch_sec,
   method |-> method, clients |-> made_of, home |-> home]

Together == {[c \in Clients |-> s] : s \in Processes}
Apart    == [Clients -> Processes] \ Together

\* One client, where nothing is shared or where only time matters.
Alone    == {<<{c}, h>> : c \in Clients, h \in Together}

MCSetups ==
  {Setup("memory", TRUE, Unset, m, Clients, h) : m \in {Trending, AlphaSpotPrice}, h \in Together}
    \cup {Setup("memory", TRUE, Unset, m, a[1], a[2]) : m \in {News, SocialPosts}, a \in Alone}
    \cup {Setup("memory", FALSE, Unset, Trending, a[1], a[2]) : a \in Alone}
    \cup {Setup("sqlite", TRUE, Unset, SocialPosts, Clients, h) : h \in Together}
    \cup {Setup("sqlite", TRUE, Unset, m, Clients, h) : m \in {Trending, YahooStatements}, h \in Apart}
    \cup {Setup("none", FALSE, Unset, Trending, a[1], a[2]) : a \in Alone}

\* Two processes and their one file.
SharedFile == {Setup("sqlite", TRUE, Unset, Trending, Clients, h) : h \in Apart}

MCSymmetry == Permutations(Clients) \cup Permutations(Processes)

=============================================================================
