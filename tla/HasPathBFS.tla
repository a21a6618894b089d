------------------------------ MODULE HasPathBFS ------------------------------
(***************************************************************************)
(* has_path and find_path of rca_engine/dependency.py, one action per      *)
(* iteration of their while loops.  The two loops differ in when they stop *)
(* (has_path when the target is popped, find_path when it is discovered)   *)
(* and in what they queue (a node, a node with the path to it); here the   *)
(* second runs after the first on the same query, the order in which       *)
(* Layer 7 calls them, each with its own queue.                            *)
(* Some names say Search, so that one module can extend this one and       *)
(* FaultChain.                                                             *)
(***************************************************************************)
EXTENDS Dependency, Sequences

CONSTANTS
  Nodes,      \* components
  Graphs      \* adjacency lists to query: a set of [Nodes -> Seq(Nodes)]

ASSUME GraphsAssumption == Graphs \subseteq [Nodes -> Seq(Nodes)]

VARIABLES
  adj,        \* the graph queried: neighbour lists, in source order
  src, dst,
  queue,      \* has_path: deque of nodes
  visited,    \* has_path: nodes already expanded
  answer,     \* has_path: "searching", "yes" or "no"
  pqueue,     \* find_path: deque of (node, path_so_far); a path ends in its node
  pvisited,
  path,       \* find_path: the path returned, <<>> while there is none
  outcome     \* find_path: "searching", "path" or "none"

hasVars    == <<queue, visited, answer>>
findVars   == <<pqueue, pvisited, path, outcome>>
query      == <<adj, src, dst>>
searchVars == <<adj, src, dst, queue, visited, answer, pqueue, pvisited,
              path, outcome>>

\* The edges of the queried graph, without the order of the lists.
Succ == [n \in Nodes |-> {adj[n][i] : i \in DOMAIN adj[n]}]

Last(p) == p[Len(p)]

\* What a list holds outside a set, in its order: SelectSeq, written as a function
\* that proofs can unfold.
Unseen(list, seen) ==
  LET upTo[i \in 0 .. Len(list)] ==
        IF i = 0 THEN <<>>
        ELSE IF list[i] \in seen THEN upTo[i - 1]
        ELSE Append(upTo[i - 1], list[i])
  IN  upTo[Len(list)]

SearchInit ==
  /\ adj \in Graphs
  /\ src \in Nodes
  /\ dst \in Nodes
  /\ queue = <<src>>
  /\ visited = {}
  /\ answer = IF src = dst THEN "yes" ELSE "searching"
  /\ pqueue = << <<src>> >>
  /\ pvisited = {}
  /\ path = IF src = dst THEN <<src>> ELSE <<>>
  /\ outcome = IF src = dst THEN "path" ELSE "searching"

\* has_path: the popped node is the target.
HasFound ==
  /\ answer = "searching"
  /\ queue # <<>>
  /\ Head(queue) = dst
  /\ answer' = "yes"
  /\ queue' = Tail(queue)
  /\ UNCHANGED <<visited, query, findVars>>

\* Mutant: an expanded node is looked at and left in the queue.
HasSkipKeeps ==
  /\ answer = "searching"
  /\ queue # <<>>
  /\ Head(queue) \in visited
  /\ UNCHANGED searchVars

\* has_path: the popped node was expanded before.
HasSkip ==
  /\ answer = "searching"
  /\ queue # <<>>
  /\ Head(queue) # dst
  /\ Head(queue) \in visited
  /\ queue' = Tail(queue)
  /\ UNCHANGED <<visited, answer, query, findVars>>

\* Mutant: neighbours count as visited when they are queued.
HasExpandMarksOnPush ==
  /\ answer = "searching"
  /\ queue # <<>>
  /\ Head(queue) \notin visited \cup {dst}
  /\ visited' = visited \cup {Head(queue)} \cup Succ[Head(queue)]
  /\ queue' = Tail(queue) \o Unseen(adj[Head(queue)], visited)
  /\ UNCHANGED <<answer, query, findVars>>

\* has_path: expand the popped node, queueing the neighbours not yet expanded.
HasExpand ==
  /\ answer = "searching"
  /\ queue # <<>>
  /\ LET node == Head(queue)
         seen == visited \cup {node}
     IN /\ node # dst
        /\ node \notin visited
        /\ visited' = seen
        /\ queue' = Tail(queue) \o Unseen(adj[node], seen)
  /\ UNCHANGED <<answer, query, findVars>>

HasExhausted ==
  /\ answer = "searching"
  /\ queue = <<>>
  /\ answer' = "no"
  /\ UNCHANGED <<queue, visited, query, findVars>>

FindSkip ==
  /\ answer # "searching"
  /\ outcome = "searching"
  /\ pqueue # <<>>
  /\ Last(Head(pqueue)) \in pvisited
  /\ pqueue' = Tail(pqueue)
  /\ UNCHANGED <<pvisited, path, outcome, query, hasVars>>

\* find_path: a neighbour of the popped node is the target.
FindFound ==
  /\ answer # "searching"
  /\ outcome = "searching"
  /\ pqueue # <<>>
  /\ LET p == Head(pqueue)
     IN /\ Last(p) \notin pvisited
        /\ dst \in Succ[Last(p)]
        /\ path' = Append(p, dst)
        /\ outcome' = "path"
        /\ pvisited' = pvisited \cup {Last(p)}
  /\ pqueue' = Tail(pqueue)
  /\ UNCHANGED <<query, hasVars>>

\* Mutant: the queue is a stack.
FindExpandStack ==
  /\ answer # "searching"
  /\ outcome = "searching"
  /\ pqueue # <<>>
  /\ LET p     == Head(pqueue)
         seen  == pvisited \cup {Last(p)}
         fresh == Unseen(adj[Last(p)], seen)
     IN /\ Last(p) \notin pvisited
        /\ dst \notin Succ[Last(p)]
        /\ pvisited' = seen
        /\ pqueue' = [i \in DOMAIN fresh |-> Append(p, fresh[i])] \o Tail(pqueue)
  /\ UNCHANGED <<path, outcome, query, hasVars>>

\* find_path: queue one longer path per neighbour not yet expanded.
FindExpand ==
  /\ answer # "searching"
  /\ outcome = "searching"
  /\ pqueue # <<>>
  /\ LET p     == Head(pqueue)
         seen  == pvisited \cup {Last(p)}
         fresh == Unseen(adj[Last(p)], seen)
     IN /\ Last(p) \notin pvisited
        /\ dst \notin Succ[Last(p)]
        /\ pvisited' = seen
        /\ pqueue' = Tail(pqueue) \o [i \in DOMAIN fresh |-> Append(p, fresh[i])]
  /\ UNCHANGED <<path, outcome, query, hasVars>>

FindExhausted ==
  /\ answer # "searching"
  /\ outcome = "searching"
  /\ pqueue = <<>>
  /\ outcome' = "none"
  /\ UNCHANGED <<path, pqueue, pvisited, query, hasVars>>

HasStep    == HasFound \/ HasSkip \/ HasExpand \/ HasExhausted
FindStep   == FindSkip \/ FindFound \/ FindExpand \/ FindExhausted
SearchNext == HasStep \/ FindStep

\* Plain loops of one thread: they keep running while they can.
SearchSpec == SearchInit /\ [][SearchNext]_searchVars /\ WF_searchVars(SearchNext)
-----------------------------------------------------------------------------
SearchTypeOK ==
  /\ adj \in [Nodes -> Seq(Nodes)]
  /\ src \in Nodes
  /\ dst \in Nodes
  /\ queue \in Seq(Nodes)
  /\ visited \subseteq Nodes
  /\ answer \in {"searching", "yes", "no"}
  /\ pqueue \in Seq(Seq(Nodes))
  /\ pvisited \subseteq Nodes
  /\ path \in Seq(Nodes)
  /\ outcome \in {"searching", "path", "none"}

\* has_path answers True exactly for the reachable pairs: the early exit, the
\* test on `visited` at the pop and the one at the push lose no path and
\* invent none (dependency.py:40-56).
HasPathExact ==
  /\ answer = "yes" => Reachable(Succ, src, dst)
  /\ answer = "no" => ~Reachable(Succ, src, dst)

\* The sequences of nodes that walk from src to dst along edges, of length k.
Walks(k) ==
  {p \in [1 .. k -> Nodes] :
     /\ p[1] = src /\ p[k] = dst
     /\ \A i \in 1 .. k - 1 : p[i + 1] \in Succ[p[i]]}

\* find_path returns a walk along edges and no shorter walk exists: stopping
\* at the first discovery of the target, before it is popped, does not
\* overtake a shorter path still in the queue (dependency.py:59-81).
FindPathShortest ==
  outcome = "path" =>
    /\ path \in Walks(Len(path))
    /\ \A k \in 1 .. Len(path) - 1 : Walks(k) = {}

\* On every graph, cyclic ones included, both searches come to an answer: a
\* node is expanded once, although it may be queued many times.
BothTerminate == <>(answer # "searching" /\ outcome # "searching")
=============================================================================
