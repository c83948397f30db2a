---------------------------- MODULE PipelineGraph ----------------------------
(***************************************************************************)
(* From a configuration to a pipeline: BaseGraph (src/src/core/graph), the *)
(* cut of the graph into branches by BasePipeline::init_branches, and      *)
(* SyncPipeline (src/src/proc/pipeline/sync), which walks the branches     *)
(* with a queue.  AsyncPipeline builds its branches the same way; module   *)
(* AsyncPipeline assumes the outcome TreeIsCut states.                     *)
(*                                                                         *)
(* Nothing validates the graph: is_valid has no caller, so one_parent and  *)
(* has_loops are not enforced, and every list of links that add_edge takes *)
(* is built, trees, meshes and loops alike.  Nodes are numbers; which of   *)
(* them is input_node does not matter for their order.                     *)
(***************************************************************************)
EXTENDS Naturals, SequencesExt, FiniteSetsExt

CONSTANTS
  Ids,       (* names of nodes a configuration may use                      *)
  Input,     (* "input_node"                                                *)
  None,      (* no node                                                     *)
  MaxLinks,  (* bound: links of a configuration                             *)
  MaxRuns    (* bound: how often a node is run for one frame                *)

ASSUME GraphConstants ==
  /\ Ids \subseteq Nat /\ IsFiniteSet(Ids) /\ Input \in Ids /\ None \notin Ids
  /\ MaxLinks \in Nat /\ MaxRuns \in Nat

VARIABLES
  phase,     (* what is going on                                            *)
  nodes,     (* the keys of m_nodes                                         *)
  children,  (* m_children of each node                                     *)
  parents,   (* m_parents of each node, whose order does not matter         *)
  left,      (* branch_ids that init_branches has still to visit            *)
  head, at,  (* list_front_id and processed_id; None: the walk is over      *)
  branches,  (* m_branches: the nodes of each branch; none: no branch       *)
  queue,     (* id_queue                                                    *)
  rest,      (* the nodes of the first branch of the queue still to run     *)
  runs       (* history: how often each node was run for this frame         *)

graph == <<nodes, children, parents>>
walk == <<left, head, at, branches>>
frame == <<queue, rest, runs>>
vars == <<phase, graph, walk, frame>>

Phases == {"nodes", "links", "cut", "ready", "process", "done", "failed"}

TypeOK ==
  /\ phase \in Phases
  /\ nodes \subseteq Ids
  /\ children \in [Ids -> Seq(nodes)] /\ parents \in [Ids -> SUBSET nodes]
  /\ left \subseteq nodes /\ head \in nodes \cup {None} /\ at \in nodes \cup {None}
  /\ branches \in [Ids -> Seq(nodes)]
  /\ queue \in Seq(nodes) /\ rest \in Seq(nodes)
  /\ runs \in [Ids -> 0 .. MaxRuns]

NoRuns == [n \in Ids |-> 0]

Init ==
  /\ phase = "nodes" /\ nodes = {}
  /\ children = [n \in Ids |-> <<>>] /\ parents = [n \in Ids |-> {}]
  /\ left = {} /\ head = None /\ at = None
  /\ branches = [n \in Ids |-> <<>>]
  /\ queue = <<>> /\ rest = <<>> /\ runs = NoRuns

Kids(n) == ToSet(children[n])
LinkCount == MapThenSumSet(LAMBDA n : Len(children[n]), Ids)

----------------------------------------------------------------------------
(* deserialize: nodes, then links.  An assertion that fails leaves the      *)
(* constructor of the pipeline by an exception.                             *)

Fail == phase' = "failed" /\ UNCHANGED <<graph, walk, frame>>

AddNode(n) ==
  /\ phase = "nodes"
  /\ IF n \in nodes THEN Fail
     ELSE /\ nodes' = nodes \cup {n}
          /\ UNCHANGED <<phase, children, parents, walk, frame>>

NodesRead ==
  /\ phase = "nodes" /\ phase' = "links"
  /\ UNCHANGED <<graph, walk, frame>>

(* Mutant: the nodes of a link need not exist.                              *)
GoodLinkAnyhow(from, to) == from # to /\ to \notin Kids(from)

(* What add_edge asserts.                                                   *)
GoodLink(from, to) ==
  from # to /\ {from, to} \subseteq nodes /\ to \notin Kids(from)

(* add_edge.                                                                *)
AddLink(from, to) ==
  /\ phase = "links"
  /\ IF ~GoodLink(from, to) THEN Fail
     ELSE /\ LinkCount < MaxLinks
          /\ children' = [children EXCEPT ![from] = Append(@, to)]
          /\ parents' = [parents EXCEPT ![to] = @ \cup {from}]
          /\ UNCHANGED <<phase, nodes, walk, frame>>

(* A link is not a pair.                                                    *)
BadLink == phase = "links" /\ Fail

----------------------------------------------------------------------------
(* init_branches.                                                           *)

(* branch_ids: nodes without parents and the children of a node that has    *)
(* several.                                                                 *)
Heads ==
  {n \in nodes : parents[n] = {}}
    \cup UNION {Kids(n) : n \in {m \in nodes : Len(children[m]) > 1}}

(* get_node("input_node"), then the ids are collected.                      *)
LinksRead ==
  /\ phase = "links"
  /\ IF Input \notin nodes THEN Fail
     ELSE /\ phase' = "cut" /\ left' = Heads
          /\ UNCHANGED <<graph, head, at, branches, frame>>

(* Mutant: the walk stays at a node without children.                       *)
FirstChildStuck(n) == IF children[n] = <<>> THEN n ELSE Head(children[n])

(* Where the walk is after node n.                                          *)
FirstChild(n) == IF children[n] = <<>> THEN None ELSE Head(children[n])

(* create_branch for the next id.                                           *)
CreateBranch ==
  /\ phase = "cut" /\ at = None /\ left # {}
  /\ head' = Min(left) /\ left' = left \ {head'}
  /\ branches' = [branches EXCEPT ![head'] = <<head'>>]
  /\ at' = FirstChild(head')
  /\ UNCHANGED <<phase, graph, frame>>

(* A list longer than this goes round in a circle, and so it will for ever. *)
MaxList == Cardinality(Ids) + 1

(* Mutant: the walk goes past the head of another branch.                   *)
WalkEndsLate == at = None

WalkEnds == at \in Heads \cup {None}

(* add_node_to_branch.                                                      *)
Walk ==
  /\ phase = "cut" /\ at # None
  /\ IF WalkEnds THEN at' = None /\ UNCHANGED branches
     ELSE /\ Len(branches[head]) < MaxList
          /\ branches' = [branches EXCEPT ![head] = Append(@, at)]
          /\ at' = FirstChild(at)
  /\ UNCHANGED <<phase, graph, left, head, frame>>

BranchesMade ==
  /\ phase = "cut" /\ at = None /\ left = {}
  /\ phase' = "ready" /\ head' = None
  /\ UNCHANGED <<graph, left, at, branches, frame>>

----------------------------------------------------------------------------
(* SyncPipeline::process, one frame at a time.                              *)

Process ==
  /\ phase \in {"ready", "done"}
  /\ phase' = "process" /\ queue' = <<Input>> /\ runs' = NoRuns
  /\ UNCHANGED <<graph, walk, rest>>

(* An exception of a node, or of the assertion that the branch exists,      *)
(* leaves process; its queue is a local variable.                           *)
Throw ==
  /\ phase' = "ready" /\ queue' = <<>> /\ rest' = <<>> /\ runs' = NoRuns
  /\ UNCHANGED <<graph, walk>>

(* The first branch of the queue.                                           *)
EnterBranch ==
  /\ phase = "process" /\ rest = <<>> /\ queue # <<>>
  /\ IF branches[Head(queue)] = <<>> THEN Throw
     ELSE /\ rest' = branches[Head(queue)]
          /\ UNCHANGED <<phase, graph, walk, queue, runs>>

RunNode ==
  /\ phase = "process" /\ rest # <<>>
  /\ LET n == Head(rest) IN
       \/ Throw
       \/ /\ runs[n] < MaxRuns
          /\ runs' = [runs EXCEPT ![n] = @ + 1]
          /\ rest' = Tail(rest)
          /\ queue' = IF Tail(rest) = <<>> THEN Tail(queue) \o children[n] ELSE queue
          /\ UNCHANGED <<phase, graph, walk>>

ProcessReturns ==
  /\ phase = "process" /\ rest = <<>> /\ queue = <<>>
  /\ phase' = "done"
  /\ UNCHANGED <<graph, walk, frame>>

Next ==
  \/ \E n \in Ids : AddNode(n)
  \/ NodesRead \/ LinksRead \/ BadLink
  \/ \E from, to \in Ids : AddLink(from, to)
  \/ CreateBranch \/ Walk \/ BranchesMade
  \/ Process \/ EnterBranch \/ RunNode \/ ProcessReturns

Spec == Init /\ [][Next]_vars

(* The thread that constructs the pipeline or processes a frame goes on.    *)
FairSpec ==
  Spec /\ WF_vars(CreateBranch \/ Walk \/ BranchesMade)
       /\ WF_vars(EnterBranch \/ RunNode \/ ProcessReturns)

----------------------------------------------------------------------------
Built == phase \in {"ready", "process", "done"}

(* No way from a node leads back to it.                                     *)
Acyclic == \A s \in SUBSET nodes : s # {} => \E n \in s : Kids(n) \cap s = {}

(* What one_parent and has_loops = false ask for: one parent, and nothing   *)
(* that no way from the input leads to.                                     *)
IsTree ==
  /\ Input \in nodes /\ parents[Input] = {}
  /\ \A n \in nodes \ {Input} : \E p \in nodes : parents[n] = {p}
  /\ \A s \in SUBSET nodes :
       Input \in s /\ (\A n \in s : Kids(n) \subseteq s) => s = nodes

BranchIds == {n \in Ids : branches[n] # <<>>}
ChildBranches(b) == Kids(Last(branches[b]))

(* init_branches: a tree of nodes becomes a tree of branches that share it  *)
(* out.  Each is a way down to a node that forks or ends, each is followed  *)
(* by branches that exist, and no two by the same one; module AsyncPipeline *)
(* assumes this of its Branches and Children.                               *)
TreeIsCut ==
  Built /\ IsTree =>
    /\ \A n \in nodes : \E b \in BranchIds : n \in ToSet(branches[b])
    /\ \A a, b \in BranchIds :
         \A i \in DOMAIN branches[a], j \in DOMAIN branches[b] :
           branches[a][i] = branches[b][j] => a = b /\ i = j
    /\ \A b \in BranchIds : \A i \in 1 .. Len(branches[b]) - 1 :
         children[branches[b][i]] = <<branches[b][i + 1]>>
    /\ Input \in BranchIds
    /\ \A b \in BranchIds : ChildBranches(b) \subseteq BranchIds \ {b, Input}
    /\ \A a, b \in BranchIds : a # b => ChildBranches(a) \cap ChildBranches(b) = {}

(* How often a node is due: once for each run of a parent.                  *)
ParentRuns(n) == {r \in parents[n] \X (1 .. MaxRuns) : r[2] <= runs[r[1]]}
Due(n) == Cardinality(ParentRuns(n)) + (IF n = Input THEN 1 ELSE 0)

(* SyncPipeline::process: at every moment a node has been run at most as    *)
(* often as it is due, and when process returns exactly as often: on a tree *)
(* once.  A node with two parents is run twice, though one_parent is set.   *)
RunsFollowParents ==
  /\ phase = "process" => \A n \in nodes : runs[n] <= Due(n)
  /\ phase = "done" => \A n \in nodes : runs[n] = Due(n)

(* The walk of init_branches and the queue of process come to an end on     *)
(* every graph without loops, whatever its other faults.                    *)
LoopFreeEnds ==
  phase \in {"cut", "process"} /\ Acyclic ~> phase \in {"ready", "done"}
=============================================================================
