-------------------------- MODULE PipelineGraphProofs --------------------------
(***************************************************************************)
(* What init_branches makes of a configuration, for every set of nodes and *)
(* every list of links: of a tree, the tree of branches that module        *)
(* AsyncPipeline starts from.                                              *)
(***************************************************************************)
EXTENDS PipelineGraph, FiniteSetTheorems, WellFoundedInduction, TLAPS

USE DEF vars, graph, walk, frame

(* The least of a set of numbers.                                           *)
LEMMA LeastIsIn ==
  ASSUME NEW S, S \subseteq Nat, S # {}
  PROVE  Min(S) \in S
<1> DEFINE R == OpToRel(<, Nat)
<1>1. IsWellFoundedOn(R, Nat)
  BY NatLessThanWellFounded
<1>2. \A x, y \in Nat : <<x, y>> \in R <=> x < y
  BY DEF OpToRel
<1> HIDE DEF R
<1>3. PICK x \in S : \A y \in S : <<y, x>> \notin R
  BY <1>1, WFMin
<1>4. ASSUME NEW y \in S PROVE x <= y
  <2>1. x \in Nat /\ y \in Nat
    OBVIOUS
  <2>2. ~(y < x)
    BY <2>1, <1>2, <1>3
  <2> QED
    BY <2>1, <2>2
<1> QED
  BY <1>4 DEF Min

LEMMA SeqGrows ==
  ASSUME NEW S, NEW T, S \subseteq T, NEW s \in Seq(S)
  PROVE  s \in Seq(T)
OBVIOUS

----------------------------------------------------------------------------
(* Types.                                                                   *)

(* A pipeline that has got beyond its links has an input; the nodes still   *)
(* to run belong to the first branch of the queue.                          *)
Begun ==
  /\ phase \in {"cut", "ready", "process", "done"} => Input \in nodes
  /\ rest # <<>> => queue # <<>>

TypeInv == TypeOK /\ Begun

LEMMA TypeInvInit == Init => TypeInv
<1> SUFFICES ASSUME Init PROVE TypeInv
  OBVIOUS
<1> USE GraphConstants DEF Init
<1>1. runs \in [Ids -> 0 .. MaxRuns]
  BY DEF NoRuns
<1>2. /\ children \in [Ids -> Seq(nodes)] /\ parents \in [Ids -> SUBSET nodes]
      /\ branches \in [Ids -> Seq(nodes)] /\ queue \in Seq(nodes) /\ rest \in Seq(nodes)
  OBVIOUS
<1>3. /\ phase \in Phases /\ nodes \subseteq Ids /\ left \subseteq nodes
      /\ head \in nodes \cup {None} /\ at \in nodes \cup {None}
  BY DEF Phases
<1> QED
  BY <1>1, <1>2, <1>3 DEF TypeInv, TypeOK, Begun

LEMMA HeadsAreNodes ==
  ASSUME TypeOK PROVE Heads \subseteq nodes
<1>1. \A n \in nodes : Kids(n) \subseteq nodes
  BY DEF TypeOK, Kids, ToSet
<1> QED
  BY <1>1 DEF Heads

LEMMA FirstChildIsNode ==
  ASSUME TypeOK, NEW n \in nodes
  PROVE  FirstChild(n) \in nodes \cup {None}
<1>1. children[n] \in Seq(nodes)
  BY DEF TypeOK
<1> QED
  BY <1>1 DEF FirstChild

LEMMA TypeInvNext == TypeInv /\ [Next]_vars => TypeInv'
<1> SUFFICES ASSUME TypeInv, [Next]_vars PROVE TypeInv'
  OBVIOUS
<1>0. TypeOK /\ Begun
  BY DEF TypeInv
<1>1. ASSUME NEW n \in Ids, AddNode(n) PROVE TypeInv'
  <2>1. CASE n \in nodes
    BY <1>0, <1>1, <2>1 DEF AddNode, Fail, TypeInv, TypeOK, Begun, Phases
  <2>2. CASE n \notin nodes
    <3>1. /\ nodes' = nodes \cup {n} /\ phase = "nodes"
          /\ UNCHANGED <<phase, children, parents, walk, frame>>
      BY <1>1, <2>2 DEF AddNode
    <3>2. \A s \in Seq(nodes) : s \in Seq(nodes')
      BY <3>1, SeqGrows
    <3>3. /\ children' \in [Ids -> Seq(nodes')] /\ branches' \in [Ids -> Seq(nodes')]
          /\ queue' \in Seq(nodes') /\ rest' \in Seq(nodes')
      BY <1>0, <3>1, <3>2 DEF TypeOK
    <3>4. parents' \in [Ids -> SUBSET nodes']
      BY <1>0, <3>1 DEF TypeOK
    <3>5. /\ phase' \in Phases /\ nodes' \subseteq Ids /\ left' \subseteq nodes'
          /\ head' \in nodes' \cup {None} /\ at' \in nodes' \cup {None}
          /\ runs' \in [Ids -> 0 .. MaxRuns]
      BY <1>0, <3>1 DEF TypeOK
    <3>6. Begun'
      BY <1>0, <3>1 DEF Begun
    <3> QED
      BY <3>3, <3>4, <3>5, <3>6 DEF TypeInv, TypeOK
  <2> QED
    BY <2>1, <2>2
<1>2. CASE NodesRead \/ BadLink
  BY <1>0, <1>2 DEF NodesRead, BadLink, Fail, TypeInv, TypeOK, Begun, Phases
<1>3. ASSUME NEW from \in Ids, NEW to \in Ids, AddLink(from, to) PROVE TypeInv'
  <2>1. CASE ~GoodLink(from, to)
    BY <1>0, <1>3, <2>1 DEF AddLink, Fail, TypeInv, TypeOK, Begun, Phases
  <2>2. CASE GoodLink(from, to)
    <3>1. /\ children' = [children EXCEPT ![from] = Append(@, to)]
          /\ parents' = [parents EXCEPT ![to] = @ \cup {from}]
          /\ from \in nodes /\ to \in nodes
          /\ UNCHANGED <<phase, nodes, walk, frame>>
      BY <1>3, <2>2 DEF AddLink, GoodLink
    <3>2. children' \in [Ids -> Seq(nodes)]
      BY <1>0, <3>1 DEF TypeOK
    <3>3. parents' \in [Ids -> SUBSET nodes]
      BY <1>0, <3>1 DEF TypeOK
    <3> QED
      BY <1>0, <3>1, <3>2, <3>3 DEF TypeInv, TypeOK, Begun
  <2> QED
    BY <2>1, <2>2
<1>4. CASE LinksRead
  <2>1. CASE Input \notin nodes
    BY <1>0, <1>4, <2>1 DEF LinksRead, Fail, TypeInv, TypeOK, Begun, Phases
  <2>2. CASE Input \in nodes
    <3>1. left' = Heads /\ phase' = "cut" /\ UNCHANGED <<graph, head, at, branches, frame>>
      BY <1>4, <2>2 DEF LinksRead
    <3>2. left' \subseteq nodes
      BY <1>0, <3>1, HeadsAreNodes
    <3> QED
      BY <1>0, <2>2, <3>1, <3>2 DEF TypeInv, TypeOK, Begun, Phases
  <2> QED
    BY <2>1, <2>2
<1>5. CASE CreateBranch
  <2>1. left # {} /\ left \subseteq nodes /\ left \subseteq Nat
    BY <1>0, <1>5, GraphConstants DEF CreateBranch, TypeOK
  <2>2. head' \in left
    BY <1>5, <2>1, LeastIsIn DEF CreateBranch
  <2>3. at' \in nodes \cup {None}
    BY <1>0, <1>5, <2>1, <2>2, FirstChildIsNode DEF CreateBranch
  <2>4. branches' \in [Ids -> Seq(nodes)]
    <3>1. branches' = [branches EXCEPT ![head'] = <<head'>>]
      BY <1>5 DEF CreateBranch
    <3>2. <<head'>> \in Seq(nodes)
      BY <2>1, <2>2
    <3> QED
      BY <1>0, <3>1, <3>2 DEF TypeOK
  <2>5. /\ left' \subseteq nodes /\ head' \in nodes \cup {None}
        /\ UNCHANGED <<phase, graph, frame>>
    BY <1>5, <2>1, <2>2 DEF CreateBranch
  <2> QED
    BY <1>0, <2>3, <2>4, <2>5 DEF TypeInv, TypeOK, Begun
<1>6. CASE Walk
  <2>1. CASE WalkEnds
    BY <1>0, <1>6, <2>1 DEF Walk, TypeInv, TypeOK, Begun
  <2>2. CASE ~WalkEnds
    <3>1. /\ at \in nodes /\ at' = FirstChild(at)
          /\ branches' = [branches EXCEPT ![head] = Append(@, at)]
          /\ UNCHANGED <<phase, graph, left, head, frame>>
      BY <1>0, <1>6, <2>2 DEF Walk, TypeOK
    <3>2. at' \in nodes \cup {None}
      BY <1>0, <3>1, FirstChildIsNode
    <3>3. branches' \in [Ids -> Seq(nodes)]
      <4>1. \A s \in Seq(nodes) : Append(s, at) \in Seq(nodes)
        BY <3>1
      <4>2. head \in Ids => Append(branches[head], at) \in Seq(nodes)
        BY <1>0, <4>1 DEF TypeOK
      <4> QED
        BY <1>0, <3>1, <4>2 DEF TypeOK
    <3> QED
      BY <1>0, <3>1, <3>2, <3>3 DEF TypeInv, TypeOK, Begun
  <2> QED
    BY <2>1, <2>2
<1>7. CASE BranchesMade
  BY <1>0, <1>7 DEF BranchesMade, TypeInv, TypeOK, Begun, Phases
<1>8. CASE Process
  <2>1. /\ phase \in {"ready", "done"} /\ phase' = "process" /\ queue' = <<Input>>
        /\ runs' = NoRuns /\ UNCHANGED <<graph, walk, rest>>
    BY <1>8 DEF Process
  <2>2. Input \in nodes
    BY <1>0, <2>1 DEF Begun
  <2>3. queue' \in Seq(nodes) /\ queue' # <<>>
    BY <2>1, <2>2
  <2>4. runs' \in [Ids -> 0 .. MaxRuns]
    BY <2>1, GraphConstants DEF NoRuns
  <2> QED
    BY <1>0, <2>1, <2>2, <2>3, <2>4 DEF TypeInv, TypeOK, Begun, Phases
<1>9. ASSUME Throw, phase = "process" PROVE TypeInv'
  <2>1. runs' \in [Ids -> 0 .. MaxRuns]
    BY <1>9, GraphConstants DEF Throw, NoRuns
  <2>2. /\ phase' = "ready" /\ queue' = <<>> /\ rest' = <<>>
        /\ UNCHANGED <<graph, walk>>
    BY <1>9 DEF Throw
  <2>3. queue' \in Seq(nodes) /\ rest' \in Seq(nodes) /\ phase' \in Phases
    BY <2>2 DEF Phases
  <2>4. Begun'
    BY <1>0, <1>9, <2>2 DEF Begun
  <2> QED
    BY <1>0, <2>1, <2>2, <2>3, <2>4 DEF TypeInv, TypeOK
<1>10. CASE EnterBranch
  <2>1. CASE Throw
    BY <1>9, <1>10, <2>1 DEF EnterBranch
  <2>2. CASE ~Throw
    <3>1. /\ queue # <<>> /\ rest' = branches[Head(queue)]
          /\ UNCHANGED <<phase, graph, walk, queue, runs>>
      BY <1>10, <2>2 DEF EnterBranch
    <3>2. Head(queue) \in Ids
      BY <1>0, <3>1 DEF TypeOK
    <3> QED
      BY <1>0, <3>1, <3>2 DEF TypeInv, TypeOK, Begun
  <2> QED
    BY <2>1, <2>2
<1>11. CASE RunNode
  <2>1. CASE Throw
    BY <1>9, <1>11, <2>1 DEF RunNode
  <2>2. CASE ~Throw
    <3> DEFINE n == Head(rest)
    <3>1. /\ rest # <<>> /\ runs[n] < MaxRuns /\ phase = "process"
          /\ runs' = [runs EXCEPT ![n] = @ + 1] /\ rest' = Tail(rest)
          /\ queue' = IF Tail(rest) = <<>> THEN Tail(queue) \o children[n] ELSE queue
          /\ UNCHANGED <<phase, graph, walk>>
      BY <1>11, <2>2 DEF RunNode
    <3>2. n \in Ids /\ rest' \in Seq(nodes) /\ children[n] \in Seq(nodes)
      BY <1>0, <3>1, SMTT(30) DEF TypeOK
    <3>3. queue # <<>> /\ Tail(queue) \in Seq(nodes)
      BY <1>0, <3>1 DEF Begun, TypeOK
    <3>4. queue' \in Seq(nodes)
      BY <1>0, <3>1, <3>2, <3>3 DEF TypeOK
    <3>5. runs' \in [Ids -> 0 .. MaxRuns]
      <4>1. runs[n] + 1 \in 0 .. MaxRuns
        <5> HIDE DEF n
        <5>1. runs[n] \in 0 .. MaxRuns /\ MaxRuns \in Nat
          BY <1>0, <3>2, GraphConstants DEF TypeOK
        <5> QED
          BY <3>1, <5>1
      <4> QED
        BY <1>0, <3>1, <3>2, <4>1 DEF TypeOK
    <3>6. Begun'
      BY <1>0, <3>1, <3>3 DEF Begun
    <3> QED
      BY <1>0, <3>1, <3>2, <3>4, <3>5, <3>6 DEF TypeInv, TypeOK
  <2> QED
    BY <2>1, <2>2
<1>12. CASE ProcessReturns
  BY <1>0, <1>12 DEF ProcessReturns, TypeInv, TypeOK, Begun, Phases
<1>13. CASE UNCHANGED vars
  BY <1>0, <1>13 DEF TypeInv, TypeOK, Begun
<1> QED
  BY <1>1, <1>2, <1>3, <1>4, <1>5, <1>6, <1>7, <1>8, <1>10, <1>11, <1>12, <1>13 DEF Next

(* The types of the graph, of its branches and of the frame in process, for *)
(* every configuration: init_branches and process only ever name nodes.     *)
THEOREM TypeCorrect == Spec => []TypeOK
<1>1. TypeInv => TypeOK
  BY DEF TypeInv
<1> QED
  BY <1>1, TypeInvInit, TypeInvNext, PTL DEF Spec

----------------------------------------------------------------------------
(* The cut.  A branch starts with its id and goes on with first children    *)
(* that are no heads; it ends before a head, or where there are no children.*)

Linked == \A n, m \in Ids : m \in Kids(n) <=> n \in parents[m]

Way(b) ==
  /\ branches[b] # <<>> => branches[b][1] = b
  /\ \A i \in 1 .. Len(branches[b]) - 1 :
       branches[b][i + 1] = FirstChild(branches[b][i]) /\ branches[b][i + 1] \notin Heads

Ends(b) == FirstChild(Last(branches[b])) \in Heads \cup {None}

Cutting == phase \in {"cut", "ready", "process", "done"}

CutInv ==
  /\ Linked
  /\ phase \in {"nodes", "links"} => at = None /\ \A b \in Ids : branches[b] = <<>>
  /\ Cutting =>
       /\ left \subseteq Heads
       /\ \A b \in Ids : branches[b] # <<>> <=> b \in Heads \ left
       /\ \A b \in Ids : Way(b)
       /\ \A b \in Heads \ left : (at # None /\ b = head) \/ Ends(b)
       /\ at # None => head \in Heads \ left /\ at = FirstChild(Last(branches[head]))
  /\ Built => left = {} /\ at = None

LEMMA CutInvInit == Init => CutInv
BY DEF Init, CutInv, Linked, Kids, ToSet, Cutting, Built

(* The steps that leave graph and branches alone.                           *)
CutStays ==
  /\ nodes' = nodes /\ children' = children /\ parents' = parents
  /\ left' = left /\ head' = head /\ at' = at /\ branches' = branches
  /\ \/ phase' = phase \/ phase' = "failed" \/ (phase = "nodes" /\ phase' = "links")
     \/ (Built /\ Built')

LEMMA CutUnmoved ==
  ASSUME CutInv, CutStays PROVE CutInv'
<1>1. /\ Heads' = Heads /\ Linked' /\ \A n : FirstChild(n)' = FirstChild(n)
  BY DEF CutStays, CutInv, Heads, Linked, Kids, FirstChild
<1>2. \A b : (Way(b) => Way(b)') /\ (Ends(b) => Ends(b)')
  BY <1>1 DEF CutStays, Way, Ends
<1>3. /\ phase' \in {"nodes", "links"} => phase \in {"nodes", "links"}
      /\ Cutting' => Cutting
      /\ Built' => Built
  BY DEF CutStays, Cutting, Built
<1> QED
  BY <1>1, <1>2, <1>3 DEF CutStays, CutInv

LEMMA CutAddLink ==
  ASSUME TypeOK, CutInv, NEW from \in Ids, NEW to \in Ids, AddLink(from, to), GoodLink(from, to)
  PROVE  CutInv'
<1>1. /\ children' = [children EXCEPT ![from] = Append(@, to)]
      /\ parents' = [parents EXCEPT ![to] = @ \cup {from}]
      /\ phase = "links" /\ UNCHANGED <<phase, nodes, walk, frame>>
  BY DEF AddLink
<1>2. children \in [Ids -> Seq(nodes)] /\ parents \in [Ids -> SUBSET nodes]
  BY DEF TypeOK
<1>3. /\ \A n \in Ids \ {from} : children'[n] = children[n]
      /\ children'[from] = Append(children[from], to)
  BY <1>1, <1>2
<1>4. ToSet(Append(children[from], to)) = ToSet(children[from]) \cup {to}
  <2> DEFINE s == children[from]
             a == Append(s, to)
  <2>1. s \in Seq(nodes)
    BY <1>2
  <2> HIDE DEF s
  <2>2. /\ Len(s) \in Nat /\ DOMAIN s = 1 .. Len(s) /\ DOMAIN a = 1 .. Len(s) + 1
        /\ a[Len(s) + 1] = to /\ \A i \in 1 .. Len(s) : a[i] = s[i]
    BY <2>1
  <2> HIDE DEF a
  <2>3. ASSUME NEW i \in DOMAIN a PROVE a[i] \in ToSet(s) \cup {to}
    BY <2>2 DEF ToSet
  <2>4. ToSet(s) \cup {to} \subseteq ToSet(a)
    BY <2>2 DEF ToSet
  <2> QED
    BY <2>3, <2>4 DEF ToSet, a, s
<1>5. \A n \in Ids : Kids(n)' = IF n = from THEN Kids(n) \cup {to} ELSE Kids(n)
  BY <1>3, <1>4 DEF Kids
<1>6. \A m \in Ids : parents'[m] = IF m = to THEN parents[m] \cup {from} ELSE parents[m]
  BY <1>1, <1>2
<1>7. Linked'
  <2> SUFFICES ASSUME NEW n \in Ids, NEW m \in Ids
               PROVE  m \in Kids(n)' <=> n \in parents'[m]
    BY DEF Linked
  <2>1. m \in Kids(n) <=> n \in parents[m]
    BY DEF CutInv, Linked
  <2> QED
    BY <1>5, <1>6, <2>1
<1> QED
  BY <1>1, <1>7 DEF CutInv, Cutting, Built

LEMMA CutCreateBranch ==
  ASSUME TypeOK, CutInv, CreateBranch
  PROVE  CutInv'
<1>0. PICK h : h = head'
  OBVIOUS
<1>1. /\ phase = "cut" /\ at = None /\ left # {} /\ left' = left \ {h}
      /\ branches' = [branches EXCEPT ![h] = <<h>>] /\ at' = FirstChild(h)
      /\ UNCHANGED <<phase, graph, frame>>
  BY <1>0 DEF CreateBranch
<1>2. h \in left /\ h \in Heads /\ h \in Ids
  <2>1. left \subseteq Nat /\ left \subseteq Ids
    BY GraphConstants DEF TypeOK
  <2> QED
    BY <1>0, <1>1, <2>1, LeastIsIn DEF CreateBranch, CutInv, Cutting
<1>3. Heads' = Heads /\ Linked' /\ \A n : FirstChild(n)' = FirstChild(n)
  BY <1>1 DEF CutInv, Heads, Linked, Kids, FirstChild
<1>4. branches'[h] = <<h>> /\ \A b \in Ids \ {h} : branches'[b] = branches[b]
  BY <1>1, <1>2 DEF TypeOK
<1>5. Len(<<h>>) = 1 /\ <<h>>[1] = h /\ <<h>> # <<>> /\ Last(<<h>>) = h
  BY DEF Last
<1>6. Way(h)'
  BY <1>4, <1>5 DEF Way
<1>7. \A b \in Ids : Way(b)'
  BY <1>1, <1>3, <1>4, <1>6 DEF CutInv, Cutting, Way
<1>8. at' # None => at' = FirstChild(Last(branches'[h]))
  BY <1>1, <1>4, <1>5
<1>9. \A b \in Heads \ left' : (at' # None /\ b = h) \/ Ends(b)'
  <2>1. Heads \subseteq Ids
    BY HeadsAreNodes DEF TypeOK
  <2> SUFFICES ASSUME NEW b \in Heads \ left' PROVE (at' # None /\ b = h) \/ Ends(b)'
    OBVIOUS
  <2>2. CASE b = h
    BY <1>1, <1>3, <1>4, <1>5, <2>2 DEF Ends
  <2>3. CASE b # h
    <3>1. Ends(b) /\ branches'[b] = branches[b]
      BY <1>1, <1>4, <2>1, <2>3 DEF CutInv, Cutting
    <3> QED
      BY <1>3, <3>1 DEF Ends
  <2> QED
    BY <2>2, <2>3
<1>10. \A b \in Ids : branches'[b] # <<>> <=> b \in Heads' \ left'
  BY <1>1, <1>2, <1>3, <1>4, <1>5 DEF CutInv, Cutting
<1> QED
  BY <1>0, <1>1, <1>2, <1>3, <1>7, <1>8, <1>9, <1>10 DEF CutInv, Cutting, Built

LEMMA CutWalk ==
  ASSUME TypeOK, CutInv, Walk
  PROVE  CutInv'
<1>1. /\ phase = "cut" /\ at # None /\ UNCHANGED <<phase, graph, left, head, frame>>
  BY DEF Walk
<1>2. /\ head \in Heads \ left /\ at = FirstChild(Last(branches[head]))
      /\ branches[head] # <<>> /\ head \in Ids /\ at \in nodes
  <2>1. Heads \subseteq Ids
    BY HeadsAreNodes DEF TypeOK
  <2> QED
    BY <1>1, <2>1 DEF CutInv, Cutting, TypeOK
<1>3. Heads' = Heads /\ Linked' /\ \A n : FirstChild(n)' = FirstChild(n)
  BY <1>1 DEF CutInv, Heads, Linked, Kids, FirstChild
<1>4. CASE WalkEnds
  <2>1. at' = None /\ UNCHANGED branches /\ at \in Heads
    BY <1>1, <1>4 DEF Walk, WalkEnds
  <2>2. Ends(head)
    BY <1>2, <2>1 DEF Ends
  <2>3. \A b \in Ids : Way(b)'
    BY <1>1, <1>3, <2>1 DEF CutInv, Cutting, Way
  <2>4. \A b \in Heads \ left : Ends(b)'
    BY <1>1, <1>3, <2>1, <2>2 DEF CutInv, Cutting, Ends
  <2> QED
    BY <1>1, <1>3, <2>1, <2>3, <2>4 DEF CutInv, Cutting, Built
<1>5. CASE ~WalkEnds
  <2> DEFINE s == branches[head]
             a == Append(s, at)
  <2>1. /\ at \notin Heads /\ at' = FirstChild(at)
        /\ branches' = [branches EXCEPT ![head] = a]
    BY <1>1, <1>5 DEF Walk, WalkEnds
  <2>2. branches'[head] = a /\ \A b \in Ids \ {head} : branches'[b] = branches[b]
    BY <1>2, <2>1 DEF TypeOK
  <2>3. s \in Seq(nodes) /\ s # <<>>
    BY <1>2 DEF TypeOK
  <2> HIDE DEF s
  <2>4. /\ Len(s) \in Nat \ {0} /\ a # <<>> /\ Len(a) = Len(s) + 1 /\ a[Len(s) + 1] = at
        /\ \A i \in 1 .. Len(s) : a[i] = s[i]
    BY <1>2, <2>3
  <2> HIDE DEF a
  <2>5. Last(a) = at /\ Last(s) = s[Len(s)]
    BY <2>4 DEF Last
  <2>6. Way(head)'
    <3>1. a[1] = head
      BY <1>1, <1>2, <2>4 DEF CutInv, Cutting, Way, s
    <3>2. ASSUME NEW i \in 1 .. Len(a) - 1
          PROVE  a[i + 1] = FirstChild(a[i]) /\ a[i + 1] \notin Heads
      <4>1. CASE i = Len(s)
        BY <1>2, <2>1, <2>4, <2>5, <4>1 DEF s
      <4>2. CASE i # Len(s)
        <5>1. i \in 1 .. Len(s) - 1 /\ i \in 1 .. Len(s) /\ i + 1 \in 1 .. Len(s)
          BY <2>4, <4>2
        <5>2. s[i + 1] = FirstChild(s[i]) /\ s[i + 1] \notin Heads
          BY <1>1, <1>2, <5>1 DEF CutInv, Cutting, Way, s
        <5> QED
          BY <2>4, <5>1, <5>2
      <4> QED
        BY <4>1, <4>2
    <3> QED
      BY <1>1, <1>3, <2>2, <3>1, <3>2 DEF Way
  <2>7. \A b \in Ids : Way(b)'
    <3> SUFFICES ASSUME NEW b \in Ids, b # head PROVE Way(b)'
      BY <1>1, <2>6
    <3>1. Way(b) /\ branches'[b] = branches[b]
      BY <1>1, <2>2 DEF CutInv, Cutting
    <3> QED
      BY <1>3, <3>1 DEF Way
  <2>8. \A b \in Ids : branches'[b] # <<>> <=> b \in Heads' \ left'
    BY <1>1, <1>2, <1>3, <2>2, <2>4 DEF CutInv, Cutting
  <2>9. at' = FirstChild(Last(branches'[head]))
    BY <2>1, <2>2, <2>5
  <2>10. \A b \in Heads \ left : (at' # None /\ b = head) \/ Ends(b)'
    <3> SUFFICES ASSUME NEW b \in Heads \ left PROVE (at' # None /\ b = head) \/ Ends(b)'
      OBVIOUS
    <3>1. CASE b = head
      BY <1>3, <2>9, <3>1 DEF Ends
    <3>2. CASE b # head
      <4>1. b \in Ids
        BY HeadsAreNodes DEF TypeOK
      <4>2. Ends(b) /\ branches'[b] = branches[b]
        BY <1>1, <2>2, <3>2, <4>1 DEF CutInv, Cutting
      <4> QED
        BY <1>3, <4>2 DEF Ends
    <3> QED
      BY <3>1, <3>2
  <2> QED
    BY <1>1, <1>2, <1>3, <2>7, <2>8, <2>9, <2>10 DEF CutInv, Cutting, Built
<1> QED
  BY <1>4, <1>5

LEMMA CutInvNext == TypeOK /\ CutInv /\ [Next]_vars => CutInv'
<1> SUFFICES ASSUME TypeOK, CutInv, [Next]_vars PROVE CutInv'
  OBVIOUS
<1>1. ASSUME NEW n \in Ids, AddNode(n) PROVE CutInv'
  <2>1. CASE n \in nodes
    BY <1>1, <2>1, CutUnmoved DEF CutStays, AddNode, Fail
  <2>2. CASE n \notin nodes
    BY <1>1, <2>2 DEF AddNode, CutInv, Linked, Kids, Cutting, Built
  <2> QED
    BY <2>1, <2>2
<1>2. CASE NodesRead \/ BadLink
  BY <1>2, CutUnmoved DEF CutStays, NodesRead, BadLink, Fail
<1>3. ASSUME NEW from \in Ids, NEW to \in Ids, AddLink(from, to) PROVE CutInv'
  <2>1. CASE ~GoodLink(from, to)
    BY <1>3, <2>1, CutUnmoved DEF CutStays, AddLink, Fail
  <2> QED
    BY <1>3, <2>1, CutAddLink
<1>4. CASE LinksRead
  <2>1. CASE Input \notin nodes
    BY <1>4, <2>1, CutUnmoved DEF CutStays, LinksRead, Fail
  <2>2. CASE Input \in nodes
    <3>1. /\ phase = "links" /\ phase' = "cut" /\ left' = Heads
          /\ UNCHANGED <<graph, head, at, branches, frame>>
      BY <1>4, <2>2 DEF LinksRead
    <3>2. Heads' = Heads /\ Linked'
      BY <3>1 DEF CutInv, Heads, Linked, Kids
    <3>3. \A b \in Ids : branches'[b] = <<>>
      BY <3>1 DEF CutInv
    <3>4. \A b \in Ids : Way(b)'
      BY <3>3 DEF Way
    <3> QED
      BY <3>1, <3>2, <3>3, <3>4 DEF CutInv, Cutting, Built
  <2> QED
    BY <2>1, <2>2
<1>5. CASE CreateBranch
  BY <1>5, CutCreateBranch
<1>6. CASE Walk
  BY <1>6, CutWalk
<1>7. CASE BranchesMade
  <2>1. /\ phase = "cut" /\ at = None /\ left = {} /\ phase' = "ready"
        /\ UNCHANGED <<graph, left, at, branches, frame>>
    BY <1>7 DEF BranchesMade
  <2>2. /\ Heads' = Heads /\ Linked' /\ \A n : FirstChild(n)' = FirstChild(n)
    BY <2>1 DEF CutInv, Heads, Linked, Kids, FirstChild
  <2>3. \A b \in Ids : Way(b)' /\ (b \in Heads => Ends(b)')
    BY <2>1, <2>2 DEF CutInv, Cutting, Way, Ends
  <2>4. Heads \subseteq Ids
    BY HeadsAreNodes DEF TypeOK
  <2> QED
    BY <2>1, <2>2, <2>3, <2>4 DEF CutInv, Cutting, Built
<1>8. CASE Process
  BY <1>8, CutUnmoved DEF CutStays, Process, Built
<1>9. CASE EnterBranch
  BY <1>9, CutUnmoved DEF CutStays, EnterBranch, Throw, Built
<1>10. CASE RunNode
  BY <1>10, CutUnmoved DEF CutStays, RunNode, Throw, Built
<1>11. CASE ProcessReturns
  BY <1>11, CutUnmoved DEF CutStays, ProcessReturns, Built
<1>12. CASE UNCHANGED vars
  BY <1>12, CutUnmoved DEF CutStays
<1> QED
  BY <1>1, <1>2, <1>3, <1>4, <1>5, <1>6, <1>7, <1>8, <1>9, <1>10, <1>11, <1>12 DEF Next

----------------------------------------------------------------------------
(* A tree of nodes.                                                         *)

LEMMA OneLong ==
  ASSUME NEW S, NEW t \in Seq(S), t # <<>>, ~(Len(t) > 1)
  PROVE  Len(t) = 1 /\ t[1] \in S /\ t = <<t[1]>>
<1>1. Len(t) \in Nat /\ Len(t) # 0
  OBVIOUS
<1>2. \A k \in Nat : k # 0 /\ ~(k > 1) => k = 1
  OBVIOUS
<1>3. Len(t) = 1
  BY <1>1, <1>2, Zenon
<1> QED
  BY <1>3

LEMMA TreeCut ==
  ASSUME TypeOK, CutInv, Built, IsTree
  PROVE  TreeIsCut
<1>1. /\ left = {} /\ at = None /\ Linked /\ Heads \subseteq nodes /\ nodes \subseteq Ids
      /\ \A b \in Ids : branches[b] \in Seq(nodes) /\ children[b] \in Seq(nodes)
  BY HeadsAreNodes DEF CutInv, TypeOK
<1>2. BranchIds = Heads /\ \A b \in Heads : Way(b) /\ Ends(b) /\ branches[b] # <<>>
  BY <1>1 DEF CutInv, Cutting, Built, BranchIds
<1>3. /\ Input \in nodes /\ parents[Input] = {} /\ Input \in Heads
      /\ \A n \in nodes : Input \notin Kids(n)
  BY <1>1 DEF IsTree, Heads, Linked
<1>4. ASSUME NEW m \in nodes, NEW p \in nodes, NEW q \in nodes, m \in Kids(p), m \in Kids(q)
      PROVE  p = q
  <2>1. m # Input /\ p \in parents[m] /\ q \in parents[m]
    BY <1>1, <1>3, <1>4 DEF Linked
  <2> QED
    BY <2>1 DEF IsTree
<1>5. ASSUME NEW n \in nodes, FirstChild(n) \notin Heads \cup {None}
      PROVE  children[n] = <<FirstChild(n)>>
  <2>1. children[n] \in Seq(nodes) /\ children[n] # <<>> /\ FirstChild(n) = children[n][1]
    BY <1>1, <1>5 DEF FirstChild
  <2>2. children[n][1] \in Kids(n)
    BY <2>1 DEF Kids, ToSet
  <2>3. ~(Len(children[n]) > 1)
    BY <1>5, <2>1, <2>2 DEF Heads
  <2> QED
    BY <2>1, <2>3, OneLong
<1>6. ASSUME NEW n \in nodes, FirstChild(n) \in Heads \cup {None}
      PROVE  Kids(n) \subseteq Heads
  <2>1. children[n] \in Seq(nodes)
    BY <1>1
  <2>2. CASE children[n] = <<>>
    BY <2>2 DEF Kids, ToSet
  <2>3. CASE Len(children[n]) > 1
    BY <2>3 DEF Heads
  <2>4. CASE children[n] # <<>> /\ ~(Len(children[n]) > 1)
    <3>0. /\ Len(children[n]) = 1 /\ children[n][1] \in nodes
          /\ children[n] = <<children[n][1]>>
      BY <2>1, <2>4, OneLong
    <3>1. Len(children[n]) = 1 /\ FirstChild(n) = children[n][1] /\ FirstChild(n) \in nodes
      BY <2>1, <2>4, <3>0 DEF FirstChild
    <3>2. FirstChild(n) # None
      BY <1>1, <3>1, GraphConstants
    <3>3. Kids(n) = {FirstChild(n)}
      BY <2>1, <3>1 DEF Kids, ToSet
    <3> QED
      BY <1>6, <3>2, <3>3
  <2> QED
    BY <2>2, <2>3, <2>4
<1>7. ASSUME NEW b \in Heads, NEW i \in 1 .. Len(branches[b])
      PROVE  /\ branches[b][i] \in nodes
             /\ i = 1 => branches[b][i] = b
             /\ i # 1 => /\ i - 1 \in 1 .. Len(branches[b]) /\ branches[b][i - 1] \in nodes
                        /\ branches[b][i] \in Kids(branches[b][i - 1])
                        /\ branches[b][i] \notin Heads
             /\ i # Len(branches[b]) =>
                  /\ i + 1 \in 1 .. Len(branches[b])
                  /\ children[branches[b][i]] = <<branches[b][i + 1]>>
             /\ i = Len(branches[b]) => Kids(branches[b][i]) \subseteq Heads
  <2> DEFINE s == branches[b]
  <2>1. s \in Seq(nodes) /\ s # <<>> /\ Len(s) \in Nat /\ b \in Ids
    BY <1>1, <1>2
  <2>2. /\ s[1] = b /\ FirstChild(s[Len(s)]) \in Heads \cup {None}
        /\ \A j \in 1 .. Len(s) - 1 : s[j + 1] = FirstChild(s[j]) /\ s[j + 1] \notin Heads
    BY <1>2, <2>1 DEF Way, Ends, Last
  <2>3. \A j \in 1 .. Len(s) : s[j] \in nodes
    BY <2>1
  <2> HIDE DEF s
  <2>4. ASSUME NEW j \in 1 .. Len(s) - 1
        PROVE  children[s[j]] = <<s[j + 1]>> /\ s[j + 1] \in Kids(s[j])
    <3>1. j \in 1 .. Len(s) /\ j + 1 \in 1 .. Len(s)
      BY <2>1
    <3>2. s[j] \in nodes /\ s[j + 1] \in nodes /\ s[j + 1] # None
      BY <1>1, <2>3, <3>1, GraphConstants
    <3>3. children[s[j]] = <<s[j + 1]>>
      BY <1>5, <2>2, <3>2
    <3> QED
      BY <3>3 DEF Kids, ToSet
  <2>5. i \in 1 .. Len(s)
    BY DEF s
  <2>6. i # 1 => i - 1 \in 1 .. Len(s) - 1 /\ i - 1 \in 1 .. Len(s) /\ (i - 1) + 1 = i
    BY <2>1, <2>5
  <2>7. i # Len(s) => i \in 1 .. Len(s) - 1 /\ i + 1 \in 1 .. Len(s)
    BY <2>1, <2>5
  <2>8. i = Len(s) => Kids(s[i]) \subseteq Heads
    BY <1>6, <2>2, <2>3, <2>5
  <2>9. i # 1 => s[i - 1] \in nodes /\ s[i] \in Kids(s[i - 1]) /\ s[i] \notin Heads
    BY <2>2, <2>3, <2>4, <2>6
  <2>10. i # Len(s) => children[s[i]] = <<s[i + 1]>>
    BY <2>4, <2>7
  <2> QED
    BY <2>2, <2>3, <2>5, <2>6, <2>7, <2>8, <2>9, <2>10 DEF s
(* By the way from the input every node is in a branch, and in one place.   *)
<1>8. nodes = {n \in nodes : \E b \in Heads : \E i \in 1 .. Len(branches[b]) : branches[b][i] = n}
  <2> DEFINE s == {n \in nodes : \E b \in Heads : \E i \in 1 .. Len(branches[b]) : branches[b][i] = n}
  <2>1. ASSUME NEW b \in Heads PROVE b \in s
    <3>1. 1 \in 1 .. Len(branches[b]) /\ b \in nodes
      BY <1>1, <1>2
    <3>2. branches[b][1] = b
      BY <1>7, <3>1
    <3> QED
      BY <3>1, <3>2
  <2>2. ASSUME NEW n \in s, NEW m \in Kids(n) PROVE m \in s
    <3>0. PICK b \in Heads : \E i \in 1 .. Len(branches[b]) : branches[b][i] = n
      OBVIOUS
    <3>1. PICK i \in 1 .. Len(branches[b]) : branches[b][i] = n
      BY <3>0
    <3>2. CASE i = Len(branches[b])
      BY <1>7, <2>1, <3>1, <3>2
    <3>3. CASE i # Len(branches[b])
      <4>1. i + 1 \in 1 .. Len(branches[b]) /\ children[n] = <<branches[b][i + 1]>>
        BY <1>7, <3>1, <3>3, ZenonT(60)
      <4>2. m = branches[b][i + 1]
        BY <4>1 DEF Kids, ToSet
      <4>3. m \in nodes
        BY <1>7, <4>1, <4>2
      <4> QED
        BY <4>1, <4>2, <4>3
    <3> QED
      BY <3>2, <3>3
  <2>3. s \in SUBSET nodes /\ Input \in s
    BY <1>3, <2>1
  <2> HIDE DEF s
  <2>4. s = nodes
    BY <2>2, <2>3 DEF IsTree
  <2> QED
    BY <2>4 DEF s
<1>9. ASSUME NEW a \in Heads, NEW b \in Heads, NEW i \in 1 .. Len(branches[a]),
             NEW j \in 1 .. Len(branches[b]), branches[a][i] = branches[b][j]
      PROVE  a = b /\ i = j
  <2> DEFINE Once(n) == \A c, d \in Heads :
               \A k \in 1 .. Len(branches[c]), l \in 1 .. Len(branches[d]) :
                 branches[c][k] = n /\ branches[d][l] = n => c = d /\ k = l
             s == {n \in nodes : Once(n)}
  <2>1. ASSUME NEW n \in nodes, n \in Heads PROVE Once(n)
    <3> SUFFICES ASSUME NEW c \in Heads, NEW d \in Heads,
                        NEW k \in 1 .. Len(branches[c]), NEW l \in 1 .. Len(branches[d]),
                        branches[c][k] = n, branches[d][l] = n
                 PROVE  c = d /\ k = l
      OBVIOUS
    <3>1. k = 1 /\ l = 1
      BY <1>7, <2>1
    <3> QED
      BY <1>7, <3>1
  <2>2. ASSUME NEW n \in nodes, NEW m \in Kids(n), Once(n) PROVE Once(m)
    <3>0. \A c, d \in Heads :
            \A k \in 1 .. Len(branches[c]), l \in 1 .. Len(branches[d]) :
              branches[c][k] = n /\ branches[d][l] = n => c = d /\ k = l
      BY <2>2
    <3> SUFFICES ASSUME NEW c \in Heads, NEW d \in Heads,
                        NEW k \in 1 .. Len(branches[c]), NEW l \in 1 .. Len(branches[d]),
                        branches[c][k] = m, branches[d][l] = m
                 PROVE  c = d /\ k = l
      OBVIOUS
    <3>1. m \in nodes
      BY <1>7
    <3>2. CASE m \in Heads
      BY <2>1, <3>1, <3>2, SMTT(30)
    <3>3. CASE m \notin Heads
      <4>1. k # 1 /\ l # 1
        BY <1>7, <3>3
      <4>2. /\ k - 1 \in 1 .. Len(branches[c]) /\ l - 1 \in 1 .. Len(branches[d])
            /\ branches[c][k - 1] \in nodes /\ branches[d][l - 1] \in nodes
            /\ m \in Kids(branches[c][k - 1]) /\ m \in Kids(branches[d][l - 1])
        BY <1>7, <4>1
      <4>3. branches[c][k - 1] = n /\ branches[d][l - 1] = n
        BY <1>4, <3>1, <4>2
      <4>4. ASSUME NEW k0 \in 1 .. Len(branches[c]), NEW l0 \in 1 .. Len(branches[d]),
                   branches[c][k0] = n, branches[d][l0] = n
            PROVE  c = d /\ k0 = l0
        BY <3>0, <4>4
      <4>6. c = d /\ k - 1 = l - 1
        BY <4>2, <4>3, <4>4
      <4>5. Len(branches[c]) \in Nat /\ Len(branches[d]) \in Nat
        BY <1>1
      <4> QED
        BY <4>5, <4>6
    <3> QED
      BY <3>2, <3>3
  <2> HIDE DEF Once
  <2>3. ASSUME NEW n \in s PROVE Kids(n) \subseteq s
    <3>1. n \in nodes /\ Kids(n) \subseteq nodes
      BY <1>1 DEF Kids, ToSet
    <3> QED
      BY <2>2, <3>1
  <2>4. s \in SUBSET nodes /\ Input \in s
    BY <1>3, <2>1
  <2> HIDE DEF s
  <2>5. s = nodes
    BY <2>3, <2>4 DEF IsTree
  <2>6. branches[a][i] \in nodes
    BY <1>7
  <2>7. Once(branches[a][i])
    BY <2>5, <2>6 DEF s
  <2> QED
    BY <1>9, <2>7 DEF Once
<1>10. ASSUME NEW b \in Heads
       PROVE  /\ Last(branches[b]) \in nodes /\ ChildBranches(b) \subseteq Heads
              /\ Len(branches[b]) \in 1 .. Len(branches[b])
              /\ branches[b][Len(branches[b])] = Last(branches[b])
  <2>1. Len(branches[b]) \in 1 .. Len(branches[b])
    BY <1>1, <1>2
  <2> QED
    BY <1>7, <2>1 DEF Last, ChildBranches
<1>11. ASSUME NEW b \in Heads PROVE b \notin ChildBranches(b)
  <2> SUFFICES ASSUME b \in ChildBranches(b) PROVE FALSE
    OBVIOUS
  <2> DEFINE s == {n \in nodes : n \notin ToSet(branches[b])}
  <2>1. b # Input /\ b \in nodes
    BY <1>1, <1>3, <1>10 DEF ChildBranches
  <2>2. ASSUME NEW n \in nodes, NEW m \in Kids(n), m \in ToSet(branches[b])
        PROVE  n \in ToSet(branches[b])
    <3>1. PICK i \in 1 .. Len(branches[b]) : branches[b][i] = m
      BY <1>1, <2>1, <2>2 DEF ToSet
    <3>2. m \in nodes
      BY <1>7, <3>1
    <3>3. \A j \in 1 .. Len(branches[b]) : branches[b][j] \in ToSet(branches[b])
      BY <1>1, <2>1 DEF ToSet
    <3>4. CASE i = 1
      <4>1. m = b
        BY <1>7, <3>1, <3>4
      <4>2. n = Last(branches[b])
        BY <1>4, <1>10, <2>1, <4>1 DEF ChildBranches
      <4> QED
        BY <1>10, <3>3, <4>2
    <3>5. CASE i # 1
      <4>1. /\ i - 1 \in 1 .. Len(branches[b]) /\ branches[b][i - 1] \in nodes
            /\ m \in Kids(branches[b][i - 1])
        BY <1>7, <3>1, <3>5
      <4>2. n = branches[b][i - 1]
        BY <1>4, <3>2, <4>1
      <4> QED
        BY <3>3, <4>1, <4>2
    <3> QED
      BY <3>4, <3>5
  <2>3. Input \in s
    <3>1. ASSUME NEW i \in 1 .. Len(branches[b]), branches[b][i] = Input PROVE FALSE
      <4>1. i # 1
        BY <1>7, <2>1, <3>1
      <4> QED
        BY <1>3, <1>7, <3>1, <4>1
    <3> QED
      BY <1>1, <1>3, <2>1, <3>1 DEF ToSet
  <2>4. ASSUME NEW n \in s PROVE Kids(n) \subseteq s
    <3>1. n \in nodes /\ Kids(n) \subseteq nodes
      BY <1>1 DEF Kids, ToSet
    <3> QED
      BY <2>2, <3>1
  <2>5. b \notin s
    <3>1. 1 \in 1 .. Len(branches[b])
      BY <1>1, <1>2
    <3> QED
      BY <1>1, <1>7, <2>1, <3>1 DEF ToSet
  <2>6. s \in SUBSET nodes
    OBVIOUS
  <2> HIDE DEF s
  <2>7. s = nodes
    BY <2>3, <2>4, <2>6 DEF IsTree
  <2> QED
    BY <2>1, <2>5, <2>7
<1>12. \A n \in nodes : \E b \in BranchIds : n \in ToSet(branches[b])
  <2> SUFFICES ASSUME NEW n \in nodes PROVE \E b \in Heads : n \in ToSet(branches[b])
    BY <1>2
  <2>1. PICK b \in Heads : \E i \in 1 .. Len(branches[b]) : branches[b][i] = n
    BY <1>8
  <2>2. PICK i \in 1 .. Len(branches[b]) : branches[b][i] = n
    BY <2>1
  <2>3. branches[b] \in Seq(nodes)
    BY <1>1
  <2> QED
    BY <2>2, <2>3 DEF ToSet
<1>13. \A a, b \in BranchIds :
         \A i \in DOMAIN branches[a], j \in DOMAIN branches[b] :
           branches[a][i] = branches[b][j] => a = b /\ i = j
  <2>1. \A b \in Heads : DOMAIN branches[b] = 1 .. Len(branches[b])
    BY <1>1
  <2> QED
    BY <1>2, <1>9, <2>1
<1>14. \A b \in BranchIds : \A i \in 1 .. Len(branches[b]) - 1 :
         children[branches[b][i]] = <<branches[b][i + 1]>>
  <2> SUFFICES ASSUME NEW b \in Heads, NEW i \in 1 .. Len(branches[b]) - 1
               PROVE  children[branches[b][i]] = <<branches[b][i + 1]>>
    BY <1>2
  <2>1. i \in 1 .. Len(branches[b]) /\ i # Len(branches[b])
    BY <1>1
  <2> QED
    BY <1>7, <2>1
<1>15. \A b \in BranchIds : ChildBranches(b) \subseteq BranchIds \ {b, Input}
  BY <1>2, <1>3, <1>10, <1>11 DEF ChildBranches
<1>16. ASSUME NEW a \in BranchIds, NEW b \in BranchIds, a # b
       PROVE  ChildBranches(a) \cap ChildBranches(b) = {}
  <2> SUFFICES ASSUME NEW c \in ChildBranches(a), c \in ChildBranches(b) PROVE FALSE
    OBVIOUS
  <2>1. c \in nodes /\ a \in Heads /\ b \in Heads
    BY <1>1, <1>2, <1>10
  <2>2. Last(branches[a]) = Last(branches[b])
    BY <1>4, <1>10, <2>1 DEF ChildBranches
  <2> QED
    BY <1>9, <1>10, <1>16, <2>1, <2>2
<1> QED
  BY <1>2, <1>3, <1>12, <1>13, <1>14, <1>15, <1>16 DEF TreeIsCut

(* init_branches (pipeline.hpp): of every tree of nodes it makes a tree of  *)
(* branches that share the nodes out, each a way down to a fork or an end;  *)
(* what module AsyncPipeline assumes of its branches holds.                 *)
THEOREM TreesAreCut == Spec => []TreeIsCut
<1>1. TypeOK /\ CutInv => TreeIsCut
  <2> SUFFICES ASSUME TypeOK, CutInv, Built, IsTree PROVE TreeIsCut
    BY DEF TreeIsCut
  <2> QED
    BY TreeCut
<1> QED
  BY <1>1, TypeCorrect, CutInvInit, CutInvNext, PTL DEF Spec

----------------------------------------------------------------------------
(* The walk of process.  How often a node stands in a sequence is the       *)
(* number of its places there.                                              *)

Places(s, n) == {i \in DOMAIN s : s[i] = n}
Occ(s, n) == Cardinality(Places(s, n))

LEMMA OccIsNat ==
  ASSUME NEW S, NEW s \in Seq(S), NEW n
  PROVE  IsFiniteSet(Places(s, n)) /\ Occ(s, n) \in Nat
<1>1. Len(s) \in Nat /\ DOMAIN s = 1 .. Len(s)
  OBVIOUS
<1>2. IsFiniteSet(1 .. Len(s))
  BY <1>1, FS_Interval
<1>3. Places(s, n) \in SUBSET (1 .. Len(s))
  BY <1>1 DEF Places
<1>4. IsFiniteSet(Places(s, n))
  BY <1>2, <1>3, FS_Subset
<1> QED
  BY <1>4, FS_CardinalityType DEF Occ

LEMMA OccOfNothing ==
  ASSUME NEW n PROVE Occ(<<>>, n) = 0
<1>1. Places(<<>>, n) = {}
  BY DEF Places
<1> QED
  BY <1>1, FS_EmptySet DEF Occ

LEMMA OccOfOne ==
  ASSUME NEW m, NEW n PROVE Occ(<<m>>, n) = IF m = n THEN 1 ELSE 0
<1>1. Places(<<m>>, n) = IF m = n THEN {1} ELSE {}
  BY DEF Places
<1> QED
  BY <1>1, FS_EmptySet, FS_Singleton DEF Occ

(* What the first element of a sequence adds to its tail.                   *)
LEMMA OccOfTail ==
  ASSUME NEW S, NEW s \in Seq(S), s # <<>>, NEW n
  PROVE  Occ(s, n) = Occ(Tail(s), n) + (IF Head(s) = n THEN 1 ELSE 0)
<1> DEFINE P == Places(Tail(s), n)
           Q == Places(s, n) \ {1}
           f == [i \in P |-> i + 1]
<1>1. /\ Len(s) \in Nat /\ Len(s) # 0 /\ DOMAIN s = 1 .. Len(s) /\ Head(s) = s[1]
      /\ Tail(s) \in Seq(S) /\ DOMAIN Tail(s) = 1 .. Len(s) - 1
      /\ \A i \in 1 .. Len(s) - 1 : Tail(s)[i] = s[i + 1]
  OBVIOUS
<1>2. P = {i \in 1 .. Len(s) - 1 : s[i + 1] = n}
  BY <1>1 DEF Places
<1>3. Q = {i \in 2 .. Len(s) : s[i] = n}
  BY <1>1 DEF Places
<1>4. ExistsBijection(P, Q)
  <2> HIDE DEF P, Q
  <2>1. ASSUME NEW i \in P PROVE f[i] \in Q
    BY <1>1, <1>2, <1>3, <2>1
  <2>2. ASSUME NEW i \in P, NEW j \in P, f[i] = f[j] PROVE i = j
    BY <1>1, <1>2, <2>2
  <2>3. ASSUME NEW j \in Q PROVE \E i \in P : f[i] = j
    <3>1. j \in 2 .. Len(s) /\ s[j] = n /\ Len(s) \in Nat
      BY <1>1, <1>3
    <3>2. j - 1 \in 1 .. Len(s) - 1 /\ (j - 1) + 1 = j
      BY <3>1
    <3>3. j - 1 \in P
      BY <1>2, <3>1, <3>2
    <3> QED
      BY <3>2, <3>3
  <2>4. f \in Bijection(P, Q)
    BY <2>1, <2>2, <2>3 DEF Bijection, Injection, Surjection, IsInjective
  <2> QED
    BY <2>4 DEF ExistsBijection
<1>5. IsFiniteSet(P) /\ Cardinality(Q) = Cardinality(P) /\ Cardinality(P) \in Nat
  <2>1. IsFiniteSet(P) /\ Cardinality(P) \in Nat
    BY <1>1, OccIsNat DEF Occ
  <2> HIDE DEF P, Q
  <2> QED
    BY <1>4, <2>1, FS_Bijection
<1>6. IsFiniteSet(Places(s, n)) /\ Occ(s, n) \in Nat
  BY OccIsNat
<1>7. 1 \in Places(s, n) <=> Head(s) = n
  BY <1>1 DEF Places
<1>8. Cardinality(Q) = IF 1 \in Places(s, n) THEN Occ(s, n) - 1 ELSE Occ(s, n)
  BY <1>6, FS_RemoveElement DEF Occ
<1>9. Cardinality(P) = Occ(Tail(s), n)
  BY DEF Occ
<1>10. Occ(Tail(s), n) \in Nat
  BY <1>1, OccIsNat
<1>11. Occ(Tail(s), n) = IF Head(s) = n THEN Occ(s, n) - 1 ELSE Occ(s, n)
  BY <1>5, <1>7, <1>8, <1>9, Zenon
<1> HIDE DEF P, Q
<1>12. CASE Head(s) = n
  <2>1. Occ(Tail(s), n) = Occ(s, n) - 1
    BY <1>11, <1>12
  <2> QED
    BY <1>6, <1>10, <1>12, <2>1
<1>13. CASE Head(s) # n
  <2>1. Occ(Tail(s), n) = Occ(s, n)
    BY <1>11, <1>13
  <2> QED
    BY <1>6, <1>10, <1>13, <2>1
<1> QED
  BY <1>12, <1>13

(* What a sequence without repetitions adds at the end of another.          *)
LEMMA OccOfRest ==
  ASSUME NEW S, NEW s \in Seq(S), NEW t \in Seq(S), NEW n,
         \A i, j \in DOMAIN t : t[i] = t[j] => i = j
  PROVE  Occ(s \o t, n) = Occ(s, n) + (IF n \in ToSet(t) THEN 1 ELSE 0)
<1>1. /\ Len(s) \in Nat /\ DOMAIN s = 1 .. Len(s) /\ Len(t) \in Nat /\ DOMAIN t = 1 .. Len(t)
      /\ DOMAIN (s \o t) = 1 .. Len(s) + Len(t)
      /\ \A i \in 1 .. Len(s) : (s \o t)[i] = s[i]
      /\ \A i \in 1 .. Len(t) : (s \o t)[Len(s) + i] = t[i]
  OBVIOUS
<1>2. ASSUME NEW i \in 1 .. Len(s) + Len(t), i \notin 1 .. Len(s)
      PROVE  i - Len(s) \in 1 .. Len(t) /\ Len(s) + (i - Len(s)) = i
  <2>1. /\ Len(s) \in Nat /\ Len(t) \in Nat
        /\ i \in 1 .. Len(s) + Len(t) /\ i \notin 1 .. Len(s)
    BY <1>1, <1>2
  <2> QED
    BY <2>1
<1>3. IsFiniteSet(Places(s, n)) /\ Occ(s, n) \in Nat
  BY OccIsNat
<1>4. CASE n \notin ToSet(t)
  <2>1. ASSUME NEW i \in 1 .. Len(t) PROVE t[i] # n
    BY <1>1, <1>4 DEF ToSet
  <2>2. ASSUME NEW i \in Places(s \o t, n) PROVE i \in Places(s, n)
    <3>1. i \in 1 .. Len(s) + Len(t) /\ (s \o t)[i] = n
      BY <1>1 DEF Places
    <3>2. i \in 1 .. Len(s)
      BY <1>1, <1>2, <2>1, <3>1
    <3> QED
      BY <1>1, <3>1, <3>2 DEF Places
  <2>3. ASSUME NEW i \in Places(s, n) PROVE i \in Places(s \o t, n)
    <3>1. i \in 1 .. Len(s) /\ s[i] = n
      BY <1>1 DEF Places
    <3>2. i \in 1 .. Len(s) + Len(t)
      BY <1>1, <3>1
    <3> QED
      BY <1>1, <3>1, <3>2 DEF Places
  <2>4. Places(s \o t, n) = Places(s, n)
    BY <2>2, <2>3
  <2> QED
    BY <1>3, <1>4, <2>4 DEF Occ
<1>5. CASE n \in ToSet(t)
  <2>1. PICK k \in 1 .. Len(t) : t[k] = n
    BY <1>1, <1>5 DEF ToSet
  <2>2. ASSUME NEW i \in 1 .. Len(t), t[i] = n PROVE i = k
    BY <1>1, <2>1, <2>2
  <2>3. Len(s) + k \in 1 .. Len(s) + Len(t) /\ Len(s) + k \notin 1 .. Len(s)
    BY <1>1
  <2>4. ASSUME NEW i \in Places(s \o t, n) PROVE i \in Places(s, n) \cup {Len(s) + k}
    <3>1. i \in 1 .. Len(s) + Len(t) /\ (s \o t)[i] = n
      BY <1>1 DEF Places
    <3>2. CASE i \in 1 .. Len(s)
      BY <1>1, <3>1, <3>2 DEF Places
    <3>3. CASE i \notin 1 .. Len(s)
      <4>1. i - Len(s) \in 1 .. Len(t) /\ Len(s) + (i - Len(s)) = i
        BY <1>2, <3>1, <3>3
      <4>2. i - Len(s) = k
        BY <1>1, <2>2, <3>1, <4>1
      <4> QED
        BY <4>1, <4>2
    <3> QED
      BY <3>2, <3>3
  <2>5. ASSUME NEW i \in Places(s, n) PROVE i \in Places(s \o t, n)
    <3>1. i \in 1 .. Len(s) /\ s[i] = n
      BY <1>1 DEF Places
    <3>2. i \in 1 .. Len(s) + Len(t)
      BY <1>1, <3>1
    <3> QED
      BY <1>1, <3>1, <3>2 DEF Places
  <2>6. Len(s) + k \in Places(s \o t, n)
    BY <1>1, <2>1, <2>3 DEF Places
  <2>7. Places(s \o t, n) = Places(s, n) \cup {Len(s) + k}
    BY <2>4, <2>5, <2>6
  <2>8. Len(s) + k \notin Places(s, n)
    BY <1>1, <2>3 DEF Places
  <2>9. Cardinality(Places(s, n) \cup {Len(s) + k}) = Occ(s, n) + 1
    BY <1>3, <2>8, FS_AddElement DEF Occ
  <2> QED
    BY <1>5, <2>7, <2>9 DEF Occ
<1> QED
  BY <1>4, <1>5

(* How often a node stands in the queue or heads what is left of a branch.  *)
Pending(n) ==
  IF rest = <<>> THEN Occ(queue, n)
  ELSE Occ(Tail(queue), n) + (IF Head(rest) = n THEN 1 ELSE 0)

(* Nothing is lost between the runs of a node's parents and its own: every  *)
(* run it is due is done or pending.                                        *)
FlowInv ==
  /\ \A n \in Ids : \A i, j \in DOMAIN children[n] : children[n][i] = children[n][j] => i = j
  /\ \A i \in 1 .. Len(rest) - 1 : children[rest[i]] = <<rest[i + 1]>>
  /\ phase # "process" => rest = <<>>
  /\ phase = "process" => \A n \in nodes : Due(n) = runs[n] + Pending(n)
  /\ phase = "done" => \A n \in nodes : Due(n) = runs[n]

LEMMA FlowInvInit == Init => FlowInv
BY DEF Init, FlowInv

(* The steps on a graph that no frame is in.                                *)
LEMMA FlowIdle ==
  ASSUME FlowInv, UNCHANGED <<children, rest>>, phase # "process", phase' # "process",
         phase' # "done" \/ (phase = "done" /\ UNCHANGED <<nodes, parents, runs>>)
  PROVE  FlowInv'
<1>1. CASE phase' # "done"
  BY <1>1 DEF FlowInv
<1>2. CASE phase = "done" /\ UNCHANGED <<nodes, parents, runs>>
  <2>1. \A n : Due(n)' = Due(n)
    BY <1>2 DEF Due, ParentRuns
  <2> QED
    BY <1>2, <2>1 DEF FlowInv
<1> QED
  BY <1>1, <1>2

(* add_edge refuses a link that is already there.                           *)
LEMMA FlowAddLink ==
  ASSUME TypeOK, FlowInv, NEW from \in Ids, NEW to \in Ids,
         AddLink(from, to), GoodLink(from, to)
  PROVE  FlowInv'
<1>1. /\ children' = [children EXCEPT ![from] = Append(@, to)]
      /\ phase = "links" /\ to \notin Kids(from) /\ UNCHANGED <<phase, nodes, walk, frame>>
  BY DEF AddLink, GoodLink
<1> DEFINE s == children[from]
           a == Append(s, to)
<1>2. s \in Seq(nodes) /\ children' = [children EXCEPT ![from] = a] /\ from \in DOMAIN children
  BY <1>1 DEF TypeOK
<1>3. \A i, j \in DOMAIN s : s[i] = s[j] => i = j
  BY DEF FlowInv
<1>4. \A i \in DOMAIN s : s[i] # to
  BY <1>1 DEF Kids, ToSet
<1>5. \A i, j \in DOMAIN a : a[i] = a[j] => i = j
  <2> HIDE DEF s
  <2>1. /\ Len(s) \in Nat /\ DOMAIN s = 1 .. Len(s) /\ DOMAIN a = 1 .. Len(s) + 1
        /\ a[Len(s) + 1] = to /\ \A i \in 1 .. Len(s) : a[i] = s[i]
    BY <1>2
  <2> HIDE DEF a
  <2>2. \A i \in DOMAIN a : i \in DOMAIN s \/ i = Len(s) + 1
    BY <2>1
  <2> QED
    BY <1>3, <1>4, <2>1, <2>2
<1>6. \A n \in Ids : \A i, j \in DOMAIN children'[n] : children'[n][i] = children'[n][j] => i = j
  <2> SUFFICES ASSUME NEW n \in Ids
               PROVE  \A i, j \in DOMAIN children'[n] : children'[n][i] = children'[n][j] => i = j
    OBVIOUS
  <2> HIDE DEF a, s
  <2>1. CASE n = from
    BY <1>2, <1>5, <2>1
  <2>2. CASE n # from
    BY <1>2, <2>2 DEF FlowInv, TypeOK
  <2> QED
    BY <2>1, <2>2
<1>7. rest' = <<>>
  BY <1>1 DEF FlowInv
<1> QED
  BY <1>1, <1>6, <1>7 DEF FlowInv

(* A frame enters at the input.                                             *)
LEMMA FlowProcess ==
  ASSUME TypeOK, FlowInv, Process PROVE FlowInv'
<1>1. /\ phase' = "process" /\ queue' = <<Input>> /\ runs' = NoRuns /\ rest' = <<>>
      /\ UNCHANGED <<graph, walk>>
  BY DEF Process, FlowInv
<1>2. ASSUME NEW n \in nodes' PROVE Due(n)' = runs'[n] + Pending(n)'
  <2>1. runs'[n] = 0
    BY <1>1, <1>2 DEF NoRuns, TypeOK
  <2>2. ParentRuns(n)' = {}
    <3>1. parents'[n] \subseteq Ids
      BY <1>1, <1>2 DEF TypeOK
    <3>2. ASSUME NEW r \in parents'[n] \X (1 .. MaxRuns) PROVE ~(r[2] <= runs'[r[1]])
      BY <1>1, <3>1, GraphConstants DEF NoRuns
    <3> QED
      BY <3>2 DEF ParentRuns
  <2>3. Due(n)' = IF n = Input THEN 1 ELSE 0
    BY <2>2, FS_EmptySet DEF Due
  <2>4. Pending(n)' = IF n = Input THEN 1 ELSE 0
    BY <1>1, OccOfOne DEF Pending
  <2> QED
    BY <2>1, <2>3, <2>4
<1> QED
  BY <1>1, <1>2 DEF FlowInv

(* The nodes of a branch are the only children of those before them.        *)
LEMMA BranchesAreOnlyChildren ==
  ASSUME TypeOK, CutInv, Built, NEW b \in Ids, NEW i \in 1 .. Len(branches[b]) - 1
  PROVE  children[branches[b][i]] = <<branches[b][i + 1]>>
<1> DEFINE s == branches[b]
           n == s[i]
           t == children[n]
<1>1. s \in Seq(nodes) /\ nodes \subseteq Ids
  BY DEF TypeOK
<1>2. i \in 1 .. Len(s) /\ i + 1 \in 1 .. Len(s) /\ n \in nodes /\ s[i + 1] \in nodes
  <2> HIDE DEF s
  <2>1. i \in 1 .. Len(s) - 1
    BY DEF s
  <2> QED
    BY <1>1, <2>1
<1>3. s[i + 1] = FirstChild(n) /\ s[i + 1] \notin Heads
  BY DEF CutInv, Cutting, Built, Way
<1>4. t \in Seq(nodes) /\ FirstChild(n) # None
  BY <1>1, <1>2, <1>3, GraphConstants DEF TypeOK
<1>5. t # <<>> /\ FirstChild(n) = t[1]
  BY <1>4 DEF FirstChild
<1>6. t[1] \in Kids(n)
  BY <1>4, <1>5 DEF Kids, ToSet
<1>7. ~(Len(t) > 1)
  BY <1>2, <1>3, <1>5, <1>6 DEF Heads
<1> HIDE DEF t
<1>8. t = <<t[1]>>
  BY <1>4, <1>5, <1>7, OneLong
<1> QED
  BY <1>3, <1>5, <1>8 DEF t

(* The first branch of the queue begins with the node that named it.        *)
LEMMA FlowEnterBranch ==
  ASSUME TypeInv, CutInv, FlowInv, EnterBranch, ~Throw PROVE FlowInv'
<1> DEFINE h == Head(queue)
<1>1. /\ phase = "process" /\ rest = <<>> /\ queue # <<>> /\ branches[h] # <<>>
      /\ rest' = branches[h] /\ UNCHANGED <<phase, graph, walk, queue, runs>>
  BY DEF EnterBranch
<1>2. queue \in Seq(nodes) /\ h \in nodes /\ h \in Ids
  BY <1>1 DEF TypeInv, TypeOK
<1>3. branches[h] \in Seq(nodes) /\ branches[h][1] = h
  BY <1>1, <1>2 DEF TypeInv, TypeOK, CutInv, Cutting, Way
<1>4. \A i \in 1 .. Len(rest') - 1 : children'[rest'[i]] = <<rest'[i + 1]>>
  BY <1>1, <1>2, BranchesAreOnlyChildren DEF TypeInv, Built
<1>5. rest' # <<>> /\ Head(rest') = h
  BY <1>1, <1>3
<1>6. ASSUME NEW n PROVE Pending(n)' = Pending(n) /\ Due(n)' = Due(n)
  <2>1. Pending(n) = Occ(Tail(queue), n) + (IF h = n THEN 1 ELSE 0)
    BY <1>1, <1>2, OccOfTail DEF Pending
  <2> QED
    BY <1>1, <1>5, <2>1 DEF Pending, Due, ParentRuns
<1> QED
  BY <1>1, <1>4, <1>6 DEF FlowInv

(* A run of a node makes each of its children due once more.                *)
LEMMA RunMakesDue ==
  ASSUME TypeOK, NEW p \in nodes, runs[p] < MaxRuns,
         runs' = [runs EXCEPT ![p] = @ + 1], parents' = parents, NEW n \in nodes
  PROVE  /\ Due(n) \in Nat
         /\ Due(n)' = Due(n) + (IF p \in parents[n] THEN 1 ELSE 0)
<1> DEFINE P == ParentRuns(n)
           x == <<p, runs[p] + 1>>
<1>1. /\ parents[n] \subseteq nodes /\ nodes \subseteq Ids /\ p \in Ids
      /\ \A q \in Ids : runs[q] \in 0 .. MaxRuns
  BY DEF TypeOK
<1>2. MaxRuns \in Nat /\ runs[p] \in Nat /\ runs[p] + 1 \in 1 .. MaxRuns
  BY <1>1, GraphConstants
<1>3. \A q \in Ids : runs'[q] = IF q = p THEN runs[p] + 1 ELSE runs[q]
  BY <1>1 DEF TypeOK
<1>4. IsFiniteSet(P) /\ Cardinality(P) \in Nat
  <2>1. IsFiniteSet(parents[n])
    <3>1. parents[n] \in SUBSET Ids
      BY <1>1
    <3> QED
      BY <3>1, GraphConstants, FS_Subset
  <2>2. IsFiniteSet(1 .. MaxRuns)
    BY <1>2, FS_Interval
  <2>3. IsFiniteSet(parents[n] \X (1 .. MaxRuns))
    BY <2>1, <2>2, FS_Product
  <2>4. P \in SUBSET (parents[n] \X (1 .. MaxRuns))
    BY DEF ParentRuns
  <2> HIDE DEF P
  <2> QED
    BY <2>3, <2>4, FS_Subset, FS_CardinalityType
<1>5. x \notin P
  BY <1>2 DEF ParentRuns
<1>6. P' = IF p \in parents[n] THEN P \cup {x} ELSE P
  <2>1. ASSUME NEW q \in parents[n], NEW k \in 1 .. MaxRuns
        PROVE  k <= runs'[q] <=> k <= runs[q] \/ (q = p /\ k = runs[p] + 1)
    <3>1. runs[q] \in Nat /\ k \in Nat
      BY <1>1, <1>2
    <3>2. CASE q = p
      BY <1>1, <1>2, <1>3, <3>1, <3>2
    <3>3. CASE q # p
      BY <1>1, <1>3, <3>3
    <3> QED
      BY <3>2, <3>3
  <2>2. ASSUME NEW r \in parents[n] \X (1 .. MaxRuns)
        PROVE  r[2] <= runs'[r[1]] <=> r[2] <= runs[r[1]] \/ r = x
    <3>1. PICK q \in parents[n], k \in 1 .. MaxRuns : r = <<q, k>>
      OBVIOUS
    <3> QED
      BY <2>1, <3>1
  <2>3. P' = {r \in parents[n] \X (1 .. MaxRuns) : r[2] <= runs'[r[1]]}
    BY DEF ParentRuns
  <2>4. p \in parents[n] <=> x \in parents[n] \X (1 .. MaxRuns)
    BY <1>2
  <2> HIDE DEF x
  <2> QED
    BY <2>2, <2>3, <2>4 DEF ParentRuns
<1>7. Cardinality(P \cup {x}) = Cardinality(P) + 1
  <2> HIDE DEF P, x
  <2> QED
    BY <1>4, <1>5, FS_AddElement
<1>8. /\ Due(n) = Cardinality(P) + (IF n = Input THEN 1 ELSE 0)
      /\ Due(n)' = Cardinality(P') + (IF n = Input THEN 1 ELSE 0)
  BY DEF Due
<1> HIDE DEF P, x
<1> QED
  BY <1>4, <1>6, <1>7, <1>8

(* A node is run: its own count goes up, and its children are due, be it    *)
(* the next of the branch or those the branch appends to the queue.         *)
LEMMA FlowRunNode ==
  ASSUME TypeInv, CutInv, FlowInv, RunNode, ~Throw PROVE FlowInv'
<1>0. PICK p : p = Head(rest)
  OBVIOUS
<1>1. /\ rest # <<>> /\ runs[p] < MaxRuns /\ phase = "process"
      /\ runs' = [runs EXCEPT ![p] = @ + 1] /\ rest' = Tail(rest)
      /\ queue' = IF Tail(rest) = <<>> THEN Tail(queue) \o children[p] ELSE queue
      /\ UNCHANGED <<phase, graph, walk>>
  BY <1>0 DEF RunNode
<1>2. /\ rest \in Seq(nodes) /\ p \in nodes /\ p \in Ids /\ queue # <<>> /\ queue \in Seq(nodes)
      /\ Tail(queue) \in Seq(nodes) /\ children[p] \in Seq(nodes)
  <2>1. /\ rest \in Seq(nodes) /\ queue \in Seq(nodes) /\ queue # <<>> /\ nodes \subseteq Ids
        /\ children \in [Ids -> Seq(nodes)]
    BY <1>1 DEF TypeInv, TypeOK, Begun
  <2>2. p \in nodes /\ Tail(queue) \in Seq(nodes)
    BY <1>0, <1>1, <2>1
  <2> QED
    BY <2>1, <2>2
<1>3. /\ Len(rest) \in Nat /\ Len(rest) # 0 /\ p = rest[1] /\ Tail(rest) \in Seq(nodes)
      /\ Len(Tail(rest)) = Len(rest) - 1
      /\ \A i \in 1 .. Len(rest) - 1 : Tail(rest)[i] = rest[i + 1]
  BY <1>0, <1>1, <1>2
<1>4. \A i \in 1 .. Len(rest') - 1 : children'[rest'[i]] = <<rest'[i + 1]>>
  <2> SUFFICES ASSUME NEW i \in 1 .. Len(Tail(rest)) - 1
               PROVE  children[Tail(rest)[i]] = <<Tail(rest)[i + 1]>>
    BY <1>1
  <2>1. i \in 1 .. Len(rest) - 1 /\ i + 1 \in 1 .. Len(rest) - 1
    BY <1>3
  <2> QED
    BY <1>3, <2>1 DEF FlowInv
<1>5. ASSUME NEW n \in nodes PROVE Due(n)' = runs'[n] + Pending(n)'
  <2>1. Due(n) \in Nat /\ Due(n)' = Due(n) + (IF n \in Kids(p) THEN 1 ELSE 0)
    <3>1. n \in Kids(p) <=> p \in parents[n]
      BY <1>2 DEF CutInv, Linked, TypeInv, TypeOK
    <3> QED
      BY <1>1, <1>2, <3>1, RunMakesDue DEF TypeInv
  <2>2. runs[n] \in Nat /\ runs'[n] = runs[n] + (IF p = n THEN 1 ELSE 0)
    <3>1. runs \in [Ids -> 0 .. MaxRuns] /\ n \in Ids
      BY DEF TypeInv, TypeOK
    <3>2. runs[n] \in 0 .. MaxRuns
      BY <3>1
    <3> QED
      BY <1>1, <1>2, <3>1, <3>2, GraphConstants
  <2>3. Due(n) = runs[n] + Occ(Tail(queue), n) + (IF p = n THEN 1 ELSE 0)
    <3>1. Due(n) = runs[n] + Pending(n)
      BY <1>1 DEF FlowInv
    <3>2. Pending(n) = Occ(Tail(queue), n) + (IF p = n THEN 1 ELSE 0)
      BY <1>0, <1>1 DEF Pending
    <3>3. runs[n] \in Nat /\ Occ(Tail(queue), n) \in Nat
      BY <1>2, <2>2, OccIsNat
    <3> QED
      BY <3>1, <3>2, <3>3
  <2>4. Occ(Tail(queue), n) \in Nat
    BY <1>2, OccIsNat
  <2>5. Pending(n)' = Occ(Tail(queue), n) + (IF n \in Kids(p) THEN 1 ELSE 0)
    <3>1. CASE Tail(rest) = <<>>
      <4>1. Pending(n)' = Occ(Tail(queue) \o children[p], n)
        BY <1>1, <3>1 DEF Pending
      <4>2. \A i, j \in DOMAIN children[p] : children[p][i] = children[p][j] => i = j
        BY <1>2 DEF FlowInv
      <4> QED
        BY <1>2, <4>1, <4>2, OccOfRest, ZenonT(60) DEF Kids
    <3>2. CASE Tail(rest) # <<>>
      <4>1. 1 \in 1 .. Len(rest) - 1
        BY <1>3, <3>2
      <4>2. children[p] = <<rest[2]>> /\ Head(Tail(rest)) = rest[2]
        BY <1>3, <3>2, <4>1 DEF FlowInv
      <4>3. Kids(p) = {rest[2]}
        BY <4>2 DEF Kids, ToSet
      <4> QED
        BY <1>1, <3>2, <4>2, <4>3 DEF Pending
    <3> QED
      BY <3>1, <3>2
  <2> QED
    BY <2>1, <2>2, <2>3, <2>4, <2>5
<1> QED
  BY <1>1, <1>4, <1>5 DEF FlowInv

LEMMA FlowInvNext == TypeInv /\ CutInv /\ FlowInv /\ [Next]_vars => FlowInv'
<1> SUFFICES ASSUME TypeInv, CutInv, FlowInv, [Next]_vars PROVE FlowInv'
  OBVIOUS
<1>0. TypeOK
  BY DEF TypeInv
<1>1. CASE \/ \E n \in Ids : AddNode(n)
           \/ NodesRead \/ LinksRead \/ BadLink \/ CreateBranch \/ Walk \/ BranchesMade
  BY <1>1, FlowIdle
     DEF AddNode, NodesRead, LinksRead, BadLink, Fail, CreateBranch, Walk, BranchesMade
<1>2. ASSUME NEW from \in Ids, NEW to \in Ids, AddLink(from, to) PROVE FlowInv'
  <2>1. CASE ~GoodLink(from, to)
    BY <1>2, <2>1, FlowIdle DEF AddLink, Fail
  <2> QED
    BY <1>0, <1>2, <2>1, FlowAddLink
<1>3. CASE Process
  BY <1>0, <1>3, FlowProcess
<1>4. ASSUME Throw PROVE FlowInv'
  BY <1>4 DEF Throw, FlowInv
<1>5. CASE EnterBranch
  BY <1>4, <1>5, FlowEnterBranch
<1>6. CASE RunNode
  BY <1>4, <1>6, FlowRunNode
<1>7. CASE ProcessReturns
  <2>1. /\ phase = "process" /\ rest = <<>> /\ queue = <<>> /\ phase' = "done"
        /\ UNCHANGED <<graph, walk, frame>>
    BY <1>7 DEF ProcessReturns
  <2>2. ASSUME NEW n \in nodes PROVE Due(n)' = runs'[n]
    <3>1. Pending(n) = 0 /\ Due(n)' = Due(n) /\ runs[n] \in Nat
      BY <1>0, <2>1, OccOfNothing, GraphConstants DEF Pending, Due, ParentRuns, TypeOK
    <3> QED
      BY <2>1, <3>1 DEF FlowInv
  <2> QED
    BY <2>1, <2>2 DEF FlowInv
<1>8. CASE UNCHANGED vars
  <2>1. \A n : Due(n)' = Due(n) /\ Pending(n)' = Pending(n)
    BY <1>8 DEF Due, ParentRuns, Pending, Occ, Places
  <2> QED
    BY <1>8, <2>1 DEF FlowInv
<1> QED
  BY <1>1, <1>2, <1>3, <1>5, <1>6, <1>7, <1>8 DEF Next

(* SyncPipeline::process: on every graph, however its branches share nodes  *)
(* or miss them, a node is run at most once for each run of a parent, and   *)
(* exactly as often when process returns (sync_pipeline.hpp).               *)
THEOREM ParentsCallTheRuns == Spec => []RunsFollowParents
<1>1. TypeInv /\ FlowInv => RunsFollowParents
  <2> SUFFICES ASSUME TypeInv, FlowInv PROVE RunsFollowParents
    OBVIOUS
  <2>1. ASSUME phase = "process", NEW n \in nodes PROVE runs[n] <= Due(n)
    <3>1. runs[n] \in Nat
      BY GraphConstants DEF TypeInv, TypeOK
    <3>2. Pending(n) \in Nat
      <4>1. queue \in Seq(nodes) /\ (rest # <<>> => Tail(queue) \in Seq(nodes))
        BY DEF TypeInv, TypeOK, Begun
      <4>2. Occ(queue, n) \in Nat /\ (rest # <<>> => Occ(Tail(queue), n) \in Nat)
        BY <4>1, OccIsNat
      <4> QED
        BY <4>2 DEF Pending
    <3>3. Due(n) = runs[n] + Pending(n)
      BY <2>1 DEF FlowInv
    <3> QED
      BY <3>1, <3>2, <3>3
  <2> QED
    BY <2>1 DEF FlowInv, RunsFollowParents
<1> QED
  BY <1>1, TypeInvInit, TypeInvNext, TypeCorrect, CutInvInit, CutInvNext, FlowInvInit,
     FlowInvNext, PTL DEF Spec
=============================================================================
