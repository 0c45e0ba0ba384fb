----------------------------- MODULE Server_proofs -----------------------------
(***************************************************************************)
(* The server's components that share no state with the others, for all    *)
(* values of their constants:                                              *)
(*   Inventory   no row of a container is lost with its node or its site,  *)
(*               and each is on a node of its site that is named as its    *)
(*               guest's, for every cluster and any number of requests;    *)
(*   Startup     starts that happen at the same time, or die halfway,      *)
(*               leave a schema that is whole before anybody serves, and   *)
(*               sign nobody out;                                          *)
(*   LiveStatus  an answer says what was so at some moment since it was    *)
(*               asked for;                                                *)
(*   NodeTasks   a guest has a version its tag has had, and restarts leave *)
(*               it running.                                               *)
(***************************************************************************)
EXTENDS Inventory, Startup, LiveStatus, NodeTasks, FiniteSetTheorems, FunctionTheorems,
        SequenceTheorems, WellFoundedInduction, TLAPS

-----------------------------------------------------------------------------
(* The inventory *)

USE ClusterAssumption

NodeRows == [id : Nat, name : Cluster \cup {"own"}, site : Sites]
ContainerRows == [name : Hostnames, site : Sites, node : Nat]
Deeds == [kind : {"-", "node", "create", "import", "delete", "raze"}, site : Sites, on : Nat,
          pc : {"new", "loaded", "insert", "list", "rows", "destroy", "over"},
          made : SUBSET NodeRows, list : SUBSET ContainerRows]

RowsTyped ==
  /\ InventoryTypeOK /\ nodes \subseteq NodeRows /\ rows \subseteq ContainerRows
  /\ deed \in [Calls -> Deeds]

\* Ids are given in order, once each.
RowsNumbered ==
  /\ \A n \in nodes : n.id < nextNode
  /\ \A n, m \in nodes : n.id = m.id => n = m

\* A row whose node has been given its id, and which is right if that node is still there.
Placed(w) ==
  /\ w.node < nextNode
  /\ \A n \in nodes :
       n.id = w.node => n.site = w.site /\ (w.name \in Guests => n.name = GuestOn[w.name])

\* The nodes an import has made are of its site; one for each of the cluster's.
HasMade(r) ==
  /\ \A c \in Cluster : \E n \in deed[r].made : n.name = c
  /\ \A n \in deed[r].made :
       /\ n.id < nextNode /\ n.site = deed[r].site
       /\ \A m \in nodes : m.id = n.id => m = n

\* What requests under way are about to insert.
DeedsPending ==
  \A r \in Calls :
    /\ deed[r].pc = "insert" =>
         Placed([name |-> "new", site |-> deed[r].site, node |-> deed[r].on])
    /\ deed[r].pc = "list" => HasMade(r)
    /\ deed[r].pc = "rows" => \A w \in deed[r].list : Placed(w)

InventoryInv == RowsTyped /\ RowsNumbered /\ DeedsPending /\ InventoryHolds

-----------------------------------------------------------------------------
(* Steps that add nodes, and steps that take some away *)

\* A row that is right stays right if the nodes that are added have new ids: nobody is
\* given the id of a node that has been deleted.
LEMMA PlacedLasts ==
  ASSUME RowsTyped, nextNode' \in Nat, nextNode <= nextNode',
         \A n \in nodes' : n \in nodes \/ n.id >= nextNode,
         nodes' \subseteq NodeRows,
         NEW w \in ContainerRows, Placed(w)
  PROVE  Placed(w)'
<1>1. nextNode \in Nat BY DEF RowsTyped, InventoryTypeOK
<1>2. w.node \in Nat BY DEF ContainerRows
<1>3. ASSUME NEW n \in nodes', n.id = w.node
      PROVE  n \in nodes
  BY <1>1, <1>2, <1>3 DEF Placed
<1> QED BY <1>1, <1>2, <1>3 DEF Placed

LEMMA HasMadeLasts ==
  ASSUME RowsTyped, nextNode' \in Nat, nextNode <= nextNode',
         \A n \in nodes' : n \in nodes \/ n.id >= nextNode,
         NEW r \in Calls, deed'[r] = deed[r], HasMade(r)
  PROVE  HasMade(r)'
<1>1. nextNode \in Nat BY DEF RowsTyped, InventoryTypeOK
<1>2. \A n \in deed[r].made : n.id \in Nat BY DEF RowsTyped, Deeds, NodeRows
<1>3. ASSUME NEW n \in deed[r].made, NEW m \in nodes', m.id = n.id
      PROVE  m = n
  <2>1. m \in nodes BY <1>1, <1>2, <1>3 DEF HasMade
  <2> QED BY <2>1, <1>3 DEF HasMade
<1> QED BY <1>1, <1>2, <1>3 DEF HasMade

\* Requests that a step leaves alone are as right as before.
LEMMA OthersLast ==
  ASSUME RowsTyped, DeedsPending, nextNode' \in Nat, nextNode <= nextNode',
         \A n \in nodes' : n \in nodes \/ n.id >= nextNode,
         nodes' \subseteq NodeRows,
         NEW q \in Calls, deed'[q] = deed[q]
  PROVE  /\ deed'[q].pc = "insert" =>
              Placed([name |-> "new", site |-> deed[q].site, node |-> deed[q].on])'
         /\ deed'[q].pc = "list" => HasMade(q)'
         /\ deed'[q].pc = "rows" => \A w \in deed'[q].list : Placed(w)'
<1>1. deed[q] \in Deeds BY DEF RowsTyped
<1>2. [name |-> "new", site |-> deed[q].site, node |-> deed[q].on] \in ContainerRows
  BY <1>1 DEF Deeds, ContainerRows, Hostnames
<1>3. deed[q].list \subseteq ContainerRows BY <1>1 DEF Deeds
<1>4. CASE deed[q].pc = "insert" BY <1>2, <1>4, PlacedLasts DEF DeedsPending
<1>5. CASE deed[q].pc = "list" BY <1>5, HasMadeLasts DEF DeedsPending
<1>6. CASE deed[q].pc = "rows" BY <1>3, <1>6, PlacedLasts DEF DeedsPending
<1> QED BY <1>4, <1>5, <1>6

-----------------------------------------------------------------------------
(* The steps *)

LEMMA InventoryInitially == InventoryInit => InventoryInv
<1> SUFFICES ASSUME InventoryInit PROVE InventoryInv
  OBVIOUS
<1> USE DEF InventoryInit
<1>1. RowsTyped
  <2>1. NoDeed \in Deeds BY DEF NoDeed, Deeds, Sites
  <2> QED BY <2>1 DEF RowsTyped, InventoryTypeOK, NodeRows, Sites
<1>2. RowsNumbered BY DEF RowsNumbered
<1>3. DeedsPending BY DEF DeedsPending, NoDeed
<1>4. InventoryHolds BY DEF InventoryHolds
<1> QED BY <1>1, <1>2, <1>3, <1>4 DEF InventoryInv

\* The ids that an import gives.
LEMMA ImportNumbers ==
  ASSUME RowsTyped
  PROVE  /\ Cardinality(Cluster) \in Nat \ {0}
         /\ nextNode \in Nat /\ nextNode + Cardinality(Cluster) \in Nat
         /\ nextNode..(nextNode + Cardinality(Cluster) - 1) \subseteq Nat
<1>1. Cardinality(Cluster) \in Nat BY FS_CardinalityType
<1>2. Cardinality(Cluster) # 0 BY FS_EmptySet
<1>3. nextNode \in Nat BY DEF RowsTyped, InventoryTypeOK
<1> QED BY <1>1, <1>2, <1>3

\* The row of a guest is on the node that was made for the guest's node.
LEMMA RowOfGuest ==
  ASSUME RowsTyped, NEW r \in Calls, NEW g \in Guests, HasMade(r)
  PROVE  RowOf(r, g) \in ContainerRows /\ Placed(RowOf(r, g))
<1> DEFINE n == CHOOSE m \in deed[r].made : m.name = GuestOn[g]
<1>1. GuestOn[g] \in Cluster BY DEF Guests
<1>2. n \in deed[r].made /\ n.name = GuestOn[g] BY <1>1 DEF HasMade
<1> HIDE DEF n
<1>3. deed[r] \in Deeds /\ n \in NodeRows BY <1>2 DEF RowsTyped, Deeds
<1>4. RowOf(r, g) = [name |-> g, site |-> deed[r].site, node |-> n.id] BY DEF RowOf, n
<1>5. RowOf(r, g) \in ContainerRows
  BY <1>3, <1>4 DEF Deeds, NodeRows, ContainerRows, Hostnames
<1>6. Placed(RowOf(r, g))
  BY <1>2, <1>4 DEF Placed, HasMade
<1> QED BY <1>5, <1>6

LEMMA RowsTypedStep == ASSUME RowsTyped, DeedsPending, InventoryNext PROVE RowsTyped'
<1>1. PICK r \in Calls :
        \/ LoadSite(r) \/ AddNode(r) \/ ChooseNode(r) \/ InsertRow(r) \/ DeleteRow(r)
        \/ ImportNodes(r) \/ ListGuests(r) \/ ImportRows(r)
        \/ CheckNode(r) \/ CheckSite(r) \/ DestroyNode(r) \/ DestroySite(r)
  BY DEF InventoryNext
<1> USE DEF RowsTyped, InventoryTypeOK
<1>2. deed[r] \in Deeds /\ NoDeed \in Deeds BY DEF NoDeed, Deeds, Sites
<1>3. Ends(r) => deed' \in [Calls -> Deeds] BY <1>2 DEF Ends, Deeds
<1>4. Fail(r) => RowsTyped' BY <1>3 DEF Fail
<1>5. CASE LoadSite(r)
  <2>1. PICK s \in sites, what \in {"node", "create", "import"} :
          deed' = [deed EXCEPT ![r] = [NoDeed EXCEPT !.kind = what, !.site = s, !.pc = "loaded"]]
    BY <1>5 DEF LoadSite
  <2>2. [NoDeed EXCEPT !.kind = what, !.site = s, !.pc = "loaded"] \in Deeds
    BY <1>2 DEF Deeds
  <2>3. deed' \in [Calls -> Deeds] BY <2>1, <2>2
  <2> QED BY <1>5, <2>3 DEF LoadSite
<1>6. CASE AddNode(r)
  <2>1. CASE deed[r].site \in sites
    <3>1. [id |-> nextNode, name |-> "own", site |-> deed[r].site] \in NodeRows
      BY <2>1 DEF NodeRows
    <3>2. nextNode' \in 1..MaxNodes BY <1>6, <2>1 DEF AddNode
    <3> QED BY <1>3, <1>6, <2>1, <3>1, <3>2 DEF AddNode
  <2> QED BY <1>4, <1>6, <2>1 DEF AddNode
<1>7. CASE ChooseNode(r)
  <2>1. \A n \in LeastLoaded(deed[r].site) : n.id \in Nat
    BY DEF LeastLoaded, NodesOf, NodeRows
  <2>2. \A n \in LeastLoaded(deed[r].site) :
          [deed[r] EXCEPT !.on = n.id, !.pc = "insert"] \in Deeds
    BY <1>2, <2>1 DEF Deeds
  <2>3. deed' \in [Calls -> Deeds] BY <1>3, <1>7, <2>2 DEF ChooseNode
  <2> QED BY <1>7, <2>3 DEF ChooseNode
<1>8. CASE InsertRow(r)
  <2>1. [name |-> "new", site |-> deed[r].site, node |-> deed[r].on] \in ContainerRows
    BY <1>2 DEF Deeds, ContainerRows, Hostnames
  <2> QED BY <1>3, <1>4, <1>8, <2>1 DEF InsertRow, ContainerRows
<1>9. CASE DeleteRow(r) BY <1>3, <1>9 DEF DeleteRow
<1>10. CASE ImportNodes(r)
  <2>1. CASE deed[r].site \in sites
    <3> DEFINE made(number) ==
                 {[id |-> number[c], name |-> c, site |-> deed[r].site] : c \in Cluster}
    <3>1. PICK number \in [Cluster -> nextNode..(nextNode + Cardinality(Cluster) - 1)] :
            /\ nodes' = nodes \cup made(number)
            /\ deed' = [deed EXCEPT ![r].made = made(number), ![r].pc = "list"]
      BY <1>10, <2>1 DEF ImportNodes
    <3>2. made(number) \subseteq NodeRows BY <2>1, ImportNumbers DEF NodeRows
    <3>3. [deed[r] EXCEPT !.made = made(number), !.pc = "list"] \in Deeds
      BY <1>2, <3>2 DEF Deeds
    <3>4. nextNode' \in 1..MaxNodes BY <1>10, <2>1, ImportNumbers DEF ImportNodes
    <3>5. deed' \in [Calls -> Deeds] BY <3>1, <3>3
    <3> QED BY <1>10, <2>1, <3>1, <3>2, <3>4, <3>5 DEF ImportNodes
  <2> QED BY <1>4, <1>10, <2>1 DEF ImportNodes
<1>11. CASE ListGuests(r)
  <2>1. {RowOf(r, g) : g \in Guests} \subseteq ContainerRows
    BY <1>11, RowOfGuest DEF DeedsPending, ListGuests
  <2>2. [deed[r] EXCEPT !.pc = "rows", !.list = {RowOf(r, g) : g \in Guests}] \in Deeds
    BY <1>2, <2>1 DEF Deeds
  <2>3. deed' \in [Calls -> Deeds] BY <1>3, <1>11, <2>2 DEF ListGuests
  <2> QED BY <1>11, <2>3 DEF ListGuests
<1>12. CASE ImportRows(r)
  <2>1. deed[r].list \subseteq ContainerRows BY <1>2 DEF Deeds
  <2> QED BY <1>3, <1>4, <1>12, <2>1 DEF ImportRows, ContainerRows
<1>13. CASE CheckNode(r)
  <2>1. \A n \in nodes :
          [NoDeed EXCEPT !.kind = "delete", !.on = n.id, !.pc = "destroy"] \in Deeds
    BY <1>2 DEF Deeds, NodeRows
  <2>2. deed' \in [Calls -> Deeds] BY <1>3, <1>13, <2>1 DEF CheckNode
  <2> QED BY <1>13, <2>2 DEF CheckNode
<1>14. CASE CheckSite(r)
  <2>1. \A s \in sites : [NoDeed EXCEPT !.kind = "raze", !.site = s, !.pc = "destroy"] \in Deeds
    BY <1>2 DEF Deeds
  <2>2. deed' \in [Calls -> Deeds] BY <1>3, <1>14, <2>1 DEF CheckSite
  <2> QED BY <1>14, <2>2 DEF CheckSite
<1>15. CASE DestroyNode(r) BY <1>3, <1>4, <1>15 DEF DestroyNode
<1>16. CASE DestroySite(r) BY <1>3, <1>4, <1>16 DEF DestroySite
<1> QED BY <1>1, <1>5, <1>6, <1>7, <1>8, <1>9, <1>10, <1>11, <1>12, <1>13, <1>14, <1>15, <1>16

\* A step leaves the other requests alone, and gives new nodes new ids, once each.
LEMMA StepsOf ==
  ASSUME RowsTyped, RowsNumbered, NEW r \in Calls,
         \/ LoadSite(r) \/ AddNode(r) \/ ChooseNode(r) \/ InsertRow(r) \/ DeleteRow(r)
         \/ ImportNodes(r) \/ ListGuests(r) \/ ImportRows(r)
         \/ CheckNode(r) \/ CheckSite(r) \/ DestroyNode(r) \/ DestroySite(r)
  PROVE  /\ \A q \in Calls : q # r => deed'[q] = deed[q]
         /\ nextNode <= nextNode'
         /\ \A n \in nodes' : n \in nodes \/ n.id >= nextNode
         /\ RowsNumbered'
<1>1. nextNode \in Nat /\ nodes \subseteq NodeRows /\ deed \in [Calls -> Deeds]
  BY DEF RowsTyped, InventoryTypeOK
<1>2. Ends(r) => \A q \in Calls : q # r => deed'[q] = deed[q] BY <1>1 DEF Ends
<1>3. ASSUME nodes' \subseteq nodes, nextNode' = nextNode
      PROVE  RowsNumbered' /\ \A n \in nodes' : n \in nodes \/ n.id >= nextNode
  BY <1>3 DEF RowsNumbered
<1>4. CASE Fail(r) BY <1>1, <1>2, <1>3, <1>4 DEF Fail
<1>5. CASE LoadSite(r)
  <2>1. PICK loaded : deed' = [deed EXCEPT ![r] = loaded] BY <1>5 DEF LoadSite
  <2>2. \A q \in Calls : q # r => deed'[q] = deed[q] BY <1>1, <2>1
  <2>3. nodes' = nodes /\ nextNode' = nextNode BY <1>5 DEF LoadSite
  <2> QED BY <1>1, <1>3, <2>2, <2>3
<1>6. CASE AddNode(r) /\ ~Fail(r)
  <2> DEFINE n == [id |-> nextNode, name |-> "own", site |-> deed[r].site]
  <2>1. nodes' = nodes \cup {n} /\ nextNode' = nextNode + 1 /\ Ends(r) BY <1>6 DEF AddNode
  <2>2. n.id = nextNode OBVIOUS
  <2> HIDE DEF n
  <2> QED BY <1>1, <1>2, <2>1, <2>2 DEF RowsNumbered, NodeRows
<1>7. CASE ChooseNode(r)
  <2>1. \A q \in Calls : q # r => deed'[q] = deed[q] BY <1>1, <1>2, <1>7 DEF ChooseNode
  <2> QED BY <1>1, <1>3, <1>7, <2>1 DEF ChooseNode
<1>8. CASE InsertRow(r) BY <1>1, <1>2, <1>3, <1>4, <1>8 DEF InsertRow
<1>9. CASE DeleteRow(r) BY <1>1, <1>2, <1>3, <1>9 DEF DeleteRow
<1>10. CASE ImportNodes(r) /\ ~Fail(r)
  <2> DEFINE made(number) ==
               {[id |-> number[c], name |-> c, site |-> deed[r].site] : c \in Cluster}
  <2>1. PICK number \in [Cluster -> nextNode..(nextNode + Cardinality(Cluster) - 1)] :
          /\ \A c, d \in Cluster : c # d => number[c] # number[d]
          /\ nodes' = nodes \cup made(number)
          /\ deed' = [deed EXCEPT ![r].made = made(number), ![r].pc = "list"]
    BY <1>10 DEF ImportNodes
  <2>2. nextNode' = nextNode + Cardinality(Cluster) BY <1>10 DEF ImportNodes
  <2>3. \A n \in made(number) :
          /\ n.id \in Nat /\ n.id >= nextNode /\ n.id < nextNode'
          /\ n.name \in Cluster /\ n.id = number[n.name] /\ n.site = deed[r].site
          /\ n = [id |-> n.id, name |-> n.name, site |-> n.site]
    BY <2>2, ImportNumbers
  <2> HIDE DEF made
  <2>4. \A n, m \in made(number) : n.id = m.id => n = m BY <2>1, <2>3
  <2>5. nextNode' \in Nat /\ nextNode <= nextNode' BY <2>2, ImportNumbers
  <2>6. RowsNumbered'
    <3>1. \A n \in nodes' : n.id < nextNode' BY <1>1, <2>1, <2>3, <2>5 DEF RowsNumbered, NodeRows
    <3>2. \A n \in nodes, m \in made(number) : n.id # m.id
      BY <1>1, <2>3 DEF RowsNumbered, NodeRows
    <3>3. \A n, m \in nodes' : n.id = m.id => n = m BY <2>1, <2>4, <3>2 DEF RowsNumbered
    <3> QED BY <3>1, <3>3 DEF RowsNumbered
  <2> QED BY <1>1, <2>1, <2>3, <2>5, <2>6
<1>11. CASE ListGuests(r) BY <1>1, <1>2, <1>3, <1>11 DEF ListGuests
<1>12. CASE ImportRows(r) BY <1>1, <1>2, <1>3, <1>4, <1>12 DEF ImportRows
<1>13. CASE CheckNode(r)
  <2>1. \A q \in Calls : q # r => deed'[q] = deed[q] BY <1>1, <1>2, <1>13 DEF CheckNode
  <2>2. nodes' = nodes /\ nextNode' = nextNode BY <1>13 DEF CheckNode
  <2> QED BY <1>1, <1>3, <2>1, <2>2
<1>14. CASE CheckSite(r)
  <2>1. \A q \in Calls : q # r => deed'[q] = deed[q] BY <1>1, <1>2, <1>14 DEF CheckSite
  <2>2. nodes' = nodes /\ nextNode' = nextNode BY <1>14 DEF CheckSite
  <2> QED BY <1>1, <1>3, <2>1, <2>2
<1>15. CASE DestroyNode(r) BY <1>1, <1>2, <1>3, <1>4, <1>15 DEF DestroyNode
<1>16. CASE DestroySite(r) BY <1>1, <1>2, <1>3, <1>4, <1>16 DEF DestroySite
<1> QED BY <1>4, <1>5, <1>6, <1>7, <1>8, <1>9, <1>10, <1>11, <1>12, <1>13, <1>14, <1>15, <1>16

\* What the request that moves is about to insert is right as well.
LEMMA DeedsPendingStep == ASSUME RowsTyped, RowsNumbered, DeedsPending, InventoryNext PROVE DeedsPending'
<1>1. PICK r \in Calls :
        \/ LoadSite(r) \/ AddNode(r) \/ ChooseNode(r) \/ InsertRow(r) \/ DeleteRow(r)
        \/ ImportNodes(r) \/ ListGuests(r) \/ ImportRows(r)
        \/ CheckNode(r) \/ CheckSite(r) \/ DestroyNode(r) \/ DestroySite(r)
  BY DEF InventoryNext
<1>2. RowsTyped' BY RowsTypedStep
<1>3. nextNode \in Nat /\ nextNode' \in Nat /\ nodes' \subseteq NodeRows
      /\ deed \in [Calls -> Deeds] /\ nodes \subseteq NodeRows
  BY <1>2 DEF RowsTyped, InventoryTypeOK
<1>4. ASSUME NEW q \in Calls, q # r
      PROVE  /\ deed'[q].pc = "insert" =>
                  Placed([name |-> "new", site |-> deed[q].site, node |-> deed[q].on])'
             /\ deed'[q].pc = "list" => HasMade(q)'
             /\ deed'[q].pc = "rows" => \A w \in deed'[q].list : Placed(w)'
  BY <1>1, <1>3, <1>4, StepsOf, OthersLast
<1> DEFINE Fine ==
      /\ deed'[r].pc = "insert" =>
           Placed([name |-> "new", site |-> deed[r].site, node |-> deed[r].on])'
      /\ deed'[r].pc = "list" => HasMade(r)'
      /\ deed'[r].pc = "rows" => \A w \in deed'[r].list : Placed(w)'
<1>5. ASSUME deed'[r].pc \notin {"insert", "list", "rows"} PROVE Fine
  BY <1>5
<1>6. Ends(r) => deed'[r].pc = "over" BY <1>3 DEF Ends, NoDeed
<1>7. Ends(r) => Fine BY <1>5, <1>6
<1>8. Fail(r) => Fine BY <1>7 DEF Fail
<1> HIDE DEF Fine
<1>9. ASSUME LoadSite(r) PROVE Fine
  <2>1. PICK s \in sites, what \in {"node", "create", "import"} :
          deed' = [deed EXCEPT ![r] = [NoDeed EXCEPT !.kind = what, !.site = s, !.pc = "loaded"]]
    BY <1>9 DEF LoadSite
  <2>2. deed'[r].pc = "loaded" BY <1>3, <2>1 DEF NoDeed
  <2> QED BY <1>5, <2>2
<1>10. ASSUME AddNode(r) PROVE Fine BY <1>7, <1>8, <1>10 DEF AddNode
<1>11. ASSUME ChooseNode(r) /\ ~Ends(r) PROVE Fine
  <2>1. PICK n \in LeastLoaded(deed[r].site) :
          deed' = [deed EXCEPT ![r].on = n.id, ![r].pc = "insert"]
    BY <1>11 DEF ChooseNode
  <2>2. n \in nodes /\ n.site = deed[r].site BY DEF LeastLoaded, NodesOf
  <2>3. deed'[r].pc = "insert" /\ deed'[r].on = n.id /\ deed'[r].site = deed[r].site
    BY <1>3, <2>1 DEF Deeds
  <2>4. nodes' = nodes /\ nextNode' = nextNode BY <1>11 DEF ChooseNode
  <2>5. "new" \notin Guests BY DEF Guests
  <2>6. Placed([name |-> "new", site |-> deed[r].site, node |-> deed[r].on])'
    BY <2>2, <2>3, <2>4, <2>5 DEF Placed, RowsNumbered
  <2> QED BY <2>3, <2>6 DEF Fine
<1>12. ASSUME InsertRow(r) PROVE Fine BY <1>7, <1>8, <1>12 DEF InsertRow
<1>13. ASSUME DeleteRow(r) PROVE Fine BY <1>7, <1>13 DEF DeleteRow
<1>14. ASSUME ImportNodes(r) /\ ~Fail(r) PROVE Fine
  <2> DEFINE made(number) ==
               {[id |-> number[c], name |-> c, site |-> deed[r].site] : c \in Cluster}
  <2>1. PICK number \in [Cluster -> nextNode..(nextNode + Cardinality(Cluster) - 1)] :
          /\ nodes' = nodes \cup made(number)
          /\ deed' = [deed EXCEPT ![r].made = made(number), ![r].pc = "list"]
    BY <1>14 DEF ImportNodes
  <2>2. ASSUME NEW c \in Cluster PROVE \E n \in made(number) : n.name = c
    <3>1. [id |-> number[c], name |-> c, site |-> deed[r].site] \in made(number) OBVIOUS
    <3> HIDE DEF made
    <3> QED BY <3>1
  <2>3. \A n \in made(number) : n.site = deed[r].site OBVIOUS
  <2> HIDE DEF made
  <2>4. deed'[r].pc = "list" /\ deed'[r].made = made(number) /\ deed'[r].site = deed[r].site
    BY <1>3, <2>1 DEF Deeds
  <2>5. RowsNumbered' BY <1>1, StepsOf
  <2>6. \A n \in made(number) : n.id < nextNode' /\ \A m \in nodes' : m.id = n.id => m = n
    BY <2>1, <2>5 DEF RowsNumbered
  <2>7. HasMade(r)' BY <2>2, <2>3, <2>4, <2>6 DEF HasMade
  <2> QED BY <2>4, <2>7 DEF Fine
<1>15. ASSUME ListGuests(r) /\ ~Ends(r) PROVE Fine
  <2>1. deed[r].pc = "list" /\ deed' = [deed EXCEPT ![r].pc = "rows", ![r].list = {RowOf(r, g) : g \in Guests}]
        /\ nodes' = nodes /\ nextNode' = nextNode
    BY <1>15 DEF ListGuests
  <2>2. deed'[r].pc = "rows" /\ deed'[r].list = {RowOf(r, g) : g \in Guests}
    BY <1>3, <2>1 DEF Deeds
  <2>3. \A w \in {RowOf(r, g) : g \in Guests} : Placed(w) BY <2>1, RowOfGuest DEF DeedsPending
  <2>4. \A w : Placed(w) => Placed(w)' BY <2>1 DEF Placed
  <2> QED BY <2>2, <2>3, <2>4 DEF Fine
<1>16. ASSUME ImportRows(r) PROVE Fine BY <1>7, <1>8, <1>16 DEF ImportRows
<1>17. ASSUME CheckNode(r) /\ ~Ends(r) PROVE Fine
  <2>1. PICK n \in nodes : deed' = [deed EXCEPT ![r] = [NoDeed EXCEPT !.kind = "delete", !.on = n.id, !.pc = "destroy"]]
    BY <1>17 DEF CheckNode
  <2>2. deed'[r].pc = "destroy" BY <1>3, <2>1 DEF NoDeed
  <2> QED BY <1>5, <2>2
<1>18. ASSUME CheckSite(r) /\ ~Ends(r) PROVE Fine
  <2>1. PICK s \in sites : deed' = [deed EXCEPT ![r] = [NoDeed EXCEPT !.kind = "raze", !.site = s, !.pc = "destroy"]]
    BY <1>18 DEF CheckSite
  <2>2. deed'[r].pc = "destroy" BY <1>3, <2>1 DEF NoDeed
  <2> QED BY <1>5, <2>2
<1>19. ASSUME DestroyNode(r) PROVE Fine BY <1>7, <1>8, <1>19 DEF DestroyNode
<1>20. ASSUME DestroySite(r) PROVE Fine BY <1>7, <1>8, <1>20 DEF DestroySite
<1>21. Fine
  BY <1>1, <1>7, <1>8, <1>9, <1>10, <1>11, <1>12, <1>13, <1>14, <1>15, <1>16, <1>17, <1>18,
     <1>19, <1>20
<1> QED BY <1>4, <1>21 DEF DeedsPending, Fine

\* What is inserted is on a node that is there, by the foreign keys, and so right; a node or
\* a site goes only if no row is on it.
LEMMA InventoryHoldsStep == ASSUME RowsTyped, RowsNumbered, DeedsPending, InventoryHolds, InventoryNext
                   PROVE  InventoryHolds'
<1>1. PICK r \in Calls :
        \/ LoadSite(r) \/ AddNode(r) \/ ChooseNode(r) \/ InsertRow(r) \/ DeleteRow(r)
        \/ ImportNodes(r) \/ ListGuests(r) \/ ImportRows(r)
        \/ CheckNode(r) \/ CheckSite(r) \/ DestroyNode(r) \/ DestroySite(r)
  BY DEF InventoryNext
<1> DEFINE Right(w) ==
      \E n \in nodes :
        n.id = w.node /\ n.site = w.site /\ (w.name \in Guests => n.name = GuestOn[w.name])
<1>2. swept = {} /\ \A w \in rows : Right(w) BY DEF InventoryHolds
<1>3. ASSUME nodes \subseteq nodes', \A w \in rows' : w \in rows \/ Right(w), swept' = swept
      PROVE  InventoryHolds'
  BY <1>2, <1>3 DEF InventoryHolds
<1>4. \A w : Placed(w) /\ Fits({w}) => Right(w) BY DEF Placed, Fits
<1>5. Fail(r) => InventoryHolds' BY <1>3 DEF Fail
<1> HIDE DEF Right
<1>6. CASE LoadSite(r) BY <1>3, <1>6 DEF LoadSite
<1>7. CASE AddNode(r) BY <1>3, <1>5, <1>7 DEF AddNode
<1>8. CASE ChooseNode(r) BY <1>3, <1>8 DEF ChooseNode
<1>9. CASE InsertRow(r) BY <1>3, <1>4, <1>5, <1>9 DEF InsertRow, DeedsPending
<1>10. CASE DeleteRow(r) BY <1>3, <1>10 DEF DeleteRow
<1>11. CASE ImportNodes(r) BY <1>3, <1>5, <1>11 DEF ImportNodes
<1>12. CASE ListGuests(r) BY <1>3, <1>12 DEF ListGuests
<1>13. CASE ImportRows(r) /\ ~Fail(r)
  <2>1. Fits(deed[r].list) /\ \A w \in deed[r].list : Placed(w)
    BY <1>13 DEF ImportRows, DeedsPending
  <2>2. \A w \in deed[r].list : Right(w)
    <3>1. \A w \in deed[r].list : Fits({w}) BY <2>1 DEF Fits
    <3> QED BY <1>4, <2>1, <3>1
  <2> QED BY <1>3, <1>13, <2>2 DEF ImportRows
<1>14. CASE CheckNode(r) BY <1>3, <1>14 DEF CheckNode
<1>15. CASE CheckSite(r) BY <1>3, <1>15 DEF CheckSite
<1>16. CASE DestroyNode(r) /\ ~Fail(r)
  <2>1. RowsOn(deed[r].on) = {} BY <1>16 DEF DestroyNode, OnDelete
  <2>2. \A w \in rows : w.node # deed[r].on BY <2>1 DEF RowsOn
  <2>3. /\ nodes' = {n \in nodes : n.id # deed[r].on}
        /\ rows' \subseteq rows /\ swept' = swept
    BY <1>16, <2>1 DEF DestroyNode
  <2> QED BY <1>2, <2>2, <2>3 DEF InventoryHolds, Right
<1>17. CASE DestroySite(r) /\ ~Fail(r)
  <2>1. {w \in rows : w.site = deed[r].site} = {} BY <1>17 DEF DestroySite, OnDelete
  <2>2. /\ nodes' = {n \in nodes : n.site # deed[r].site}
        /\ rows' \subseteq rows /\ swept' = swept
    BY <1>17, <2>1 DEF DestroySite
  <2> QED BY <1>2, <2>1, <2>2 DEF InventoryHolds, Right
<1> QED BY <1>1, <1>5, <1>6, <1>7, <1>8, <1>9, <1>10, <1>11, <1>12, <1>13, <1>14, <1>15, <1>16, <1>17

LEMMA InventoryInvStep == InventoryInv /\ [InventoryNext]_inventoryVars => InventoryInv'
<1>1. CASE InventoryInv /\ InventoryNext
  <2>1. RowsNumbered'
    BY <1>1, StepsOf DEF InventoryInv, InventoryNext
  <2> QED BY <1>1, <2>1, RowsTypedStep, DeedsPendingStep, InventoryHoldsStep DEF InventoryInv
<1>2. CASE InventoryInv /\ UNCHANGED inventoryVars
  BY <1>2 DEF InventoryInv, inventoryVars, RowsTyped, InventoryTypeOK, RowsNumbered, DeedsPending, Placed,
     HasMade, InventoryHolds
<1> QED BY <1>1, <1>2

-----------------------------------------------------------------------------
(* The theorems *)

\* Nodes, rows and requests are as typed, and ids of nodes are given once.
THEOREM InventoryTypeCorrect == InventorySpec => []InventoryTypeOK
<1>1. InventoryInv => InventoryTypeOK BY DEF InventoryInv, RowsTyped
<1> QED BY <1>1, InventoryInitially, InventoryInvStep, PTL DEF InventorySpec

\* DELETE /nodes/:id and /sites/:id take no row of a container with them, and what POST
\* /containers and the import insert is on a node of its own site that is named as the
\* guest's node, however many of these requests overlap.
THEOREM RowsKeepTheirNodes == InventorySpec => []InventoryHolds
<1>1. InventoryInv => InventoryHolds BY DEF InventoryInv
<1> QED BY <1>1, InventoryInitially, InventoryInvStep, PTL DEF InventorySpec

HIDE ClusterAssumption

-----------------------------------------------------------------------------
(* Starts *)

USE RowsDiffer, NobodyStarts

Stages == {"off", "locking", "migrating", "failing", "secret", "making", "up"}
Working == {"migrating", "failing"}
Migrated == {"secret", "making", "up"}

\* The statements of both files, in order.
Script == StatementsOf("sti") \o StatementsOf("later")

\* The types of the services before and after the migration.
OldTypes == [s \in Services |-> IF s \in Https THEN "http" ELSE "tcp"]
NewTypes == [s \in Services |-> IF s \in Https THEN "http" ELSE "transport"]

Statements == {"tables", "indexes", "read", "drop", "retype", "insert http", "insert transport",
               "sti", "column", "later"}
ServiceKinds == {"http", "tcp", "transport", "blank http", "blank tcp", "-"}

Schemas ==
  [tables : BOOLEAN, indexes : BOOLEAN, columns : BOOLEAN, later : BOOLEAN,
   type : [Services -> {"http", "tcp", "transport"}],
   http : SUBSET Services, transport : SUBSET Services, meta : SUBSET {"sti", "later"}]

Shaped ==
  /\ db \in Schemas
  /\ lock \in Procs \cup {"nobody"}
  /\ strayed \in SUBSET Procs
  /\ stage \in [Procs -> Stages]
  /\ todo \in [Procs -> Seq(Statements)]
  /\ mem \in [Procs -> [Services -> ServiceKinds]]
  /\ accepts \in [Webs -> SUBSET Nat]
  /\ signs \in [Webs -> Nat]
  /\ before \in [Webs -> SUBSET Nat]
  /\ crashes \in Nat

\* Who works on the schema has the lock, or has lost it with its connection.
LockHeld == \A p \in Procs : stage[p] \in Working => lock = p \/ p \in strayed

\* What is left to do is the end of the script.
Remaining ==
  \A p \in Procs :
    /\ Len(todo[p]) <= 10
    /\ \A i \in 1..Len(todo[p]) : todo[p][i] = Script[10 - Len(todo[p]) + i]

\* p is about to take the k-th statement of the script; at 11 it is through.
At(p, k) == stage[p] = "migrating" /\ Len(todo[p]) = 11 - k

\* Past the indexes, which only one process gets, and before its file is recorded.
Midway(p) == \E k \in 3..8 : At(p, k)

\* A schema without the indexes is untouched, and a recorded file is whole.
Recorded ==
  /\ ~db.indexes => db.columns /\ db.type = OldTypes /\ db.http = {} /\ db.transport = {}
  /\ "sti" \in db.meta =>
       /\ db.tables /\ db.indexes /\ ~db.columns
       /\ db.type = NewTypes /\ db.http = Https /\ db.transport = Layer4
  /\ db.later => "sti" \in db.meta
  /\ "later" \in db.meta => db.later

\* How far the schema is when p takes its k-th statement.
Halfway(p, k) ==
  /\ db.columns <=> k <= 4
  /\ db.type = IF k <= 5 THEN OldTypes ELSE NewTypes
  /\ db.http = IF k <= 6 THEN {} ELSE Https
  /\ db.transport = IF k <= 7 THEN {} ELSE Layer4
  /\ k >= 4 => mem[p] = OldTypes

Progress(p) ==
  /\ \A k \in 2..8 : At(p, k) => db.tables
  /\ Midway(p) => db.indexes /\ "sti" \notin db.meta /\ \A q \in Procs \ {p} : ~Midway(q)
  /\ \A k \in 3..8 : At(p, k) => Halfway(p, k)
  /\ \A k \in 9..11 : At(p, k) => "sti" \in db.meta
  /\ At(p, 10) => db.later
  /\ At(p, 11) \/ stage[p] \in Migrated => "later" \in db.meta

\* The secrets are numbered as they are made; who is up signs with one of them, and who
\* found none has seen nobody up.
SecretsNumbered == \E n \in Nat : secrets = 1..n

Sessions ==
  \A w \in Webs :
    /\ stage[w] = "up" => signs[w] \in secrets /\ before[w] \subseteq accepts[w]
    /\ stage[w] = "making" => before[w] = {}
    /\ accepts[w] \subseteq secrets

Schema == Recorded /\ \A p \in Procs : Progress(p)
StartInv == Shaped /\ LockHeld /\ Remaining /\ Schema /\ SecretsNumbered /\ Sessions

-----------------------------------------------------------------------------
(* The script *)

LEMMA ScriptIs ==
  /\ Script \in Seq(Statements) /\ Len(Script) = 10
  /\ Script[1] = "tables" /\ Script[2] = "indexes" /\ Script[3] = "read" /\ Script[4] = "drop"
  /\ Script[5] = "retype" /\ Script[6] = "insert http" /\ Script[7] = "insert transport"
  /\ Script[8] = "sti" /\ Script[9] = "column" /\ Script[10] = "later"
<1> DEFINE sti == StatementsOf("sti")
           later == StatementsOf("later")
<1>1. /\ sti[1] = "tables" /\ sti[2] = "indexes" /\ sti[3] = "read" /\ sti[4] = "drop"
      /\ sti[5] = "retype" /\ sti[6] = "insert http" /\ sti[7] = "insert transport" /\ sti[8] = "sti"
  BY DEF StatementsOf
<1>2. sti \in Seq(Statements) /\ Len(sti) = 8 BY DEF StatementsOf, Statements
<1>3. later \in Seq(Statements) /\ Len(later) = 2 /\ later[1] = "column" /\ later[2] = "later"
  BY DEF StatementsOf, Statements
<1>4. Script = sti \o later BY DEF Script
<1> HIDE DEF sti, later
<1>5. /\ sti \o later \in Seq(Statements)
      /\ Len(sti \o later) = Len(sti) + Len(later)
      /\ \A i \in 1..(Len(sti) + Len(later)) :
           (sti \o later)[i] = IF i <= Len(sti) THEN sti[i] ELSE later[i - Len(sti)]
  BY <1>2, <1>3, ConcatProperties, ZenonT(40)
<1>6. Len(sti) + Len(later) = 10 BY <1>2, <1>3
<1>7. /\ Script \in Seq(Statements) /\ Len(Script) = 10
      /\ \A i \in 1..10 : Script[i] = IF i <= 8 THEN sti[i] ELSE later[i - 8]
  BY <1>2, <1>4, <1>5, <1>6
<1>8. /\ Script[1] = sti[1] /\ Script[2] = sti[2] /\ Script[3] = sti[3] /\ Script[4] = sti[4]
      /\ Script[5] = sti[5] /\ Script[6] = sti[6] /\ Script[7] = sti[7] /\ Script[8] = sti[8]
  BY <1>7
<1>9. Script[9] = later[1] /\ Script[10] = later[2]
  <2>1. Script[9] = later[9 - 8] /\ Script[10] = later[10 - 8] BY <1>7
  <2>2. 9 - 8 = 1 /\ 10 - 8 = 2 OBVIOUS
  <2> QED BY <2>1, <2>2
<1> QED BY <1>1, <1>3, <1>7, <1>8, <1>9

LEMMA Heads ==
  ASSUME Shaped, Remaining, NEW p \in Procs, todo[p] # <<>>
  PROVE  /\ Len(todo[p]) \in 1..10
         /\ Head(todo[p]) = Script[11 - Len(todo[p])] /\ Head(todo[p]) \in Statements
         /\ Tail(todo[p]) \in Seq(Statements)
         /\ Len(Tail(todo[p])) = Len(todo[p]) - 1
         /\ \A i \in 1..(Len(todo[p]) - 1) : Tail(todo[p])[i] = todo[p][i + 1]
<1> DEFINE n == Len(todo[p])
<1>1. todo[p] \in Seq(Statements) BY DEF Shaped
<1>2. n \in Nat \ {0} BY <1>1, EmptySeq
<1>3. Head(todo[p]) = todo[p][1] BY <1>1
<1>4. /\ Head(todo[p]) \in Statements
      /\ Tail(todo[p]) \in Seq(Statements) /\ Len(Tail(todo[p])) = n - 1
      /\ \A i \in 1..(n - 1) : Tail(todo[p])[i] = todo[p][i + 1]
  BY <1>1, HeadTailProperties
<1>5. n <= 10 /\ \A i \in 1..n : todo[p][i] = Script[10 - n + i] BY DEF Remaining
<1> HIDE DEF n
<1>6. n \in 1..10 BY <1>2, <1>5
<1>7. todo[p][1] = Script[11 - n]
  <2>1. 1 \in 1..n BY <1>2
  <2>2. todo[p][1] = Script[10 - n + 1] BY <1>5, <2>1
  <2>3. 10 - n + 1 = 11 - n BY <1>6
  <2> QED BY <2>2, <2>3
<1> QED BY <1>3, <1>4, <1>6, <1>7 DEF n

LEMMA ScriptLeft ==
  ASSUME Shaped, Recorded
  PROVE  /\ PendingFiles \in Seq(Statements)
         /\ \/ "sti" \notin db.meta /\ Len(PendingFiles) = 10
            \/ "sti" \in db.meta /\ "later" \notin db.meta /\ Len(PendingFiles) = 2
            \/ "sti" \in db.meta /\ "later" \in db.meta /\ Len(PendingFiles) = 0
         /\ \A i \in 1..Len(PendingFiles) : PendingFiles[i] = Script[10 - Len(PendingFiles) + i]
<1>1. "sti" \notin db.meta => "later" \notin db.meta BY DEF Recorded
<1>2. CASE "sti" \notin db.meta
  <2>1. PendingFiles = Script BY <1>1, <1>2 DEF PendingFiles, Script
  <2>2. \A i \in 1..10 : Script[i] = Script[10 - 10 + i]
    <3>1. \A i \in 1..10 : 10 - 10 + i = i OBVIOUS
    <3> QED BY <3>1
  <2> QED BY <1>2, <2>1, <2>2, ScriptIs
<1>3. CASE "sti" \in db.meta /\ "later" \notin db.meta
  <2>1. PendingFiles = <<"column", "later">> BY <1>3 DEF PendingFiles, StatementsOf
  <2>2. /\ PendingFiles \in Seq(Statements) /\ Len(PendingFiles) = 2
        /\ PendingFiles[1] = "column" /\ PendingFiles[2] = "later"
    BY <2>1 DEF Statements
  <2>3. \A i \in 1..2 : PendingFiles[i] = Script[10 - 2 + i]
    <3>1. PendingFiles[1] = Script[9] /\ PendingFiles[2] = Script[10] BY <2>2, ScriptIs
    <3>2. 10 - 2 + 1 = 9 /\ 10 - 2 + 2 = 10 OBVIOUS
    <3>3. \A i \in 1..2 : i = 1 \/ i = 2 OBVIOUS
    <3> QED BY <3>1, <3>2, <3>3
  <2> QED BY <1>3, <2>2, <2>3
<1>4. CASE "sti" \in db.meta /\ "later" \in db.meta
  <2>1. PendingFiles = <<>> BY <1>4 DEF PendingFiles
  <2> QED BY <1>4, <2>1
<1> QED BY <1>2, <1>3, <1>4

-----------------------------------------------------------------------------
(* Preservation *)

LEMMA StartInvInit == StartInit => StartInv
<1> SUFFICES ASSUME StartInit PROVE StartInv OBVIOUS
<1> USE DEF StartInit
<1>1. Shaped
  <2>1. db.type \in [Services -> {"http", "tcp", "transport"}] OBVIOUS
  <2>2. db \in Schemas BY <2>1 DEF Schemas
  <2> QED BY <2>2 DEF Shaped, Stages, Unread, ServiceKinds
<1>2. LockHeld BY DEF LockHeld, Working
<1>3. Remaining BY DEF Remaining
<1>4. Recorded BY DEF Recorded, OldTypes
<1>5. \A p \in Procs : ~Midway(p) /\ stage[p] \notin Migrated /\ \A k \in 1..11 : ~At(p, k)
  BY DEF Midway, At, Migrated
<1>6. \A p \in Procs : Progress(p) BY <1>5 DEF Progress
<1>7. SecretsNumbered /\ Sessions
  <2>1. secrets = 1..0 OBVIOUS
  <2>2. \A w \in Webs : stage[w] = "off" /\ accepts[w] = {} BY DEF Procs
  <2> QED BY <2>1, <2>2 DEF SecretsNumbered, Sessions
<1> QED BY <1>1, <1>2, <1>3, <1>4, <1>6, <1>7 DEF StartInv, Schema

LEMMA Counted == ASSUME SecretsNumbered PROVE Cardinality(secrets) \in Nat /\ secrets = 1..Cardinality(secrets)
<1>1. PICK n \in Nat : secrets = 1..n BY DEF SecretsNumbered
<1>2. Cardinality(1..n) = n BY FS_Interval
<1> QED BY <1>1, <1>2

LEMMA AfterTyped == ASSUME Shaped, NEW p \in Procs, NEW s \in Statements PROVE After(p, s) \in Schemas
<1> USE DEF Shaped, Schemas
<1>1. CASE s = "tables" BY <1>1 DEF After
<1>2. CASE s = "indexes" BY <1>2 DEF After
<1>3. CASE s = "read" BY <1>3 DEF After
<1>4. CASE s = "drop" BY <1>4 DEF After
<1>5. CASE s = "retype"
  <2>1. [x \in Services |-> IF db.type[x] = "tcp" THEN "transport" ELSE db.type[x]]
          \in [Services -> {"http", "tcp", "transport"}]
    OBVIOUS
  <2> QED BY <1>5, <2>1 DEF After
<1>6. CASE s = "insert http" BY <1>6 DEF After
<1>7. CASE s = "insert transport" BY <1>7 DEF After
<1>8. CASE s = "column" BY <1>8 DEF After
<1>9. CASE s \in {"sti", "later"} BY <1>9 DEF After
<1> QED BY <1>1, <1>2, <1>3, <1>4, <1>5, <1>6, <1>7, <1>8, <1>9 DEF Statements

LEMMA ShapedStep == ASSUME Shaped, Remaining, Recorded, SecretsNumbered, [StartNext]_startVars PROVE Shaped'
<1> USE DEF Shaped, Enter, Crash
<1>1. ASSUME NEW p \in Procs, Boot(p) PROVE Shaped' BY <1>1 DEF Boot, Stages
<1>2. ASSUME NEW p \in Procs, LosesLock(p) PROVE Shaped' BY <1>2 DEF LosesLock
<1>3. ASSUME NEW p \in Procs, Dies(p) PROVE Shaped'
  <2>1. Unread \in [Services -> ServiceKinds] BY DEF Unread, ServiceKinds
  <2>2. /\ accepts' \in [Webs -> SUBSET Nat] /\ signs' \in [Webs -> Nat] /\ before' \in [Webs -> SUBSET Nat]
    BY <1>3 DEF Dies
  <2> QED BY <1>3, <2>1, <2>2 DEF Dies, Stages
<1>4. ASSUME NEW p \in Procs, AcquireLock(p) PROVE Shaped'
  <2>1. PendingFiles \in Seq(Statements) BY ScriptLeft
  <2> QED BY <1>4, <2>1 DEF AcquireLock, Stages
<1>5. ASSUME NEW p \in Procs, ReleaseLock(p) PROVE Shaped'
  <2>1. Unread \in [Services -> ServiceKinds] BY DEF Unread, ServiceKinds
  <2> QED BY <1>5, <2>1 DEF ReleaseLock, Stages
<1>6. ASSUME NEW p \in Procs, Statement(p) PROVE Shaped'
  <2>1. CASE Fails(p, Head(todo[p]))
    <3>1. stage' = [stage EXCEPT ![p] = "failing"] /\ todo' = [todo EXCEPT ![p] = <<>>]
      BY <1>6, <2>1 DEF Statement
    <3>2. UNCHANGED <<db, mem, lock, strayed, secrets, accepts, signs, before, crashes>>
      BY <1>6, <2>1 DEF Statement
    <3> QED BY <3>1, <3>2 DEF Stages
  <2>2. CASE ~Fails(p, Head(todo[p]))
    <3> DEFINE s == Head(todo[p])
    <3>1. db' = After(p, s) /\ stage' = stage /\ todo' = [todo EXCEPT ![p] = Tail(@)]
      BY <1>6, <2>2 DEF Statement
    <3>2. UNCHANGED <<lock, strayed, secrets, accepts, signs, before, crashes>> BY <1>6 DEF Statement
    <3>3. todo' \in [Procs -> Seq(Statements)] BY <1>6, <3>1, Heads DEF Statement
    <3>4. mem' \in [Procs -> [Services -> ServiceKinds]]
      <4>1. [x \in Services |->
              IF db.columns THEN db.type[x]
              ELSE IF db.type[x] = "http" THEN "blank http"
              ELSE IF db.type[x] = "tcp" THEN "blank tcp" ELSE "-"] \in [Services -> ServiceKinds]
        BY DEF ServiceKinds, Schemas
      <4> QED BY <1>6, <2>2, <4>1 DEF Statement
    <3>5. s \in Statements BY <1>6, Heads DEF Statement
    <3>6. After(p, s) \in Schemas BY <3>5, AfterTyped
    <3> QED BY <3>1, <3>2, <3>3, <3>4, <3>6
  <2> QED BY <2>1, <2>2
<1>7. ASSUME NEW p \in Webs, ReadSecrets(p) PROVE Shaped'
  BY <1>7, Counted DEF ReadSecrets, Stages, Procs
<1>8. ASSUME NEW p \in Webs, MakeSecret(p) PROVE Shaped'
  BY <1>8, Counted DEF MakeSecret, Stages, Procs
<1>9. CASE UNCHANGED startVars BY <1>9 DEF startVars
<1> QED BY <1>1, <1>2, <1>3, <1>4, <1>5, <1>6, <1>7, <1>8, <1>9 DEF StartNext

LEMMA LockHeldStep == ASSUME Shaped, LockHeld, [StartNext]_startVars PROVE LockHeld'
<1> USE DEF Shaped, LockHeld, Working, Enter
<1>1. ASSUME NEW p \in Procs, Boot(p) PROVE LockHeld' BY <1>1 DEF Boot
<1>2. ASSUME NEW p \in Procs, AcquireLock(p) PROVE LockHeld' BY <1>2 DEF AcquireLock, Procs
<1>3. ASSUME NEW p \in Procs, Statement(p) PROVE LockHeld' BY <1>3 DEF Statement
<1>4. ASSUME NEW p \in Procs, ReleaseLock(p) PROVE LockHeld' BY <1>4 DEF ReleaseLock
<1>5. ASSUME NEW p \in Procs, Dies(p) PROVE LockHeld' BY <1>5 DEF Dies
<1>6. ASSUME NEW p \in Procs, LosesLock(p) PROVE LockHeld' BY <1>6 DEF LosesLock
<1>7. ASSUME NEW p \in Webs, ReadSecrets(p) \/ MakeSecret(p) PROVE LockHeld'
  BY <1>7 DEF ReadSecrets, MakeSecret, Procs
<1>8. CASE UNCHANGED startVars BY <1>8 DEF startVars
<1> QED BY <1>1, <1>2, <1>3, <1>4, <1>5, <1>6, <1>7, <1>8 DEF StartNext

\* The ways in which a step changes what is left to do.
LEMMA TodoSteps ==
  ASSUME Shaped, [StartNext]_startVars
  PROVE  \/ todo' = todo
         \/ \E p \in Procs : \/ AcquireLock(p)
                             \/ todo' = [todo EXCEPT ![p] = <<>>]
                             \/ todo[p] # <<>> /\ todo' = [todo EXCEPT ![p] = Tail(@)]
<1>1. ASSUME NEW p \in Procs, Boot(p) PROVE todo' = todo BY <1>1 DEF Boot
<1>3. ASSUME NEW p \in Procs, Statement(p)
      PROVE  \/ todo' = [todo EXCEPT ![p] = <<>>]
             \/ todo[p] # <<>> /\ todo' = [todo EXCEPT ![p] = Tail(@)]
  BY <1>3 DEF Statement
<1>4. ASSUME NEW p \in Procs, ReleaseLock(p) PROVE todo' = todo BY <1>4 DEF ReleaseLock
<1>5. ASSUME NEW p \in Procs, Dies(p) PROVE todo' = [todo EXCEPT ![p] = <<>>] BY <1>5 DEF Dies
<1>6. ASSUME NEW p \in Procs, LosesLock(p) PROVE todo' = todo BY <1>6 DEF LosesLock
<1>7. ASSUME NEW p \in Webs, ReadSecrets(p) \/ MakeSecret(p) PROVE todo' = todo
  BY <1>7 DEF ReadSecrets, MakeSecret
<1>8. CASE UNCHANGED startVars BY <1>8 DEF startVars
<1> QED BY <1>1, <1>3, <1>4, <1>5, <1>6, <1>7, <1>8 DEF StartNext

LEMMA RemainingStep == ASSUME Shaped, Recorded, Remaining, [StartNext]_startVars PROVE Remaining'
<1> DEFINE IsTheEnd(s) == Len(s) <= 10 /\ \A i \in 1..Len(s) : s[i] = Script[10 - Len(s) + i]
<1>1. \A q \in Procs : IsTheEnd(todo[q]) BY DEF Remaining
<1>2. todo \in [Procs -> Seq(Statements)] BY DEF Shaped
<1>3. IsTheEnd(<<>>) OBVIOUS
<1>4. ASSUME NEW p \in Procs, todo[p] # <<>> PROVE IsTheEnd(Tail(todo[p]))
  <2> DEFINE t == Tail(todo[p])
             n == Len(todo[p])
  <2>1. /\ n \in 1..10 /\ Len(t) = n - 1
        /\ \A i \in 1..(n - 1) : t[i] = todo[p][i + 1]
    BY <1>4, Heads
  <2>2. \A i \in 1..n : todo[p][i] = Script[10 - n + i] BY <1>1
  <2> HIDE DEF n, t
  <2>3. n - 1 <= 10 BY <2>1
  <2>4. ASSUME NEW i \in 1..(n - 1) PROVE t[i] = Script[10 - (n - 1) + i]
    <3>1. i + 1 \in 1..n BY <2>1
    <3>2. t[i] = Script[10 - n + (i + 1)] BY <2>1, <2>2, <3>1
    <3>3. 10 - n + (i + 1) = 10 - (n - 1) + i BY <2>1
    <3> QED BY <3>2, <3>3
  <2>5. IsTheEnd(t) BY <2>1, <2>3, <2>4
  <2> QED BY <2>5 DEF t
<1>5. ASSUME NEW p \in Procs, AcquireLock(p) PROVE IsTheEnd(PendingFiles) /\ todo' = [todo EXCEPT ![p] = PendingFiles]
  <2>1. Len(PendingFiles) = 10 \/ Len(PendingFiles) = 2 \/ Len(PendingFiles) = 0 BY ScriptLeft
  <2>2. Len(PendingFiles) <= 10
    <3>1. \A n : n = 10 \/ n = 2 \/ n = 0 => n <= 10 OBVIOUS
    <3> QED BY <2>1, <3>1
  <2>3. \A i \in 1..Len(PendingFiles) : PendingFiles[i] = Script[10 - Len(PendingFiles) + i] BY ScriptLeft
  <2> QED BY <1>5, <2>2, <2>3 DEF AcquireLock
<1>6. Remaining' <=> \A q \in Procs : IsTheEnd(todo'[q]) BY DEF Remaining
<1> HIDE DEF IsTheEnd
<1> QED BY <1>1, <1>2, <1>3, <1>4, <1>5, <1>6, TodoSteps

\* A step that leaves the schema alone, and brings nobody further.
LEMMA Elsewhere ==
  ASSUME Schema, db' = db,
         \A q \in Procs : \A k \in 1..11 : At(q, k)' => At(q, k) /\ mem'[q] = mem[q],
         \A q \in Procs : stage'[q] \in Migrated => stage[q] \in Migrated \/ At(q, 11)
  PROVE  Schema'
<1>1. Recorded' BY DEF Schema, Recorded
<1>2. ASSUME NEW p \in Procs PROVE Progress(p)'
  <2>0. Progress(p) BY DEF Schema
  <2>1. \A q \in Procs : Midway(q)' => Midway(q) BY DEF Midway
  <2>2. \A k \in 2..8 : At(p, k)' => db'.tables BY <2>0 DEF Progress
  <2>3. Midway(p)' => db'.indexes /\ "sti" \notin db'.meta /\ \A q \in Procs \ {p} : ~Midway(q)'
    BY <2>0, <2>1 DEF Progress
  <2>4. \A k \in 3..8 : At(p, k)' => Halfway(p, k)' BY <2>0 DEF Progress, Halfway
  <2>5. \A k \in 9..11 : At(p, k)' => "sti" \in db'.meta BY <2>0 DEF Progress
  <2>6. At(p, 10)' => db'.later BY <2>0 DEF Progress
  <2>7. At(p, 11)' \/ stage'[p] \in Migrated => "later" \in db'.meta BY <2>0 DEF Progress
  <2> QED BY <2>2, <2>3, <2>4, <2>5, <2>6, <2>7 DEF Progress
<1> QED BY <1>1, <1>2 DEF Schema

LEMMA AcquireSchema == ASSUME Shaped, Schema, NEW p \in Procs, AcquireLock(p) PROVE Schema'
<1> DEFINE n == Len(PendingFiles)
<1>1. /\ db' = db /\ mem' = mem
      /\ stage' = [stage EXCEPT ![p] = "migrating"] /\ todo' = [todo EXCEPT ![p] = PendingFiles]
  BY DEF AcquireLock, Enter
<1>2. /\ stage \in [Procs -> Stages] /\ todo \in [Procs -> Seq(Statements)] BY DEF Shaped
<1>3. \/ "sti" \notin db.meta /\ n = 10
      \/ "sti" \in db.meta /\ "later" \notin db.meta /\ n = 2
      \/ "sti" \in db.meta /\ "later" \in db.meta /\ n = 0
  BY ScriptLeft DEF Schema
<1>4. todo'[p] = PendingFiles /\ stage'[p] = "migrating" BY <1>1, <1>2
<1>5. \A q \in Procs \ {p} : \A k \in 1..11 : At(q, k)' <=> At(q, k) BY <1>1, <1>2 DEF At
<1>6. \A k \in 1..11 : At(p, k)' <=> n = 11 - k BY <1>4 DEF At
<1> HIDE DEF n
<1>7. \A k \in 1..11 : At(p, k)' => \/ k = 1
                                    \/ k = 9 /\ "sti" \in db.meta
                                    \/ k = 11 /\ "sti" \in db.meta /\ "later" \in db.meta
  BY <1>3, <1>6
<1>8. Recorded' BY <1>1 DEF Schema, Recorded
<1>9. ASSUME NEW q \in Procs PROVE Progress(q)'
  <2>1. \A r \in Procs : Midway(r)' => Midway(r) BY <1>5, <1>7 DEF Midway
  <2>2. CASE q = p
    <3>1. ~Midway(q)' /\ \A k \in 2..8 : ~At(q, k)' BY <1>7, <2>2 DEF Midway
    <3>2. stage'[q] \notin Migrated BY <1>4, <2>2 DEF Migrated
    <3> QED BY <1>1, <1>7, <2>2, <3>1, <3>2 DEF Progress
  <2>3. CASE q # p
    <3>1. stage'[q] = stage[q] BY <1>1, <1>2, <2>3
    <3>2. Progress(q) BY DEF Schema
    <3>3. Midway(q)' => db'.indexes /\ "sti" \notin db'.meta /\ \A r \in Procs \ {q} : ~Midway(r)'
      <4>1. Midway(q) => db.indexes /\ "sti" \notin db.meta /\ \A r \in Procs \ {q} : ~Midway(r)
        BY <3>2 DEF Progress
      <4> QED BY <1>1, <2>1, <4>1, SMTT(20)
    <3>4. \A k \in 3..8 : At(q, k)' => Halfway(q, k)'
      BY <1>1, <1>5, <2>3, <3>2, SMTT(20) DEF Progress, Halfway
    <3> QED BY <1>1, <1>5, <2>3, <3>1, <3>2, <3>3, <3>4, SMTT(20) DEF Progress
  <2> QED BY <2>2, <2>3
<1> QED BY <1>8, <1>9 DEF Schema

-----------------------------------------------------------------------------
(* A statement *)

\* What a statement that succeeds does, the k-th of the script.
Taken(p, k) ==
  /\ At(p, k) /\ ~Fails(p, Script[k])
  /\ db' = After(p, Script[k])
  /\ stage' = stage
  /\ \A j \in 1..11 : At(p, j)' <=> j = k + 1
  /\ \A q \in Procs \ {p} : mem'[q] = mem[q] /\ \A j \in 1..11 : At(q, j)' <=> At(q, j)
  /\ mem'[p] = IF k # 3 THEN mem[p]
               ELSE [x \in Services |->
                      IF db.columns THEN db.type[x]
                      ELSE IF db.type[x] = "http" THEN "blank http"
                      ELSE IF db.type[x] = "tcp" THEN "blank tcp" ELSE "-"]

LEMMA StatementIs ==
  ASSUME Shaped, Remaining, NEW p \in Procs, Statement(p)
  PROVE  \/ db' = db /\ mem' = mem /\ stage' = [stage EXCEPT ![p] = "failing"]
            /\ todo' = [todo EXCEPT ![p] = <<>>]
         \/ \E k \in 1..10 : Taken(p, k)
<1> DEFINE s == Head(todo[p])
           n == Len(todo[p])
<1>1. stage[p] = "migrating" /\ todo[p] # <<>> BY DEF Statement
<1>2. n \in 1..10 /\ s = Script[11 - n] /\ Len(Tail(todo[p])) = n - 1 BY <1>1, Heads
<1>3. CASE Fails(p, s) BY <1>3 DEF Statement, Enter
<1>4. CASE ~Fails(p, s)
  <2>1. /\ db' = After(p, s) /\ stage' = stage /\ todo' = [todo EXCEPT ![p] = Tail(@)]
        /\ mem' = [mem EXCEPT ![p] = IF s # "read" THEN @
                 ELSE [x \in Services |->
                        IF db.columns THEN db.type[x]
                        ELSE IF db.type[x] = "http" THEN "blank http"
                        ELSE IF db.type[x] = "tcp" THEN "blank tcp" ELSE "-"]]
    BY <1>4 DEF Statement
  <2>2. /\ mem \in [Procs -> [Services -> ServiceKinds]] /\ todo \in [Procs -> Seq(Statements)]
    BY DEF Shaped
  <2>3. Len(todo'[p]) = n - 1 BY <1>2, <2>1, <2>2
  <2>4. \A q \in Procs \ {p} : mem'[q] = mem[q] /\ \A j \in 1..11 : At(q, j)' <=> At(q, j)
    BY <2>1, <2>2 DEF At
  <2>5. \A j \in 1..11 : (At(p, j)' <=> n - 1 = 11 - j) /\ (At(p, j) <=> n = 11 - j)
    BY <1>1, <2>1, <2>3 DEF At
  <2>6. mem'[p] = IF s # "read" THEN mem[p]
                  ELSE [x \in Services |->
                         IF db.columns THEN db.type[x]
                         ELSE IF db.type[x] = "http" THEN "blank http"
                         ELSE IF db.type[x] = "tcp" THEN "blank tcp" ELSE "-"]
    BY <2>1, <2>2
  <2> HIDE DEF n, s
  <2>7. PICK k \in 1..10 : k = 11 - n BY <1>2
  <2>8. At(p, k) /\ \A j \in 1..11 : At(p, j)' <=> j = k + 1 BY <1>2, <2>5, <2>7
  <2>9. s = Script[k] /\ (s = "read" <=> k = 3)
    <3>1. s = Script[k] BY <1>2, <2>7
    <3>2. k \in {1, 2, 3, 4, 5, 6, 7, 8, 9, 10} OBVIOUS
    <3> QED BY <3>1, <3>2, ScriptIs
  <2>10. Taken(p, k) BY <1>4, <2>1, <2>4, <2>6, <2>8, <2>9 DEF Taken
  <2> QED BY <2>10
<1> QED BY <1>3, <1>4

\* The schema after each of them.
LEMMA SchemaAfter ==
  ASSUME Shaped, Schema, NEW p \in Procs, NEW k \in 1..10, Taken(p, k)
  PROVE  /\ k = 1 => db' = [db EXCEPT !.tables = TRUE]
         /\ k = 2 => ~db.indexes /\ db' = [db EXCEPT !.indexes = TRUE]
         /\ k = 3 => db' = db /\ mem'[p] = OldTypes
         /\ k = 4 => db' = [db EXCEPT !.columns = FALSE]
         /\ k = 5 => db' = [db EXCEPT !.type = NewTypes]
         /\ k = 6 => db' = [db EXCEPT !.http = Https]
         /\ k = 7 => db' = [db EXCEPT !.transport = Layer4]
         /\ k = 8 => db' = [db EXCEPT !.meta = @ \cup {"sti"}]
         /\ k = 9 => db' = [db EXCEPT !.later = TRUE]
         /\ k = 10 => db' = [db EXCEPT !.meta = @ \cup {"later"}]
<1>0. db' = After(p, Script[k]) /\ db \in Schemas BY DEF Taken, Shaped
<1>11. \A j \in 3..8 : At(p, j) => Halfway(p, j) BY DEF Schema, Progress
<1>1. CASE k = 1 BY <1>0, <1>1, ScriptIs DEF After
<1>2. CASE k = 2
  <2>1. Script[k] = "indexes" BY <1>2, ScriptIs
  <2> QED BY <1>0, <1>2, <2>1 DEF After, Taken, Fails
<1>3. CASE k = 3
  <2>1. Script[k] = "read" BY <1>3, ScriptIs
  <2>2. At(p, 3) BY <1>3 DEF Taken
  <2>3. Halfway(p, 3) BY <2>2, <1>11
  <2>4. db.columns BY <2>3 DEF Halfway
  <2>5. db.type = OldTypes BY <2>3 DEF Halfway
  <2>6. mem'[p] = [x \in Services |-> db.type[x]] BY <1>3, <2>4 DEF Taken
  <2>7. mem'[p] = OldTypes BY <2>5, <2>6 DEF OldTypes
  <2> QED BY <1>0, <1>3, <2>1, <2>7 DEF After
<1>4. CASE k = 4
  <2>1. Script[k] = "drop" BY <1>4, ScriptIs
  <2> QED BY <1>0, <1>4, <2>1 DEF After
<1>5. CASE k = 5
  <2>1. Script[k] = "retype" BY <1>5, ScriptIs
  <2>2. db.type = OldTypes BY <1>5, <1>11 DEF Taken, Halfway
  <2>3. [x \in Services |-> IF db.type[x] = "tcp" THEN "transport" ELSE db.type[x]] = NewTypes
    BY <2>2 DEF OldTypes, NewTypes
  <2>4. db' = [db EXCEPT !.type = [x \in Services |-> IF db.type[x] = "tcp" THEN "transport" ELSE db.type[x]]]
    BY <1>0, <2>1 DEF After
  <2> QED BY <1>5, <2>3, <2>4
<1>6. CASE k = 6
  <2>1. Script[k] = "insert http" BY <1>6, ScriptIs
  <2>2. db.http = {} /\ mem[p] = OldTypes BY <1>6, <1>11 DEF Taken, Halfway
  <2>3. {x \in Services : mem[p][x] = "http"} = Https BY <2>2 DEF OldTypes, Services
  <2>4. db' = [db EXCEPT !.http = db.http \cup {x \in Services : mem[p][x] = "http"}]
    BY <1>0, <2>1 DEF After
  <2>5. db.http \cup {x \in Services : mem[p][x] = "http"} = Https BY <2>2, <2>3
  <2> QED BY <1>6, <2>4, <2>5
<1>7. CASE k = 7
  <2>1. Script[k] = "insert transport" BY <1>7, ScriptIs
  <2>2. db.transport = {} /\ mem[p] = OldTypes BY <1>7, <1>11 DEF Taken, Halfway
  <2>3. {x \in Services : mem[p][x] = "tcp"} = Layer4 BY <2>2, RowsDiffer DEF OldTypes, Services
  <2>4. db' = [db EXCEPT !.transport = db.transport \cup {x \in Services : mem[p][x] = "tcp"}]
    BY <1>0, <2>1 DEF After
  <2>5. db.transport \cup {x \in Services : mem[p][x] = "tcp"} = Layer4 BY <2>2, <2>3
  <2> QED BY <1>7, <2>4, <2>5
<1>8. CASE k = 8
  <2>1. Script[k] = "sti" BY <1>8, ScriptIs
  <2> QED BY <1>0, <1>8, <2>1 DEF After
<1>9. CASE k = 9 BY <1>0, <1>9, ScriptIs DEF After
<1>10. CASE k = 10
  <2>1. Script[k] = "later" BY <1>10, ScriptIs
  <2> QED BY <1>0, <1>10, <2>1 DEF After
<1>12. k \in {1, 2, 3, 4, 5, 6, 7, 8, 9, 10} OBVIOUS
<1> QED BY <1>1, <1>2, <1>3, <1>4, <1>5, <1>6, <1>7, <1>8, <1>9, <1>10, <1>12

LEMMA StatementRecorded ==
  ASSUME Shaped, Schema, NEW p \in Procs, NEW k \in 1..10, Taken(p, k)
  PROVE  Recorded'
<1>0. db \in Schemas /\ Recorded /\ At(p, k) BY DEF Shaped, Schema, Taken
<1>11. Progress(p) BY DEF Schema
<1>12. k \in 3..8 => Midway(p) /\ Halfway(p, k) BY <1>0, <1>11 DEF Progress, Midway
<1>13. k \in 3..8 => db.indexes /\ "sti" \notin db.meta BY <1>11, <1>12 DEF Progress
<1> USE DEF Schemas, Recorded
<1>1. CASE k = 1 BY <1>0, <1>1, SchemaAfter
<1>2. CASE k = 2 BY <1>0, <1>2, SchemaAfter
<1>3. CASE k = 3 BY <1>0, <1>3, SchemaAfter
<1>4. CASE k = 4
  <2>1. db' = [db EXCEPT !.columns = FALSE] BY <1>4, SchemaAfter
  <2> QED BY <1>0, <1>4, <1>13, <2>1
<1>5. CASE k = 5
  <2>1. db' = [db EXCEPT !.type = NewTypes] BY <1>5, SchemaAfter
  <2> QED BY <1>0, <1>5, <1>13, <2>1
<1>6. CASE k = 6
  <2>1. db' = [db EXCEPT !.http = Https] BY <1>6, SchemaAfter
  <2> QED BY <1>0, <1>6, <1>13, <2>1
<1>7. CASE k = 7
  <2>1. db' = [db EXCEPT !.transport = Layer4] BY <1>7, SchemaAfter
  <2> QED BY <1>0, <1>7, <1>13, <2>1
<1>8. CASE k = 8
  <2>1. db' = [db EXCEPT !.meta = @ \cup {"sti"}] BY <1>8, SchemaAfter
  <2>2. Halfway(p, 8) BY <1>8, <1>12
  <2>3. ~db.columns BY <2>2 DEF Halfway
  <2>4. db.type = NewTypes /\ db.http = Https /\ db.transport = Layer4 BY <2>2 DEF Halfway
  <2>5. db.tables /\ db.indexes BY <1>0, <1>8, <1>11, <1>13 DEF Progress
  <2> QED BY <1>0, <2>1, <2>3, <2>4, <2>5
<1>9. CASE k = 9
  <2>1. db' = [db EXCEPT !.later = TRUE] BY <1>9, SchemaAfter
  <2>2. "sti" \in db.meta BY <1>0, <1>9, <1>11 DEF Progress
  <2> QED BY <1>0, <2>1, <2>2
<1>10. CASE k = 10
  <2>1. db' = [db EXCEPT !.meta = @ \cup {"later"}] BY <1>10, SchemaAfter
  <2>2. db.later BY <1>0, <1>10, <1>11 DEF Progress
  <2> QED BY <1>0, <2>1, <2>2
<1>14. k \in {1, 2, 3, 4, 5, 6, 7, 8, 9, 10} OBVIOUS
<1> QED BY <1>1, <1>2, <1>3, <1>4, <1>5, <1>6, <1>7, <1>8, <1>9, <1>10, <1>14

\* The schema only moves forward, and its halfway states only for the one that makes them.
LEMMA SchemaGrows ==
  ASSUME Shaped, Schema, NEW p \in Procs, NEW k \in 1..10, Taken(p, k)
  PROVE  /\ db.tables => db'.tables
         /\ db.indexes => db'.indexes
         /\ db.later => db'.later
         /\ db.meta \subseteq db'.meta
         /\ k # 8 => ("sti" \in db'.meta => "sti" \in db.meta)
         /\ k \notin 3..7 => /\ db'.columns <=> db.columns
                             /\ db'.type = db.type /\ db'.http = db.http
                             /\ db'.transport = db.transport
<1>0. db \in Schemas BY DEF Shaped
<1> USE DEF Schemas
<1>1. CASE k = 1 BY <1>0, <1>1, SchemaAfter
<1>2. CASE k = 2 BY <1>0, <1>2, SchemaAfter
<1>3. CASE k = 3 BY <1>0, <1>3, SchemaAfter
<1>4. CASE k = 4 BY <1>0, <1>4, SchemaAfter
<1>5. CASE k = 5 BY <1>0, <1>5, SchemaAfter
<1>6. CASE k = 6 BY <1>0, <1>6, SchemaAfter
<1>7. CASE k = 7 BY <1>0, <1>7, SchemaAfter
<1>8. CASE k = 8 BY <1>0, <1>8, SchemaAfter
<1>9. CASE k = 9 BY <1>0, <1>9, SchemaAfter
<1>10. CASE k = 10 BY <1>0, <1>10, SchemaAfter
<1>14. k \in {1, 2, 3, 4, 5, 6, 7, 8, 9, 10} OBVIOUS
<1> QED BY <1>1, <1>2, <1>3, <1>4, <1>5, <1>6, <1>7, <1>8, <1>9, <1>10, <1>14

LEMMA OthersStay ==
  ASSUME NEW p \in Procs, NEW k \in 1..10, Taken(p, k), NEW q \in Procs \ {p}
  PROVE  Midway(q)' <=> Midway(q)
<1>0. \A j \in 1..11 : At(q, j)' <=> At(q, j) BY DEF Taken
<1>1. \A j \in 3..8 : (At(q, j)' => At(q, j)) /\ (At(q, j) => At(q, j)') BY <1>0
<1>2. ASSUME Midway(q)' PROVE Midway(q)
  <2>1. PICK j \in 3..8 : At(q, j)' BY <1>2 DEF Midway
  <2> QED BY <1>1, <2>1 DEF Midway
<1>3. ASSUME Midway(q) PROVE Midway(q)'
  <2>1. PICK j \in 3..8 : At(q, j) BY <1>3 DEF Midway
  <2> QED BY <1>1, <2>1 DEF Midway
<1>4. Midway(q) \in BOOLEAN /\ Midway(q)' \in BOOLEAN BY DEF Midway
<1> QED BY <1>2, <1>3, <1>4

LEMMA OwnMidway ==
  ASSUME Shaped, Schema, NEW p \in Procs, NEW k \in 1..10, Taken(p, k), k \in 2..7
  PROVE  db'.indexes /\ "sti" \notin db'.meta /\ \A q \in Procs \ {p} : ~Midway(q)'
<1>1. \A q \in Procs \ {p} : Midway(q)' <=> Midway(q) BY OthersStay
<1>2. \A q \in Procs : Progress(q) BY DEF Schema
<1>3. "sti" \in db'.meta => "sti" \in db.meta
  <2>1. k # 8 OBVIOUS
  <2> QED BY <2>1, SchemaGrows
<1>4. CASE k = 2
  <2>1. ~db.indexes /\ db' = [db EXCEPT !.indexes = TRUE] BY <1>4, SchemaAfter
  <2>2. db'.indexes BY <2>1 DEF Shaped, Schemas
  <2>3. "sti" \notin db.meta BY <2>1 DEF Schema, Recorded
  <2>4. \A q \in Procs : ~Midway(q) BY <1>2, <2>1 DEF Progress
  <2>5. \A q \in Procs \ {p} : ~Midway(q)' BY <1>1, <2>4
  <2>6. "sti" \notin db'.meta BY <1>3, <1>4, <2>3
  <2> QED BY <2>2, <2>5, <2>6
<1>5. CASE k \in 3..7
  <2>1. At(p, k) BY DEF Taken
  <2>2. k \in 3..8 BY <1>5
  <2>3. Midway(p) BY <2>1, <2>2 DEF Midway
  <2>4. db.indexes /\ "sti" \notin db.meta /\ \A q \in Procs \ {p} : ~Midway(q)
    BY <1>2, <2>3 DEF Progress
  <2> QED BY <1>1, <1>3, <2>4, SchemaGrows
<1> QED BY <1>4, <1>5

LEMMA OwnHalfway ==
  ASSUME Shaped, Schema, NEW p \in Procs, NEW k \in 1..10, Taken(p, k), k \in 2..7
  PROVE  Halfway(p, k + 1)'
<1>1. Progress(p) /\ At(p, k) /\ db \in Schemas BY DEF Schema, Taken, Shaped
<1>2. k # 3 => mem'[p] = mem[p] BY DEF Taken
<1>3. k \in 3..7 => Halfway(p, k) BY <1>1 DEF Progress
<1> USE DEF Schemas
<1>4. CASE k = 2
  <2>1. ~db.indexes /\ db' = [db EXCEPT !.indexes = TRUE] BY <1>4, SchemaAfter
  <2>2. db.columns /\ db.type = OldTypes /\ db.http = {} /\ db.transport = {}
    BY <2>1 DEF Schema, Recorded
  <2>3. Halfway(p, 3)' BY <1>1, <2>1, <2>2 DEF Halfway
  <2> QED BY <1>4, <2>3
<1>5. CASE k = 3
  <2>1. db' = db /\ mem'[p] = OldTypes BY <1>5, SchemaAfter
  <2>2. Halfway(p, 3) BY <1>3, <1>5
  <2>3. Halfway(p, 4)' BY <2>1, <2>2 DEF Halfway
  <2> QED BY <1>5, <2>3
<1>6. CASE k = 4
  <2>1. db' = [db EXCEPT !.columns = FALSE] BY <1>6, SchemaAfter
  <2>2. Halfway(p, 4) BY <1>3, <1>6
  <2>3. Halfway(p, 5)' BY <1>1, <1>2, <1>6, <2>1, <2>2 DEF Halfway
  <2> QED BY <1>6, <2>3
<1>7. CASE k = 5
  <2>1. db' = [db EXCEPT !.type = NewTypes] BY <1>7, SchemaAfter
  <2>2. Halfway(p, 5) BY <1>3, <1>7
  <2>3. Halfway(p, 6)' BY <1>1, <1>2, <1>7, <2>1, <2>2 DEF Halfway
  <2> QED BY <1>7, <2>3
<1>8. CASE k = 6
  <2>1. db' = [db EXCEPT !.http = Https] BY <1>8, SchemaAfter
  <2>2. Halfway(p, 6) BY <1>3, <1>8
  <2>3. Halfway(p, 7)' BY <1>1, <1>2, <1>8, <2>1, <2>2 DEF Halfway
  <2> QED BY <1>8, <2>3
<1>9. CASE k = 7
  <2>1. db' = [db EXCEPT !.transport = Layer4] BY <1>9, SchemaAfter
  <2>2. Halfway(p, 7) BY <1>3, <1>9
  <2>3. Halfway(p, 8)' BY <1>1, <1>2, <1>9, <2>1, <2>2 DEF Halfway
  <2> QED BY <1>9, <2>3
<1> QED BY <1>4, <1>5, <1>6, <1>7, <1>8, <1>9

LEMMA OwnProgress ==
  ASSUME Shaped, Schema, NEW p \in Procs, NEW k \in 1..10, Taken(p, k)
  PROVE  Progress(p)'
<1>1. Progress(p) /\ At(p, k) /\ db \in Schemas BY DEF Schema, Taken, Shaped
<1>2. \A j \in 1..11 : At(p, j)' <=> j = k + 1 BY DEF Taken
<1>3. stage'[p] = "migrating" BY <1>1 DEF Taken, At
<1>4. ASSUME k + 1 \in 2..8 PROVE db'.tables
  <2>1. CASE k = 1
    <3>1. db' = [db EXCEPT !.tables = TRUE] BY <2>1, SchemaAfter
    <3> QED BY <1>1, <3>1 DEF Schemas
  <2>2. CASE k # 1
    <3>1. db.tables BY <1>1, <1>4, <2>2 DEF Progress
    <3> QED BY <3>1, SchemaGrows
  <2> QED BY <2>1, <2>2
<1>5. Midway(p)' <=> k \in 2..7 BY <1>2 DEF Midway
<1>6. ASSUME k + 1 \in 9..11 PROVE "sti" \in db'.meta
  <2>1. CASE k = 8
    <3>1. db' = [db EXCEPT !.meta = @ \cup {"sti"}] BY <2>1, SchemaAfter
    <3> QED BY <1>1, <3>1 DEF Schemas
  <2>2. CASE k # 8
    <3>1. "sti" \in db.meta BY <1>1, <1>6, <2>2 DEF Progress
    <3> QED BY <3>1, SchemaGrows
  <2> QED BY <2>1, <2>2
<1>7. ASSUME k = 9 PROVE db'.later
  <2>1. db' = [db EXCEPT !.later = TRUE] BY <1>7, SchemaAfter
  <2> QED BY <1>1, <2>1 DEF Schemas
<1>8. ASSUME k = 10 PROVE "later" \in db'.meta
  <2>1. db' = [db EXCEPT !.meta = @ \cup {"later"}] BY <1>8, SchemaAfter
  <2> QED BY <1>1, <2>1 DEF Schemas
<1>9. \A j \in 2..8 : At(p, j)' => db'.tables BY <1>2, <1>4
<1>10. Midway(p)' => db'.indexes /\ "sti" \notin db'.meta /\ \A q \in Procs \ {p} : ~Midway(q)'
  BY <1>5, OwnMidway
<1>11. \A j \in 3..8 : At(p, j)' => Halfway(p, j)' BY <1>2, OwnHalfway
<1>12. \A j \in 9..11 : At(p, j)' => "sti" \in db'.meta BY <1>2, <1>6
<1>13. At(p, 10)' => db'.later BY <1>2, <1>7
<1>14. At(p, 11)' => "later" \in db'.meta BY <1>2, <1>8
<1>15. stage'[p] \notin Migrated BY <1>3 DEF Migrated
<1> QED BY <1>9, <1>10, <1>11, <1>12, <1>13, <1>14, <1>15 DEF Progress

LEMMA OthersProgress ==
  ASSUME Shaped, Schema, NEW p \in Procs, NEW k \in 1..10, Taken(p, k), NEW q \in Procs \ {p}
  PROVE  Progress(q)'
<1>1. Progress(q) /\ Progress(p) /\ At(p, k) BY DEF Schema, Taken
<1>2. mem'[q] = mem[q] /\ stage' = stage /\ \A j \in 1..11 : At(q, j)' <=> At(q, j) BY DEF Taken
<1>3. /\ \A r \in Procs \ {p} : Midway(r)' <=> Midway(r)
      /\ Midway(p)' => k \in 2..7
  <2>1. \A j \in 1..11 : At(p, j)' <=> j = k + 1 BY DEF Taken
  <2>2. \A j \in 3..8 : At(p, j)' => j = k + 1 BY <2>1
  <2>3. Midway(p)' => k \in 2..7 BY <2>2 DEF Midway
  <2> QED BY <2>3, OthersStay
<1>4. Midway(p) <=> k \in 3..8
  <2>1. k \in 3..8 => Midway(p) BY <1>1 DEF Midway
  <2>2. ASSUME Midway(p) PROVE k \in 3..8
    <3>1. PICK j \in 3..8 : At(p, j) BY <2>2 DEF Midway
    <3>2. 11 - k = 11 - j BY <1>1, <3>1 DEF At
    <3> QED BY <3>1, <3>2
  <2> QED BY <2>1, <2>2
<1>5. ASSUME Midway(q)
      PROVE  db'.indexes /\ "sti" \notin db'.meta /\ \A r \in Procs \ {q} : ~Midway(r)'
  <2>1. db.indexes /\ "sti" \notin db.meta /\ \A r \in Procs \ {q} : ~Midway(r) BY <1>1, <1>5 DEF Progress
  <2>2. k # 8 BY <1>4, <2>1
  <2>3. ~Midway(p)' BY <1>3, <1>5, OwnMidway
  <2> QED BY <1>3, <2>1, <2>2, <2>3, SchemaGrows
<1>6. ASSUME NEW j \in 3..8, At(q, j) PROVE Halfway(q, j)'
  <2>1. Halfway(q, j) /\ Midway(q) BY <1>1, <1>6 DEF Progress, Midway
  <2>2. ~Midway(p) BY <1>1, <2>1 DEF Progress
  <2>3. /\ db'.columns <=> db.columns
        /\ db'.type = db.type /\ db'.http = db.http /\ db'.transport = db.transport
    BY <1>4, <2>2, SchemaGrows
  <2> QED BY <1>2, <2>1, <2>3 DEF Halfway
<1>7. \A j \in 2..8 : At(q, j)' => db'.tables BY <1>1, <1>2, SchemaGrows DEF Progress
<1>8. \A j \in 9..11 : At(q, j)' => "sti" \in db'.meta BY <1>1, <1>2, SchemaGrows DEF Progress
<1>9. At(q, 10)' => db'.later BY <1>1, <1>2, SchemaGrows DEF Progress
<1>10. At(q, 11)' \/ stage'[q] \in Migrated => "later" \in db'.meta BY <1>1, <1>2, SchemaGrows DEF Progress
<1>11. Midway(q)' => db'.indexes /\ "sti" \notin db'.meta /\ \A r \in Procs \ {q} : ~Midway(r)'
  BY <1>3, <1>5
<1>12. \A j \in 3..8 : At(q, j)' => Halfway(q, j)' BY <1>2, <1>6
<1> QED BY <1>7, <1>8, <1>9, <1>10, <1>11, <1>12 DEF Progress

LEMMA SchemaStep == ASSUME Shaped, Remaining, Schema, [StartNext]_startVars PROVE Schema'
<1> USE DEF Shaped
<1>1. ASSUME NEW p \in Procs, Boot(p) PROVE Schema'
  <2>1. db' = db /\ mem' = mem /\ todo' = todo /\ stage' = [stage EXCEPT ![p] = "locking"]
    BY <1>1 DEF Boot, Enter
  <2> QED BY <2>1, Elsewhere DEF At, Migrated
<1>2. ASSUME NEW p \in Procs, AcquireLock(p) PROVE Schema' BY <1>2, AcquireSchema
<1>3. ASSUME NEW p \in Procs, Statement(p) PROVE Schema'
  <2>1. CASE /\ db' = db /\ mem' = mem /\ stage' = [stage EXCEPT ![p] = "failing"]
             /\ todo' = [todo EXCEPT ![p] = <<>>]
    <3>1. \A q \in Procs : \A k \in 1..11 : At(q, k)' => At(q, k) /\ mem'[q] = mem[q]
      BY <2>1 DEF At
    <3>2. \A q \in Procs : stage'[q] \in Migrated => stage[q] \in Migrated
      BY <2>1 DEF Migrated
    <3> QED BY <2>1, <3>1, <3>2, Elsewhere
  <2>2. ASSUME NEW k \in 1..10, Taken(p, k) PROVE Schema'
    BY <2>2, StatementRecorded, OwnProgress, OthersProgress DEF Schema
  <2> QED BY <1>3, <2>1, <2>2, StatementIs
<1>4. ASSUME NEW p \in Procs, ReleaseLock(p) PROVE Schema'
  <2>1. /\ db' = db /\ todo' = todo /\ mem' = [mem EXCEPT ![p] = Unread]
        /\ \A q \in Procs \ {p} : stage'[q] = stage[q]
        /\ stage'[p] # "migrating"
        /\ stage'[p] \in Migrated => stage[p] = "migrating" /\ todo[p] = <<>>
    BY <1>4 DEF ReleaseLock, Enter, Migrated
  <2>2. \A q \in Procs : \A k \in 1..11 : At(q, k)' => At(q, k) /\ mem'[q] = mem[q]
    BY <2>1 DEF At
  <2>3. \A q \in Procs : stage'[q] \in Migrated => stage[q] \in Migrated \/ At(q, 11)
    <3>1. Len(<<>>) = 11 - 11 OBVIOUS
    <3>2. stage'[p] \in Migrated => At(p, 11) BY <2>1, <3>1 DEF At
    <3> QED BY <2>1, <3>2
  <2> QED BY <2>1, <2>2, <2>3, Elsewhere
<1>5. ASSUME NEW p \in Procs, Dies(p) PROVE Schema'
  <2>1. /\ db' = db /\ todo' = [todo EXCEPT ![p] = <<>>] /\ mem' = [mem EXCEPT ![p] = Unread]
        /\ stage' = [stage EXCEPT ![p] = "off"]
    BY <1>5 DEF Dies
  <2>2. \A q \in Procs : \A k \in 1..11 : At(q, k)' => At(q, k) /\ mem'[q] = mem[q]
    BY <2>1 DEF At
  <2>3. \A q \in Procs : stage'[q] \in Migrated => stage[q] \in Migrated BY <2>1 DEF Migrated
  <2> QED BY <2>1, <2>2, <2>3, Elsewhere
<1>6. ASSUME NEW p \in Procs, LosesLock(p) PROVE Schema'
  <2>1. db' = db /\ mem' = mem /\ todo' = todo /\ stage' = stage BY <1>6 DEF LosesLock
  <2> QED BY <2>1, Elsewhere DEF At
<1>7. ASSUME NEW p \in Webs, ReadSecrets(p) \/ MakeSecret(p) PROVE Schema'
  <2>1. /\ db' = db /\ mem' = mem /\ todo' = todo
        /\ \A q \in Procs \ {p} : stage'[q] = stage[q]
        /\ stage[p] \in Migrated /\ stage'[p] # "migrating"
    BY <1>7 DEF ReadSecrets, MakeSecret, Enter, Migrated, Procs
  <2>2. \A q \in Procs : \A k \in 1..11 : At(q, k)' => At(q, k) /\ mem'[q] = mem[q]
    BY <2>1 DEF At
  <2>3. \A q \in Procs : stage'[q] \in Migrated => stage[q] \in Migrated BY <2>1
  <2> QED BY <2>1, <2>2, <2>3, Elsewhere
<1>8. CASE UNCHANGED startVars
  <2>1. db' = db /\ mem' = mem /\ todo' = todo /\ stage' = stage BY <1>8 DEF startVars
  <2> QED BY <2>1, Elsewhere DEF At
<1> QED BY <1>1, <1>2, <1>3, <1>4, <1>5, <1>6, <1>7, <1>8 DEF StartNext

-----------------------------------------------------------------------------
(* The secrets *)

LEMMA SessionsStep ==
  ASSUME Shaped, SecretsNumbered, Sessions, [StartNext]_startVars
  PROVE  SecretsNumbered' /\ Sessions'
<1> USE DEF Shaped
<1>1. ASSUME UNCHANGED <<secrets, accepts, signs, before>>,
             \A w \in Webs : stage'[w] \in {"up", "making"} => stage'[w] = stage[w]
      PROVE  SecretsNumbered' /\ Sessions'
  BY <1>1 DEF SecretsNumbered, Sessions
<1>2. ASSUME NEW p \in Procs, Boot(p) PROVE SecretsNumbered' /\ Sessions'
  BY <1>1, <1>2 DEF Boot, Enter, Procs
<1>3. ASSUME NEW p \in Procs, AcquireLock(p) PROVE SecretsNumbered' /\ Sessions'
  BY <1>1, <1>3 DEF AcquireLock, Enter, Procs
<1>4. ASSUME NEW p \in Procs, Statement(p) PROVE SecretsNumbered' /\ Sessions'
  BY <1>1, <1>4 DEF Statement, Enter, Procs
<1>5. ASSUME NEW p \in Procs, ReleaseLock(p) PROVE SecretsNumbered' /\ Sessions'
  <2>1. UNCHANGED <<secrets, accepts, signs, before>> BY <1>5 DEF ReleaseLock
  <2>2. ASSUME NEW w \in Webs, stage'[w] \in {"up", "making"} PROVE stage'[w] = stage[w]
    BY <1>5, <2>2 DEF ReleaseLock, Enter, Procs
  <2> QED BY <1>1, <2>1, <2>2
<1>6. ASSUME NEW p \in Procs, Dies(p) PROVE SecretsNumbered' /\ Sessions'
  <2>1. secrets' = secrets /\ stage' = [stage EXCEPT ![p] = "off"] BY <1>6 DEF Dies
  <2>2. \A w \in Webs \ {p} : accepts'[w] = accepts[w] /\ signs'[w] = signs[w] /\ before'[w] = before[w]
    BY <1>6 DEF Dies
  <2>3. p \in Webs => accepts'[p] = {} BY <1>6 DEF Dies
  <2> QED BY <2>1, <2>2, <2>3 DEF SecretsNumbered, Sessions, Procs
<1>7. ASSUME NEW p \in Procs, LosesLock(p) PROVE SecretsNumbered' /\ Sessions' BY <1>1, <1>7 DEF LosesLock
<1>8. ASSUME NEW p \in Webs, ReadSecrets(p) PROVE SecretsNumbered' /\ Sessions'
  <2>1. /\ secrets' = secrets
        /\ stage' = [stage EXCEPT ![p] = IF secrets = {} THEN "making" ELSE "up"]
        /\ accepts' = [accepts EXCEPT ![p] = secrets]
        /\ signs' = [signs EXCEPT ![p] = Cardinality(secrets)]
        /\ before' = [before EXCEPT ![p] = {signs[q] : q \in {r \in Webs \ {p} : stage[r] = "up"}}]
    BY <1>8 DEF ReadSecrets, Enter
  <2>2. {signs[q] : q \in {r \in Webs \ {p} : stage[r] = "up"}} \subseteq secrets
    BY DEF Sessions
  <2>3. secrets # {} => Cardinality(secrets) \in secrets
    <3>1. Cardinality(secrets) \in Nat /\ secrets = 1..Cardinality(secrets) BY Counted
    <3> QED BY <3>1
  <2>4. SecretsNumbered' BY <2>1 DEF SecretsNumbered
  <2>5. ASSUME NEW w \in Webs \ {p}
        PROVE  /\ stage'[w] = "up" => signs'[w] \in secrets' /\ before'[w] \subseteq accepts'[w]
               /\ stage'[w] = "making" => before'[w] = {}
               /\ accepts'[w] \subseteq secrets'
    BY <2>1 DEF Sessions, Procs
  <2>6. /\ stage'[p] = IF secrets = {} THEN "making" ELSE "up"
        /\ accepts'[p] = secrets /\ signs'[p] = Cardinality(secrets)
        /\ before'[p] \subseteq secrets
    BY <2>1, <2>2 DEF Procs
  <2>7. /\ stage'[p] = "up" => signs'[p] \in secrets' /\ before'[p] \subseteq accepts'[p]
        /\ stage'[p] = "making" => before'[p] = {}
        /\ accepts'[p] \subseteq secrets'
    <3>1. secrets = {} => before'[p] = {}
      <4>1. \A S : S \subseteq {} => S = {} OBVIOUS
      <4> QED BY <2>6, <4>1
    <3>2. stage'[p] = "making" => secrets = {} BY <2>6
    <3>3. stage'[p] = "up" => secrets # {} BY <2>6
    <3> QED BY <2>1, <2>3, <2>6, <3>1, <3>2, <3>3
  <2> QED BY <2>4, <2>5, <2>7 DEF Sessions
<1>9. ASSUME NEW p \in Webs, MakeSecret(p) PROVE SecretsNumbered' /\ Sessions'
  <2> DEFINE new == Cardinality(secrets) + 1
  <2>1. /\ stage[p] = "making" /\ stage' = [stage EXCEPT ![p] = "up"]
        /\ secrets' = secrets \cup {new} /\ before' = before
        /\ accepts' = [accepts EXCEPT ![p] = {new}]
        /\ signs' = [signs EXCEPT ![p] = new]
    BY <1>9 DEF MakeSecret, Enter
  <2>2. SecretsNumbered'
    <3>1. Cardinality(secrets) \in Nat /\ secrets = 1..Cardinality(secrets) BY Counted
    <3>2. \A n \in Nat : 1..(n + 1) = (1..n) \cup {n + 1} OBVIOUS
    <3>3. secrets' = 1..new BY <2>1, <3>1, <3>2
    <3> QED BY <3>1, <3>3 DEF SecretsNumbered
  <2> HIDE DEF new
  <2>3. ASSUME NEW w \in Webs \ {p}
        PROVE  /\ stage'[w] = "up" => signs'[w] \in secrets' /\ before'[w] \subseteq accepts'[w]
               /\ stage'[w] = "making" => before'[w] = {}
               /\ accepts'[w] \subseteq secrets'
    BY <2>1 DEF Sessions, Procs
  <2>4. /\ signs'[p] \in secrets' /\ before'[p] \subseteq accepts'[p]
        /\ stage'[p] = "up" /\ accepts'[p] \subseteq secrets'
    BY <2>1 DEF Sessions, Procs
  <2> QED BY <2>2, <2>3, <2>4 DEF Sessions
<1>10. CASE UNCHANGED startVars BY <1>1, <1>10 DEF startVars
<1> QED BY <1>2, <1>3, <1>4, <1>5, <1>6, <1>7, <1>8, <1>9, <1>10 DEF StartNext

-----------------------------------------------------------------------------
(* What the runs check *)

LEMMA StartInvStep == StartInv /\ [StartNext]_startVars => StartInv'
<1> SUFFICES ASSUME StartInv, [StartNext]_startVars PROVE StartInv' OBVIOUS
<1>1. Shaped /\ LockHeld /\ Remaining /\ Schema /\ Recorded /\ SecretsNumbered /\ Sessions BY DEF StartInv, Schema
<1>2. Shaped' BY <1>1, ShapedStep
<1>3. LockHeld' BY <1>1, LockHeldStep
<1>4. Remaining' BY <1>1, RemainingStep
<1>5. Schema' BY <1>1, SchemaStep
<1>6. SecretsNumbered' /\ Sessions' BY <1>1, SessionsStep
<1> QED BY <1>2, <1>3, <1>4, <1>5, <1>6 DEF StartInv

\* The type invariant, for any numbers of processes, services and crashes.
THEOREM StartsTyped == StartSpec => []StartTypeOK
<1>1. StartInv => StartTypeOK
  <2> SUFFICES ASSUME StartInv PROVE StartTypeOK OBVIOUS
  <2>1. Shaped /\ Sessions BY DEF StartInv
  <2>2. \A w \in Webs : accepts[w] \subseteq secrets BY <2>1 DEF Sessions
  <2> QED BY <2>1, <2>2 DEF Shaped, Stages, StartTypeOK
<1> QED BY <1>1, StartInvInit, StartInvStep, PTL DEF StartSpec

\* Web servers and job runners that start at the same time, die halfway and start again: only one
\* migrates at a time unless it has lost its lock, whoever is up has found every file recorded and
\* every service moved once, even if two have migrated next to one another, and a web server
\* accepts the sessions of those it found up.
THEOREM StartsAreRight == StartSpec => []StartsRight
<1>1. StartInv => StartsRight
  <2> SUFFICES ASSUME StartInv PROVE StartsRight OBVIOUS
  <2>1. Shaped /\ LockHeld /\ Recorded /\ Sessions /\ \A p \in Procs : Progress(p) BY DEF StartInv, Schema
  <2>2. MigratesAlone BY <2>1 DEF LockHeld, MigratesAlone, Working
  <2>3. UpIsMigrated
    <3>1. SUFFICES ASSUME NEW p \in Procs, stage[p] \in {"secret", "making", "up"}
                   PROVE  /\ db.meta = {"sti", "later"}
                          /\ db.tables /\ db.indexes /\ ~db.columns /\ db.later
                          /\ db.http = Https /\ db.transport = Layer4
                          /\ \A s \in Layer4 : db.type[s] = "transport"
      BY DEF UpIsMigrated
    <3>2. "later" \in db.meta BY <2>1, <3>1 DEF Progress, Migrated
    <3>3. db.later /\ "sti" \in db.meta BY <2>1, <3>2 DEF Recorded
    <3>4. /\ db.tables /\ db.indexes /\ ~db.columns
          /\ db.type = NewTypes /\ db.http = Https /\ db.transport = Layer4
      BY <2>1, <3>3 DEF Recorded
    <3>5. \A s \in Layer4 : db.type[s] = "transport" BY <3>4, RowsDiffer DEF NewTypes, Services
    <3>6. db.meta = {"sti", "later"} BY <2>1, <3>2, <3>3 DEF Shaped, Schemas
    <3> QED BY <3>3, <3>4, <3>5, <3>6
  <2>4. SessionsSurvive BY <2>1 DEF Sessions, SessionsSurvive
  <2> QED BY <2>2, <2>3, <2>4 DEF StartsRight
<1> QED BY <1>1, StartInvInit, StartInvStep, PTL DEF StartSpec

HIDE RowsDiffer
HIDE NobodyStarts

-----------------------------------------------------------------------------
(* Live status *)

\* A set of naturals that is not empty has a least element.
LEMMA LeastNatural ==
  ASSUME NEW S \in SUBSET Nat, S # {}
  PROVE  \E n \in S : \A m \in S : n <= m
<1> DEFINE UpTo == {0..n : n \in S}
<1>1. UpTo # {} /\ UpTo \subseteq FiniteSubsetsOf(Nat)
  <2>1. \A n \in S : IsFiniteSet(0..n) /\ 0..n \subseteq Nat
    BY FS_Interval
  <2> QED BY <2>1 DEF FiniteSubsetsOf
<1>2. PICK U \in UpTo : \A V \in UpTo : <<V, U>> \notin StrictSubsetOrdering(Nat)
  BY <1>1, FS_StrictSubsetOrderingWellFounded, WFMin
<1>3. PICK n \in S : U = 0..n
  BY <1>2
<1>4. ASSUME NEW m \in S, m < n PROVE FALSE
  <2>1. 0..m \in UpTo /\ 0..m \subseteq 0..n /\ n \in 0..n /\ n \notin 0..m
    BY <1>4
  <2>2. <<0..m, U>> \in StrictSubsetOrdering(Nat)
    BY <2>1, <1>3 DEF StrictSubsetOrdering
  <2> QED BY <1>2, <2>1, <2>2
<1> QED BY <1>4

\* A finite set of naturals that is not empty has a greatest element.
LEMMA GreatestNatural ==
  ASSUME NEW S \in SUBSET Nat, IsFiniteSet(S), S # {}
  PROVE  \E n \in S : \A m \in S : m <= n
<1> DEFINE Above == {{m \in S : m >= n} : n \in S}
<1>1. Above # {} /\ Above \subseteq FiniteSubsetsOf(S)
  <2>1. \A n \in S : IsFiniteSet({m \in S : m >= n}) /\ {m \in S : m >= n} \subseteq S
    BY FS_Subset
  <2> QED BY <2>1 DEF FiniteSubsetsOf
<1>2. PICK U \in Above : \A V \in Above : <<V, U>> \notin StrictSubsetOrdering(S)
  BY <1>1, FS_StrictSubsetOrderingWellFounded, WFMin
<1>3. PICK n \in S : U = {m \in S : m >= n}
  BY <1>2
<1>4. ASSUME NEW m \in S, ~(m <= n) PROVE FALSE
  <2> DEFINE V == {k \in S : k >= m}
  <2>1. V \in Above /\ V \subseteq U /\ n \in U /\ n \notin V
    <3>1. m \in Nat /\ n \in Nat /\ m > n /\ n >= n
      BY <1>4
    <3>2. \A k \in S : k \in Nat
      OBVIOUS
    <3>3. \A k \in S : k >= m => k >= n
      BY <3>1, <3>2
    <3>4. V \subseteq U /\ n \in U /\ n \notin V
      <4>1. n \in U
        BY <1>3, <3>1
      <4>2. n \notin V
        BY <3>1
      <4>3. \A k \in V : k \in U
        BY <1>3, <3>3
      <4> QED BY <4>1, <4>2, <4>3
    <3>5. V \in Above
      OBVIOUS
    <3> QED BY <3>4, <3>5
  <2>2. V \in FiniteSubsetsOf(S) /\ U \in FiniteSubsetsOf(S)
    BY <1>1, <2>1
  <2>3. <<V, U>> \in StrictSubsetOrdering(S)
    <3> HIDE DEF V
    <3> QED BY <2>1, <2>2 DEF StrictSubsetOrdering, FiniteSubsetsOf
  <2> QED BY <1>2, <2>1, <2>3
<1> QED BY <1>4

\* The values of a function on a finite set are finitely many, not more than the set.
LEMMA FiniteImage ==
  ASSUME NEW S, NEW f, IsFiniteSet(S)
  PROVE  /\ IsFiniteSet({f[x] : x \in S})
         /\ Cardinality({f[x] : x \in S}) <= Cardinality(S)
<1> DEFINE T == {f[x] : x \in S}
           g == [x \in S |-> f[x]]
<1>1. g \in [S -> T] /\ \A y \in T : \E x \in S : g[x] = y
  OBVIOUS
<1> HIDE DEF T, g
<1>2. g \in Surjection(S, T)
  BY <1>1, Fun_IsSurj
<1>3. IsFiniteSet(T) /\ Cardinality(T) <= Cardinality(S)
  BY <1>2, FS_Surjection
<1> QED BY <1>3 DEF T

-----------------------------------------------------------------------------
(* Ids *)

LEMMA FiniteIds ==
  ASSUME StatusTypeOK, NEW C \in SUBSET Owners
  PROVE  /\ IsFiniteSet(C) /\ Cardinality(C) <= Cardinality(Owners)
         /\ IsFiniteSet({guest[d].id : d \in C})
         /\ Cardinality({guest[d].id : d \in C}) <= Cardinality(C)
         /\ IsFiniteSet({row[d].id : d \in C}) /\ IsFiniteSet({taken[d].id : d \in C})
<1>1. IsFiniteSet(C) /\ Cardinality(C) <= Cardinality(Owners)
  BY KindsAreOfNodes, FS_Subset
<1> DEFINE g == [d \in C |-> guest[d].id]
           r == [d \in C |-> row[d].id]
           t == [d \in C |-> taken[d].id]
<1>2. /\ {g[d] : d \in C} = {guest[d].id : d \in C}
      /\ {r[d] : d \in C} = {row[d].id : d \in C}
      /\ {t[d] : d \in C} = {taken[d].id : d \in C}
  OBVIOUS
<1> HIDE DEF g, r, t
<1>3. /\ IsFiniteSet({g[d] : d \in C}) /\ Cardinality({g[d] : d \in C}) <= Cardinality(C)
      /\ IsFiniteSet({r[d] : d \in C}) /\ IsFiniteSet({t[d] : d \in C})
  BY <1>1, FiniteImage
<1> QED BY <1>1, <1>2, <1>3

\* An id that is given out is one.
LEMMA IdsAreNumbers ==
  ASSUME StatusTypeOK, NEW c \in Owners
  PROVE  FreeId(c) \in Nat \ {0}
<1> USE KindsAreOfNodes DEF StatusTypeOK, RowValues
<1>1. CASE kind[NodeOf[c]] = "docker"
  <2>4. IsFiniteSet(IdsKnown)
    BY FiniteIds, FS_Union DEF IdsKnown
  <2>5. IdsKnown \in SUBSET Nat /\ IdsKnown # {}
    <3>1. guest[c].id \in IdsKnown
      BY DEF IdsKnown
    <3>2. \A d \in Owners : guest[d].id \in Nat /\ row[d].id \in Nat /\ taken[d].id \in Nat
      OBVIOUS
    <3>3. ASSUME NEW i \in IdsKnown PROVE i \in Nat
      <4>1. \E d \in Owners : i = guest[d].id \/ i = row[d].id \/ i = taken[d].id
        BY <3>3 DEF IdsKnown
      <4> QED BY <3>2, <4>1
    <3> QED BY <3>1, <3>3
  <2>6. PICK n \in IdsKnown : \A m \in IdsKnown : m <= n
    BY <2>4, <2>5, GreatestNatural
  <2>7. (CHOOSE i \in IdsKnown : \A j \in IdsKnown : j <= i) \in Nat
    BY <2>5, <2>6
  <2> QED BY <1>1, <2>7 DEF FreeId
<1>2. CASE kind[NodeOf[c]] # "docker"
  <2> DEFINE n == Cardinality(Owners) + 1
             free == (1..n) \ IdsInUse(c)
  <2>1. n \in Nat /\ n - 1 = Cardinality(Owners)
    BY FS_CardinalityType
  <2>2. IsFiniteSet(1..n) /\ Cardinality(1..n) = n
    BY <2>1, FS_Interval
  <2>3. IsFiniteSet(IdsInUse(c)) /\ Cardinality(IdsInUse(c)) <= Cardinality(Owners)
    <3>1. Neighbours(c) \in SUBSET Owners
      BY DEF Neighbours
    <3>2. /\ IsFiniteSet(Neighbours(c)) /\ IsFiniteSet(IdsInUse(c))
          /\ Cardinality(Neighbours(c)) <= Cardinality(Owners)
          /\ Cardinality(IdsInUse(c)) <= Cardinality(Neighbours(c))
      BY <3>1, FiniteIds DEF IdsInUse
    <3>3. /\ Cardinality(Neighbours(c)) \in Nat /\ Cardinality(Owners) \in Nat
          /\ Cardinality(IdsInUse(c)) \in Nat
      BY <3>2, FS_CardinalityType
    <3> QED BY <3>2, <3>3
  <2>4. free # {}
    <3> SUFFICES ASSUME 1..n \subseteq IdsInUse(c) PROVE FALSE
      OBVIOUS
    <3>1. n <= Cardinality(IdsInUse(c)) /\ Cardinality(IdsInUse(c)) \in Nat
      <4>1. 1..n \in SUBSET IdsInUse(c)
        OBVIOUS
      <4> HIDE DEF n
      <4>2. Cardinality(1..n) <= Cardinality(IdsInUse(c))
        BY <2>3, <4>1, FS_Subset
      <4> QED BY <2>2, <2>3, <4>2, FS_CardinalityType
    <3>2. Cardinality(Owners) \in Nat
      BY FS_CardinalityType
    <3> QED BY <2>1, <2>3, <3>1, <3>2
  <2>5. PICK i \in free : \A j \in free : i <= j
    <3>1. free \in SUBSET Nat
      BY <2>1
    <3> HIDE DEF free
    <3> QED BY <2>4, <3>1, LeastNatural
  <2>6. \A j \in 1..(i-1) : j \in IdsInUse(c)
    BY <2>1, <2>5
  <2>7. FreeId(c) \in free
    BY <1>2, <2>6 DEF FreeId
  <2> QED BY <2>1, <2>7
<1> QED BY <1>1, <1>2

-----------------------------------------------------------------------------
(* Types *)

LEMMA StatusTypeInit == StatusInit => StatusTypeOK
BY KindsAreOfNodes DEF StatusInit, StatusTypeOK, RowValues, NoRow

LEMMA FactType == StatusTypeOK' => \A c \in Owners : Fact(c)' \in {"reused", "unreachable", "running", "offline", "absent", "unnamed", "astray"}
BY DEF Fact

LEMMA WatchType ==
  ASSUME StatusTypeOK, Watch
  PROVE  truth' \in [Owners -> SUBSET {"reused", "unreachable", "running", "offline", "absent",
                                 "unnamed", "astray"}]
BY DEF StatusTypeOK, Watch, Fact

LEMMA StatusTypeStep == StatusTypeOK /\ [StatusNext]_statusVars => StatusTypeOK'
<1> SUFFICES ASSUME StatusTypeOK, [StatusNext]_statusVars PROVE StatusTypeOK'
  OBVIOUS
<1> USE DEF StatusTypeOK
<1>1. CASE UNCHANGED statusVars
  BY <1>1 DEF statusVars
<1>2. ASSUME NEW c \in Owners, Posted(c) PROVE StatusTypeOK'
  BY <1>2, WatchType DEF Posted, RowValues
<1>3. ASSUME NEW c \in Owners, MakesGuest(c) PROVE StatusTypeOK'
  BY <1>3, WatchType, IdsAreNumbers DEF MakesGuest
<1>4. ASSUME NEW c \in Owners, StoresId(c) PROVE StatusTypeOK'
  BY <1>4, WatchType DEF StoresId, RowValues
<1>5. ASSUME NEW c \in Owners, JobEnds(c) PROVE StatusTypeOK'
  <2>1. row' \in [Owners -> RowValues]
    <3>1. PICK s \in {"success", "failure", "cancelled"} : row' = [row EXCEPT ![c].job = s]
      BY <1>5 DEF JobEnds
    <3> QED BY <3>1 DEF RowValues
  <2>2. guest' \in [Owners -> [id : Nat, runs : BOOLEAN]]
    <3>1. (guest[c].runs \/ guest[c].id # 0) \in BOOLEAN
      OBVIOUS
    <3>2. CASE guest' = guest
      BY <3>2
    <3>3. CASE guest' = [guest EXCEPT ![c].runs = @ \/ guest[c].id # 0]
      <4> DEFINE b == guest[c].runs \/ guest[c].id # 0
      <4>1. b \in BOOLEAN /\ guest' = [guest EXCEPT ![c].runs = b]
        BY <3>1, <3>3
      <4> HIDE DEF b
      <4> QED BY <4>1
    <3> QED BY <1>5, <3>2, <3>3 DEF JobEnds
  <2> QED BY <1>5, <2>1, <2>2, WatchType DEF JobEnds
<1>6. ASSUME NEW c \in Owners, Imported(c) PROVE StatusTypeOK'
  BY <1>6, WatchType, IdsAreNumbers DEF Imported, RowValues
<1>7. ASSUME NEW c \in Owners, OnTheNode(c) PROVE StatusTypeOK'
  <2>1. FreeId(c) \in Nat /\ (~guest[c].runs) \in BOOLEAN
    BY IdsAreNumbers
  <2>2. guest' \in [Owners -> [id : Nat, runs : BOOLEAN]]
    <3>1. CASE guest' = [guest EXCEPT ![c].runs = ~@]
      <4> DEFINE b == ~guest[c].runs
      <4>1. b \in BOOLEAN /\ guest' = [guest EXCEPT ![c].runs = b]
        BY <2>1, <3>1
      <4> HIDE DEF b
      <4> QED BY <4>1
    <3>2. CASE guest' = [guest EXCEPT ![c] = [id |-> 0, runs |-> FALSE]]
      BY <3>2
    <3>3. CASE guest' = [guest EXCEPT ![c] = [id |-> FreeId(c), runs |-> FALSE]]
      BY <2>1, <3>3
    <3> QED BY <1>7, <3>1, <3>2, <3>3 DEF OnTheNode
  <2> QED BY <1>7, <2>2, WatchType DEF OnTheNode
<1>8. ASSUME NEW c \in Owners, RowDeleted(c) PROVE StatusTypeOK'
  BY <1>8, WatchType DEF RowDeleted, RowValues, NoRow
<1>9. ASSUME NEW n \in HostNodes, NodeGoes(n) PROVE StatusTypeOK'
  BY <1>9, WatchType DEF NodeGoes
<1>10. ASSUME NEW n \in HostNodes, Resolve(n) PROVE StatusTypeOK'
  BY <1>10 DEF Resolve, Decided
<1>11. ASSUME NEW Q \in SUBSET Owners, ReadRows(Q) PROVE StatusTypeOK'
  BY <1>11 DEF ReadRows, RowValues, NoRow, Fact
<1> QED BY <1>1, <1>2, <1>3, <1>4, <1>5, <1>6, <1>7, <1>8, <1>9, <1>10, <1>11 DEF StatusNext

-----------------------------------------------------------------------------
(* The invariant *)

\* Jobs and ids: no job, no row; a job that succeeded, and an import, left an id.
Proper(v) ==
  /\ v.job = "norow" => v.id = 0
  /\ v.job \in {"nojob", "success"} => v.id # 0

RowsAreProper == \A c \in Owners : Proper(row[c]) /\ Proper(taken[c])

OnlyAsked == \A c \in Owners : badge[c] # "-" => c \in Asked

\* While an answer is computed, what holds now has been recorded.
Watched == Reading => \A c \in Owners : Fact(c) \in truth[c]

\* An id that was read stays; a row that was read without one had a guest that was not
\* named, none, or a node that did not answer.
SameRow ==
  \A c \in Asked : "reused" \notin truth[c] =>
    /\ Reading /\ taken[c].id # 0 => row[c].id = taken[c].id
    /\ taken[c].id = 0 => truth[c] \cap {"absent", "unnamed", "unreachable"} # {}

\* What StatusIsHonest says of one answer.
Honest(b, facts, job) ==
  CASE b \in {"running", "offline"} -> b \in facts
    [] b = "creating" -> job = "active"
    [] b = "unknown" -> "unreachable" \in facts
    [] b = "failed" -> job = "failure" /\ facts \cap {"absent", "unnamed", "astray", "unreachable"} # {}
    [] b = "missing" ->
         /\ job # "active"
         /\ \/ facts \cap {"absent", "astray"} # {}
            \/ job = "cancelled" /\ facts \cap {"unnamed", "unreachable"} # {}

StatusInv ==
  StatusTypeOK /\ RowsAreProper /\ OnlyAsked /\ Watched /\ SameRow /\ StatusIsHonest

LEMMA StatusInvInit == StatusInit => StatusInv
<1> SUFFICES ASSUME StatusInit PROVE StatusInv
  OBVIOUS
<1>1. StatusTypeOK
  BY StatusTypeInit
<1>2. Asked = {}
  BY DEF StatusInit, Asked
<1>3. RowsAreProper /\ OnlyAsked /\ Watched /\ SameRow /\ StatusIsHonest
  BY <1>2 DEF StatusInit, RowsAreProper, Proper, OnlyAsked, Watched, SameRow, StatusIsHonest, NoRow, Reading
<1> QED BY <1>1, <1>3 DEF StatusInv

\* What an id's being given out, or a row's going, shows at once.
LEMMA GoneIsReused == \A c \in Owners : row[c] = NoRow => Fact(c) = "reused"
BY DEF Fact

\* A step that changes a row changes only this one, in the order of its life.
Life(c) ==
  \/ row' = row
  \/ row[c] = NoRow \/ row'[c] = NoRow
  \/ row[c].id # 0 => row'[c].id = row[c].id

\* A step on the nodes or on a row, watched.
Happens(c) ==
  /\ Watch /\ UNCHANGED <<taken, badge>>
  /\ \A d \in Owners : d # c => row'[d] = row[d]
  /\ Life(c)
  /\ Proper(row'[c])

LEMMA HappensStep ==
  ASSUME StatusInv, StatusTypeOK', NEW c \in Owners, Happens(c)
  PROVE  StatusInv'
<1> USE DEF StatusInv, StatusTypeOK, Happens
<1>1. Asked' = Asked /\ Reading' = Reading
  BY DEF Asked, Reading
<1>2. \A d \in Owners : truth[d] \subseteq truth'[d] /\ (Reading => truth'[d] = truth[d] \cup {Fact(d)'})
  BY DEF Watch
<1>3. RowsAreProper'
  BY DEF RowsAreProper
<1>4. OnlyAsked'
  BY <1>1 DEF OnlyAsked
<1>5. Watched'
  BY <1>1, <1>2 DEF Watched
<1>6. SameRow'
  <2>5. ASSUME NEW d \in Asked, "reused" \notin truth'[d], taken[d].id = 0
        PROVE  truth'[d] \cap {"absent", "unnamed", "unreachable"} # {}
    BY <1>2, <2>5 DEF Asked, SameRow
  <2> SUFFICES ASSUME Reading, NEW d \in Asked, "reused" \notin truth'[d], taken[d].id # 0
               PROVE  row'[d].id = taken[d].id
    BY <1>1, <2>5 DEF SameRow
  <2>1. d \in Owners /\ "reused" \notin truth[d] /\ Fact(d) \in truth[d] /\ Fact(d)' \in truth'[d]
    BY <1>2 DEF Asked, Watched
  <2>2. row[d] # NoRow /\ row'[d] # NoRow
    <3>1. row'[d] = NoRow => Fact(d)' = "reused"
      BY <2>1 DEF Fact, NoRow
    <3> QED BY <2>1, <3>1, GoneIsReused
  <2>3. row[d].id = taken[d].id
    BY <2>1 DEF SameRow
  <2>4. row'[d] = row[d] \/ (row[d].id # 0 => row'[d].id = row[d].id)
    BY <2>1, <2>2 DEF Life
  <2> QED BY <2>3, <2>4
<1>7. StatusIsHonest'
  <2> SUFFICES ASSUME NEW d \in Owners, badge[d] # "-", "reused" \notin truth'[d]
               PROVE  Honest(badge[d], truth'[d], taken[d].job)
    BY DEF StatusIsHonest, Honest
  <2>1. truth[d] \subseteq truth'[d] /\ "reused" \notin truth[d]
    BY <1>2
  <2>2. Honest(badge[d], truth[d], taken[d].job)
    BY <2>1 DEF StatusIsHonest, Honest
  <2>3. badge[d] \in {"running", "offline", "creating", "failed", "missing", "unknown"}
    BY <2>1
  <2> QED BY <2>1, <2>2, <2>3 DEF Honest
<1> HIDE DEF StatusTypeOK
<1> QED BY <1>3, <1>4, <1>5, <1>6, <1>7

\* What the answer says of a container when its node's snapshot comes.
LEMMA AnswerIsTrue ==
  ASSUME StatusInv, NEW n \in HostNodes, NEW c \in Asked, NodeOf[c] = n, Reading,
         "reused" \notin truth[c],
         NEW b, b = Decided(c, n \notin down, IF n \notin down THEN Resources(n) ELSE {})
  PROVE  Honest(b, truth[c], taken[c].job)
<1> USE DEF StatusInv, Honest
<1> DEFINE ok == n \notin down
           snapshot == IF ok THEN Resources(n) ELSE {}
           found == {r \in snapshot : taken[c].id # 0 /\ r.vmid = taken[c].id}
<1>1. c \in Owners /\ Fact(c) \in truth[c] /\ Fact(c) # "reused" /\ taken[c] # NoRow
  BY DEF Asked, Watched
<1>2. /\ taken[c].id # 0 => row[c].id = taken[c].id
      /\ taken[c].id = 0 => truth[c] \cap {"absent", "unnamed", "unreachable"} # {}
  BY DEF SameRow
<1>3. row[c] # NoRow /\ \A d \in Neighbours(c) \ {c} : row[c].id = 0 \/ guest[d].id # row[c].id
  BY <1>1 DEF Fact
<1>4. /\ taken[c].id \in Nat /\ row[c].id \in Nat /\ guest[c].id \in Nat
      /\ guest[c].runs \in BOOLEAN
      /\ taken[c].job \in {"nojob", "active", "success", "failure", "cancelled"}
      /\ taken[c].job \in {"nojob", "success"} => taken[c].id # 0
      /\ kind[n] \in {"proxmox", "docker", "dummy"}
  <2>1. taken[c] \in RowValues /\ row[c] \in RowValues
    BY <1>1 DEF StatusTypeOK
  <2>2. taken[c].job # "norow"
    BY <1>1, <2>1 DEF RowValues, NoRow, RowsAreProper, Proper
  <2>3. kind[n] \in {"proxmox", "docker", "dummy"}
    BY KindsAreOfNodes DEF StatusTypeOK
  <2> QED BY <1>1, <2>1, <2>2, <2>3 DEF RowValues, StatusTypeOK, RowsAreProper, Proper
<1>5. CASE found # {}
  <2>1. ok /\ taken[c].id # 0 /\ row[c].id = taken[c].id
    BY <1>2, <1>5
  <2>2. CASE kind[n] = "dummy"
    <3>1. \A r \in found : r.on
      BY <2>1, <2>2 DEF Resources, DummyResources
    <3>2. b = "running"
      BY <1>5, <3>1 DEF Decided
    <3>3. Fact(c) = "running"
      BY <1>1, <1>3, <2>1, <2>2 DEF Fact
    <3> QED BY <1>1, <3>2, <3>3
  <2>3. CASE kind[n] # "dummy"
    <3>1. \A r \in found : r = [vmid |-> guest[c].id, on |-> guest[c].runs]
      <4> SUFFICES ASSUME NEW r \in found PROVE r = [vmid |-> guest[c].id, on |-> guest[c].runs]
        OBVIOUS
      <4>1. PICK d \in Owners : /\ NodeOf[d] = n \/ joined
                               /\ r = [vmid |-> guest[d].id, on |-> guest[d].runs]
        BY <1>4, <2>1, <2>3 DEF Resources, ProxmoxResources, DockerResources, GuestsOf
      <4>2. d \in Neighbours(c) /\ guest[d].id = row[c].id
        BY <2>1, <4>1 DEF Neighbours
      <4> QED BY <1>3, <2>1, <4>1, <4>2
    <3>2. guest[c].id = row[c].id
      BY <1>5, <2>1, <3>1
    <3>3. b = IF guest[c].runs THEN "running" ELSE "offline"
      BY <1>5, <3>1 DEF Decided
    <3>4. Fact(c) = IF guest[c].runs THEN "running" ELSE "offline"
      BY <1>1, <1>3, <2>1, <2>3, <3>2 DEF Fact
    <3> QED BY <1>1, <3>3, <3>4
  <2> QED BY <2>2, <2>3
<1>6. CASE found = {}
  <2>1. CASE taken[c].job = "active"
    BY <1>6, <2>1 DEF Decided, JobOf
  <2>2. CASE taken[c].job # "active" /\ taken[c].id # 0 /\ ~ok
    <3>1. b = "unknown"
      BY <1>6, <2>2 DEF Decided, JobOf
    <3>2. Fact(c) = "unreachable"
      BY <1>1, <1>3, <2>2 DEF Fact
    <3> QED BY <1>1, <3>1, <3>2
  <2>3. CASE taken[c].job # "active" /\ ~(taken[c].id # 0 /\ ~ok)
    <3>1. b = IF taken[c].job = "failure" THEN "failed" ELSE "missing"
      BY <1>6, <2>3 DEF Decided, JobOf
    <3>2. CASE taken[c].id = 0
      <4>1. taken[c].job \in {"failure", "cancelled"}
        BY <1>4, <2>3, <3>2
      <4>2. truth[c] \cap {"absent", "unnamed", "unreachable"} # {}
        BY <1>2, <3>2
      <4> QED BY <3>1, <4>1, <4>2
    <3>3. CASE taken[c].id # 0
      <4>1. ok /\ row[c].id = taken[c].id
        BY <1>2, <2>3, <3>3
      <4>2. kind[n] # "dummy" /\ guest[c].id # row[c].id
        <5>1. ASSUME kind[n] = "dummy" PROVE FALSE
          <6>1. [vmid |-> row[c].id, on |-> TRUE] \in Resources(n)
            BY <1>1, <3>3, <4>1, <5>1 DEF Resources, DummyResources
          <6> QED BY <1>6, <3>3, <4>1, <6>1
        <5>2. ASSUME guest[c].id = row[c].id, kind[n] # "dummy" PROVE FALSE
          <6>1. [vmid |-> guest[c].id, on |-> guest[c].runs] \in Resources(n)
            BY <1>1, <1>4, <3>3, <4>1, <5>2 DEF Resources, ProxmoxResources, DockerResources, GuestsOf
          <6> QED BY <1>6, <3>3, <4>1, <5>2, <6>1
        <5> QED BY <5>1, <5>2
      <4>3. Fact(c) \in {"absent", "astray"}
        BY <1>1, <1>3, <3>3, <4>1, <4>2 DEF Fact
      <4> QED BY <1>1, <2>3, <3>1, <4>3
    <3> QED BY <3>2, <3>3
  <2> QED BY <2>1, <2>2, <2>3
<1> QED BY <1>5, <1>6

LEMMA StatusInvStep == StatusInv /\ [StatusNext]_statusVars => StatusInv'
<1> SUFFICES ASSUME StatusInv, [StatusNext]_statusVars PROVE StatusInv'
  OBVIOUS
<1>0. StatusTypeOK /\ StatusTypeOK'
  BY StatusTypeStep DEF StatusInv
<1>1. CASE UNCHANGED statusVars
  BY <1>1 DEF statusVars, StatusInv, StatusTypeOK, RowsAreProper, OnlyAsked, Watched, SameRow, StatusIsHonest,
              Reading, Asked, Fact, Neighbours
<1>2. \A c \in Owners : Proper(row[c])
  BY DEF StatusInv, RowsAreProper
<1>3. ASSUME NEW c \in Owners,
             Posted(c) \/ MakesGuest(c) \/ StoresId(c) \/ JobEnds(c) \/ OnTheNode(c) \/ RowDeleted(c)
      PROVE  Happens(c)
  <2> USE <1>0, <1>2 DEF StatusTypeOK, Happens, Life, Proper
  <2>1. CASE Posted(c)
    BY <2>1 DEF Posted
  <2>2. CASE MakesGuest(c) \/ OnTheNode(c)
    BY <2>2 DEF MakesGuest, OnTheNode
  <2>3. CASE StoresId(c)
    BY <2>3 DEF StoresId, InCreation
  <2>4. CASE JobEnds(c)
    BY <2>4 DEF JobEnds, InCreation, RowValues
  <2>5. CASE RowDeleted(c)
    BY <2>5 DEF RowDeleted, NoRow
  <2> QED BY <1>3, <2>1, <2>2, <2>3, <2>4, <2>5
<1>4. ASSUME NEW c \in Owners, Imported(c) PROVE Happens(c)
  BY <1>0, <1>2, <1>4, IdsAreNumbers DEF Imported, StatusTypeOK, Happens, Life, Proper
<1>5. ASSUME NEW n \in HostNodes, NodeGoes(n) PROVE StatusInv'
  <2>1. PICK c \in Owners : TRUE
    BY DEF HostNodes
  <2>2. Happens(c)
    BY <1>2, <1>5 DEF NodeGoes, Happens, Life
  <2> QED BY <1>0, <2>2, HappensStep
<1>6. ASSUME NEW n \in HostNodes, Resolve(n) PROVE StatusInv'
  <2>1. UNCHANGED <<kind, joined, down, row, guest, taken, truth>>
    BY <1>6 DEF Resolve
  <2>2. Asked' = Asked /\ (\A c \in Owners : Fact(c)' = Fact(c)) /\ Reading
    BY <1>6, <2>1 DEF Asked, Fact, Neighbours, Resolve, Reading
  <2>3. \A c \in Owners :
          badge'[c] = IF c \in Asked /\ NodeOf[c] = n
                      THEN Decided(c, n \notin down, IF n \notin down THEN Resources(n) ELSE {}) ELSE badge[c]
    BY <1>0, <1>6 DEF Resolve, StatusTypeOK
  <2>4. OnlyAsked' /\ RowsAreProper' /\ Watched' /\ SameRow'
    BY <2>1, <2>2, <2>3 DEF StatusInv, OnlyAsked, RowsAreProper, Watched, SameRow
  <2>5. StatusIsHonest'
    <3> SUFFICES ASSUME NEW c \in Owners, badge'[c] # "-", "reused" \notin truth[c]
                 PROVE  Honest(badge'[c], truth[c], taken[c].job)
      BY <2>1 DEF StatusIsHonest, Honest
    <3>1. CASE c \in Asked /\ NodeOf[c] = n
      BY <2>2, <2>3, <3>1, AnswerIsTrue
    <3>2. CASE ~(c \in Asked /\ NodeOf[c] = n)
      BY <2>3, <3>2 DEF StatusInv, StatusIsHonest, Honest
    <3> QED BY <3>1, <3>2
  <2> QED BY <1>0, <2>4, <2>5 DEF StatusInv
<1>7. ASSUME NEW Q \in SUBSET Owners, ReadRows(Q) PROVE StatusInv'
  <2>1. UNCHANGED <<kind, joined, down, row, guest, badge>> /\ Asked = {}
    BY <1>7 DEF ReadRows
  <2>2. \A c \in Owners : badge'[c] = "-"
    BY <2>1 DEF StatusInv, OnlyAsked
  <2>3. \A c \in Owners : Fact(c)' = Fact(c) /\ truth'[c] = {Fact(c)}
    BY <1>7, <2>1 DEF ReadRows, Fact, Neighbours
  <2>4. \A c \in Owners : taken'[c] \in {row[c], NoRow}
    BY <1>7 DEF ReadRows
  <2>5. \A c \in Asked' : c \in Owners /\ taken'[c] = row[c]
    BY <2>4 DEF Asked
  <2>6. RowsAreProper'
    BY <1>2, <2>1, <2>4 DEF RowsAreProper, Proper, NoRow
  <2>7. OnlyAsked' /\ StatusIsHonest'
    BY <2>2 DEF OnlyAsked, StatusIsHonest
  <2>8. Watched'
    BY <2>1, <2>3 DEF Watched
  <2>9. \A c \in Owners : row[c].id = 0 => Fact(c) \in {"reused", "absent", "unnamed", "unreachable"}
    BY DEF Fact
  <2>10. SameRow'
    BY <2>1, <2>3, <2>5, <2>9 DEF SameRow
  <2> QED BY <1>0, <2>6, <2>7, <2>8, <2>10 DEF StatusInv
<1> QED BY <1>0, <1>1, <1>3, <1>4, <1>5, <1>6, <1>7, HappensStep DEF StatusNext

\* Every answer about a container was true of it at some moment since its row was read
\* (container-status.js: computeStatuses, findInSnapshot, decideStatus), for any number of
\* containers and nodes, any clusters, and any sequence of changes meanwhile.
THEOREM AnswersAreHonest == StatusSpec => []StatusIsHonest
<1>1. StatusInv => StatusIsHonest
  BY DEF StatusInv
<1> QED BY <1>1, StatusInvInit, StatusInvStep, PTL DEF StatusSpec

-----------------------------------------------------------------------------
(* Tasks on nodes *)

(* The invariant *)

\* What a script's place says of its last task.
Tasked ==
  \A s \in Scripts :
    /\ TaskAt(s, "ready") \/ TaskAt(s, "digest") \/ TaskAt(s, "list") \/ TaskAt(s, "pull")
       \/ TaskAt(s, "status") \/ TaskAt(s, "stop") => task[s] = NoTask
    /\ TaskAt(s, "create") => task[s] = NoTask \/ task[s] = [op |-> "pull", st |-> "OK"]
    /\ TaskAt(s, "pulling") => task[s].op = "pull"
    /\ TaskAt(s, "creating") \/ TaskAt(s, "store") => task[s].op = "create"
    /\ TaskAt(s, "stopping") => task[s].op = "stop"
    /\ TaskAt(s, "starting") => task[s].op = "start"
    /\ s \in Creations => /\ task[s].op # "stop"
                          /\ ~TaskAt(s, "status") /\ ~TaskAt(s, "stop") /\ ~TaskAt(s, "stopping")
    /\ s \in Restarts => /\ task[s].op \in {"none", "start", "stop"}
                         /\ \A pc \in {"digest", "list", "pull", "pulling", "create", "creating", "store"} :
                              ~TaskAt(s, pc)

\* A task is under way only for a script that waits for it, and ends well, unless
\* something failed or was slow.
Attended ==
  slips = 0 => \A s \in Scripts :
    /\ task[s].st # "error"
    /\ task[s].st = "running" =>
         \/ task[s].op = "pull" /\ TaskAt(s, "pulling")
         \/ task[s].op = "create" /\ TaskAt(s, "creating")
         \/ task[s].op = "stop" /\ TaskAt(s, "stopping")
         \/ task[s].op = "start" /\ TaskAt(s, "starting")

\* A creation knows the tag, and its digest is one the tag has had.
UnderWay(c) == ~Over(c) \/ task[c].st = "running"

Known ==
  \A c \in Creations :
    /\ UnderWay(c) => tag \in seen[c]
    /\ TaskAt(c, "list") \/ TaskAt(c, "pull") \/ TaskAt(c, "create") \/ task[c].op \in {"pull", "create"} =>
         script[c].digest \in seen[c]

\* A file is what its name says, unless a tag has moved between a digest and the pull.
FilesAreNamed == ~astray => \A v \in Versions : files[v] \in {0, v}

\* What a guest may be made from.
TheTags(c, image) == image # 0 /\ (image \in seen[c] \/ (astray /\ client # "docker"))

\* The image is there from the pull on, until the guest has been made and configured.
Fetched(c) ==
  \/ TaskAt(c, "create") \/ TaskAt(c, "creating") \/ TaskAt(c, "store")
  \/ TaskAt(c, "pulling") /\ task[c].st = "OK"
  \/ task[c].op = "create" /\ task[c].st = "running"

Fetches == \A c \in Creations : Fetched(c) => TheTags(c, ImageFor(c))

\* What a creation has seen it has had, and so has it what Docker would make its guest from.
HadSince ==
  \A c \in Creations :
    /\ seen[c] \subseteq had[c]
    /\ had[c] # {} => tag \in had[c]
    /\ client = "docker" /\ (Fetched(c) \/ vm[c].image # 0) => pulled \in had[c]

\* A guest is made before it is stored, and stored before it is started, or lost.
Making(c) ==
  script[c].pc \in {"ready", "digest", "list", "pull", "pulling", "create", "creating", "store"}

GuestsMade ==
  \A c \in Creations :
    /\ vm[c].image # 0 => IF vm[c].lost THEN vm[c].image \in had[c] ELSE TheTags(c, vm[c].image)
    /\ TaskAt(c, "ready") => vm[c].image = 0
    /\ Making(c) => ~vm[c].stored
    /\ vm[c].lost => vm[c].stored /\ client = "docker"
    /\ (TaskAt(c, "creating") /\ task[c].st = "OK") \/ TaskAt(c, "store") \/ (vm[c].stored /\ ~vm[c].lost)
         => vm[c].image # 0

\* Whoever has the start of First ahead of it.
HasStart(s) ==
  \/ TaskAt(s, "stopping") \/ TaskAt(s, "start")
  \/ TaskAt(s, "starting") /\ task[s].st = "running"

Restarted ==
  slips = 0 /\ vm[First].stored /\ ~vm[First].on /\ ~vm[First].lost => \E s \in {First} \cup Restarts : HasStart(s)

\* The restart that has lost First's id is about to fail, or has.
LostByRestart ==
  vm[First].lost => \E s \in Restarts : TaskAt(s, "status") \/ TaskAt(s, "failed")

TaskInv == TaskTypeOK /\ Tasked /\ Attended /\ Known /\ FilesAreNamed /\ Fetches /\ HadSince
           /\ GuestsMade /\ Restarted /\ LostByRestart

LEMMA TaskInvInit == TaskInit => TaskInv
<1> SUFFICES ASSUME TaskInit PROVE TaskInv
  OBVIOUS
<1> USE TaskConstants DEF TaskInit
<1>1. TaskTypeOK
  BY DEF TaskTypeOK, Scripts, ScriptPlaces, NoTask, NoGuest
<1>2. Tasked /\ Attended
  BY DEF Tasked, Attended, TaskAt, NoTask, Scripts
<1>3. Known /\ FilesAreNamed /\ Fetches /\ HadSince /\ GuestsMade /\ Restarted /\ LostByRestart
  BY DEF Known, FilesAreNamed, Fetches, HadSince, GuestsMade, Making, Restarted, LostByRestart, TaskAt, NoTask, NoGuest, UnderWay, Over, Fetched, Scripts
<1> QED BY <1>1, <1>2, <1>3 DEF TaskInv

\* The image of a creation that is to use it is one of the versions.
LEMMA ImageType ==
  ASSUME TaskTypeOK, Known, NEW c \in Creations, TaskAt(c, "list") \/ TaskAt(c, "create") \/ task[c].op \in {"pull", "create"}
  PROVE  FileOf(c) \in Versions /\ ImageFor(c) \in Versions \cup {0}
<1>1. script[c].digest \in seen[c] /\ c \in Scripts
  BY DEF Known, Scripts
<1> QED BY <1>1 DEF TaskTypeOK, FileOf, ImageFor

Guest == [image : Versions \cup {0}, on : BOOLEAN, stored : BOOLEAN, lost : BOOLEAN]

\* What a configuration makes of a guest is a guest.
LEMMA GuestForms ==
  ASSUME NEW g \in Guest, pulled \in Versions \cup {0}
  PROVE  /\ MadeAnew(g) \in Guest /\ Removed(g) \in Guest /\ Interrupted(g) \subseteq Guest
         /\ [g EXCEPT !.stored = TRUE] \in Guest /\ [g EXCEPT !.lost = TRUE] \in Guest
<1>1. MadeAnew(g) \in Guest /\ Removed(g) \in Guest
  BY DEF MadeAnew, Removed, Guest
<1>2. \A h \in Guest : [h EXCEPT !.stored = TRUE] \in Guest /\ [h EXCEPT !.lost = TRUE] \in Guest
                     /\ [h EXCEPT !.on = FALSE] \in Guest
  BY DEF Guest
<1>3. Interrupted(g) \subseteq Guest
  BY <1>1, <1>2 DEF Interrupted
<1> QED BY <1>1, <1>2, <1>3

LEMMA LaunchedType ==
  ASSUME NEW T, task \in [Scripts -> [op : T, st : {"none", "running", "OK", "error"}]],
         NEW s \in Scripts, NEW op \in T,
         task' = [task EXCEPT ![s] = [op |-> op, st |-> "running"]]
  PROVE  task' \in [Scripts -> [op : T, st : {"none", "running", "OK", "error"}]]
OBVIOUS

LEMMA TaskTypeStep == TaskInv /\ [TaskNext]_taskVars => TaskTypeOK'
<1> SUFFICES ASSUME TaskInv, [TaskNext]_taskVars PROVE TaskTypeOK'
  OBVIOUS
<1> USE DEF TaskTypeOK, TaskInv
<1>1. CASE UNCHANGED taskVars
  BY <1>1 DEF taskVars
<1>2. ASSUME NEW v \in Versions, Push(v) PROVE TaskTypeOK'
  BY <1>2 DEF Push, Slip
<1>3. ASSUME NEW s \in Scripts, NEW pc \in ScriptPlaces, TaskGoto(s, pc)
      PROVE  script' \in [Scripts -> [pc : ScriptPlaces, digest : Versions \cup {0}]]
  BY <1>3 DEF TaskGoto
<1>4. ASSUME NEW s \in Scripts, TaskFails(s) \/ CallFails(s)
      PROVE  script' \in [Scripts -> [pc : ScriptPlaces, digest : Versions \cup {0}]] /\ slips' \in Nat
  BY <1>3, <1>4 DEF TaskFails, CallFails, ScriptPlaces, Slip
<1>5. ASSUME NEW s \in Scripts, Begin(s) \/ GetImageDigest(s) \/ ListImages(s) PROVE TaskTypeOK'
  <2>1. script' \in [Scripts -> [pc : ScriptPlaces, digest : Versions \cup {0}]] /\ slips' \in Nat
    <3>1. CASE \E pc \in {"digest", "create", "pull"} : TaskGoto(s, pc) /\ UNCHANGED slips
      BY <1>3, <3>1 DEF ScriptPlaces
    <3>2. CASE script' = [script EXCEPT ![s] = [pc |-> "list", digest |-> tag]] /\ UNCHANGED slips
      BY <3>2 DEF ScriptPlaces
    <3> QED BY <1>4, <1>5, <3>1, <3>2 DEF Begin, GetImageDigest, ListImages
  <2>2. /\ UNCHANGED <<cast, client, tag, files, pulled, vm, task, astray>>
        /\ UNCHANGED <<seen, had>> \/ (seen' = [seen EXCEPT ![s] = {tag}] /\ had' = [had EXCEPT ![s] = {tag}])
    BY <1>5 DEF Begin, GetImageDigest, ListImages
  <2>3. seen' \in [Scripts -> SUBSET Versions] /\ had' \in [Scripts -> SUBSET Versions]
    <3>1. CASE UNCHANGED <<seen, had>>
      BY <3>1
    <3>2. CASE seen' = [seen EXCEPT ![s] = {tag}] /\ had' = [had EXCEPT ![s] = {tag}]
      <4>1. {tag} \in SUBSET Versions
        OBVIOUS
      <4>2. seen' \in [Scripts -> SUBSET Versions]
        BY <3>2, <4>1
      <4>3. had' \in [Scripts -> SUBSET Versions]
        BY <3>2, <4>1
      <4> QED BY <4>2, <4>3
    <3> QED BY <2>2, <3>1, <3>2
  <2> QED BY <2>1, <2>2, <2>3
<1>6. ASSUME NEW s \in Scripts, NEW op \in {"pull", "create", "start", "stop"}, NEW pc \in ScriptPlaces,
             Launch(s, op, pc)
      PROVE  TaskTypeOK'
  <2>1. task' = [task EXCEPT ![s] = [op |-> op, st |-> "running"]] \/ task' = task
    BY <1>6 DEF Launch
  <2>2. script' \in [Scripts -> [pc : ScriptPlaces, digest : Versions \cup {0}]]
    BY <1>3, <1>6 DEF Launch, ScriptPlaces
  <2>3. task' \in [Scripts -> [op : {"none", "pull", "create", "start", "stop"},
                           st : {"none", "running", "OK", "error"}]]
    BY <2>1, LaunchedType
  <2> QED BY <1>6, <2>2, <2>3 DEF Launch
<1>7. ASSUME NEW s \in Scripts, PullOciImage(s) \/ CreateLxc(s) \/ StartLxc(s) \/ StopLxc(s) PROVE TaskTypeOK'
  BY <1>6, <1>7 DEF PullOciImage, CreateLxc, StartLxc, StopLxc, ScriptPlaces
<1>8. ASSUME NEW s \in Scripts, NEW next \in ScriptPlaces, NEW pc, WaitForTask(s, pc, next) PROVE TaskTypeOK'
  BY <1>3, <1>4, <1>8 DEF WaitForTask
<1>9. ASSUME NEW s \in Scripts, GetLxcIpAddress(s) \/ GetLxcStatus(s) PROVE TaskTypeOK'
  <2>1. script' \in [Scripts -> [pc : ScriptPlaces, digest : Versions \cup {0}]] /\ slips' \in Nat
    <3>1. CASE \E pc \in {"ok", "stop", "start"} : TaskGoto(s, pc) /\ UNCHANGED slips
      BY <1>3, <3>1 DEF ScriptPlaces
    <3> QED BY <1>4, <1>9, <3>1 DEF GetLxcIpAddress, GetLxcStatus
  <2> QED BY <1>9, <2>1 DEF GetLxcIpAddress, GetLxcStatus
<1>10. ASSUME NEW s \in Scripts, StoreId(s) \/ Configure(s) PROVE TaskTypeOK'
  <2>1. script' \in [Scripts -> [pc : ScriptPlaces, digest : Versions \cup {0}]] /\ slips' \in Nat
    <3>1. CASE \E pc \in {"start", "status"} : TaskGoto(s, pc) /\ UNCHANGED slips
      BY <1>3, <3>1 DEF ScriptPlaces
    <3> QED BY <1>4, <1>10, <3>1 DEF StoreId, Configure
  <2>2. vm' \in [Creations -> [image : Versions \cup {0}, on : BOOLEAN, stored : BOOLEAN, lost : BOOLEAN]]
    <3>1. s \in Creations \/ ~StoreId(s)
      BY DEF StoreId, Tasked, Scripts
    <3>2. \A c \in Creations : vm[c] \in Guest
      BY DEF Guest
    <3>3. \E c \in Creations, g \in Guest : vm' = [vm EXCEPT ![c] = g]
      <4>1. CASE StoreId(s)
        <5>1. PICK g : /\ g \in {vm[s], MadeAnew(vm[s]), Removed(vm[s])}
                       /\ vm' = [vm EXCEPT ![s] = g] \/ vm' = [vm EXCEPT ![s] = [g EXCEPT !.stored = TRUE]]
          BY <4>1 DEF StoreId
        <5>2. s \in Creations /\ g \in Guest
          BY <3>1, <3>2, <4>1, <5>1, GuestForms
        <5>3. [g EXCEPT !.stored = TRUE] \in Guest
          BY <5>2, GuestForms
        <5> QED BY <5>1, <5>2, <5>3
      <4>2. CASE Configure(s)
        <5>1. First \in Creations /\ vm[First] \in Guest
          BY <3>2, TaskConstants
        <5>2. PICK g : /\ g \in Interrupted(vm[First]) \cup {vm[First], [MadeAnew(vm[First]) EXCEPT !.lost = TRUE]}
                       /\ vm' = [vm EXCEPT ![First] = g]
          BY <4>2, <5>1 DEF Configure
        <5>3. MadeAnew(vm[First]) \in Guest /\ Interrupted(vm[First]) \subseteq Guest
          BY <5>1, GuestForms
        <5>4. [MadeAnew(vm[First]) EXCEPT !.lost = TRUE] \in Guest
          BY <5>3, GuestForms
        <5> QED BY <5>1, <5>2, <5>3, <5>4
      <4> QED BY <1>10, <4>1, <4>2
    <3> QED BY <3>3 DEF Guest
  <2> QED BY <1>10, <2>1, <2>2 DEF StoreId, Configure
<1>11. ASSUME NEW s \in Scripts, TaskEnds(s) PROVE TaskTypeOK'
  <2>1. task' \in [Scripts -> [op : {"none", "pull", "create", "start", "stop"},
                           st : {"none", "running", "OK", "error"}]]
    <3>1. \E st \in {"OK", "error"} : task' = [task EXCEPT ![s].st = st]
      BY <1>11 DEF TaskEnds
    <3> QED BY <3>1
  <2>2. CASE UNCHANGED <<files, pulled, vm, astray>> /\ Slip
    BY <1>11, <2>1, <2>2 DEF TaskEnds, Slip
  <2>3. CASE Effect(s) /\ UNCHANGED slips
    <3>1. CASE task[s].op = "pull"
      <4>1. /\ files' = files \/ files' = [files EXCEPT ![FileOf(s)] = tag]
            /\ pulled' = pulled \/ pulled' = tag
            /\ vm' = vm /\ astray' = (astray \/ tag # script[s].digest)
        BY <2>3, <3>1 DEF Effect, PullIntoDocker, PullOntoStorage
      <4>2. astray' \in BOOLEAN
        BY <4>1
      <4>3. files' \in [Versions -> Versions \cup {0}] /\ pulled' \in Versions \cup {0}
        BY <4>1
      <4>4. UNCHANGED <<cast, client, tag, script, seen, had, slips, vm>>
        BY <1>11, <2>3, <4>1 DEF TaskEnds
      <4> QED BY <2>1, <4>2, <4>3, <4>4
    <3>2. CASE task[s].op = "create"
      <4>1. s \in Creations
        BY <3>2 DEF Tasked, Scripts
      <4>2. vm' = [vm EXCEPT ![s].image = ImageFor(s)] /\ UNCHANGED <<files, pulled, astray>>
        BY <2>3, <3>2 DEF Effect
      <4>3. vm' \in [Creations -> [image : Versions \cup {0}, on : BOOLEAN, stored : BOOLEAN, lost : BOOLEAN]]
        BY <3>2, <4>1, <4>2, ImageType
      <4> QED BY <1>11, <2>1, <2>3, <4>2, <4>3 DEF TaskEnds
    <3>3. CASE task[s].op \notin {"pull", "create"}
      <4>1. vm' = [vm EXCEPT ![GuestOf(s)].on = (task[s].op = "start")] /\ UNCHANGED <<files, pulled, astray>>
        BY <2>3, <3>3 DEF Effect
      <4> DEFINE on == task[s].op = "start"
      <4>2. vm' \in [Creations -> [image : Versions \cup {0}, on : BOOLEAN, stored : BOOLEAN, lost : BOOLEAN]]
        <5>1. on \in BOOLEAN /\ vm' = [vm EXCEPT ![GuestOf(s)].on = on]
          BY <4>1
        <5> HIDE DEF on
        <5> QED BY <5>1
      <4> QED BY <1>11, <2>1, <2>3, <4>1, <4>2 DEF TaskEnds
    <3> QED BY <3>1, <3>2, <3>3
  <2> QED BY <1>11, <2>2, <2>3 DEF TaskEnds
<1> HIDE DEF TaskTypeOK, TaskInv
<1> QED BY <1>1, <1>2, <1>5, <1>7, <1>8, <1>9, <1>10, <1>11 DEF TaskNext, ScriptPlaces

\* Where a script stands, after a step of it or of another one.
LEMMA ScriptMoves ==
  ASSUME TaskTypeOK, NEW s \in Scripts, NEW to, TaskGoto(s, to)
  PROVE  /\ script'[s].pc = to /\ script'[s].digest = script[s].digest
         /\ \A q \in Scripts : q # s => script'[q] = script[q]
BY DEF TaskTypeOK, TaskGoto

LEMMA TaskedStep == TaskInv /\ [TaskNext]_taskVars => Tasked'
<1> SUFFICES ASSUME TaskInv, [TaskNext]_taskVars PROVE Tasked'
  OBVIOUS
<1> USE DEF TaskInv
<1>1. CASE UNCHANGED <<script, task>>
  BY <1>1 DEF Tasked, TaskAt
\* A script goes on to a place that says nothing, or nothing new, of its task.
<1>2. ASSUME NEW s \in Scripts, UNCHANGED task, NEW to,
             script'[s].pc = to, \A q \in Scripts : q # s => script'[q] = script[q],
             \/ to \in {"failed", "ok", "address"}
             \/ to = "store" /\ s \in Creations /\ task[s].op = "create"
             \/ to \in {"digest", "list", "pull"} /\ task[s] = NoTask /\ s \in Creations
             \/ to \in {"status", "stop"} /\ task[s] = NoTask /\ s \in Restarts
             \/ to = "start"
             \/ to = "create" /\ s \in Creations /\ (task[s] = NoTask \/ task[s] = [op |-> "pull", st |-> "OK"])
      PROVE  Tasked'
  BY <1>2, TaskConstants DEF Tasked, TaskAt, NoTask
<1>3. ASSUME NEW s \in Scripts, TaskFails(s) \/ CallFails(s), UNCHANGED task PROVE Tasked'
  BY <1>2, <1>3, ScriptMoves DEF TaskFails, CallFails
<1>4. ASSUME NEW s \in Scripts, Begin(s) \/ GetImageDigest(s) \/ ListImages(s) PROVE Tasked'
  <2>1. s \in Creations /\ task[s] = NoTask /\ UNCHANGED task
    BY <1>4 DEF Begin, GetImageDigest, ListImages, Tasked, Scripts, TaskAt
  <2>2. CASE \E to \in {"digest", "create", "pull"} : TaskGoto(s, to)
    BY <1>2, <2>1, <2>2, ScriptMoves
  <2>3. CASE script' = [script EXCEPT ![s] = [pc |-> "list", digest |-> tag]]
    BY <1>2, <2>1, <2>3 DEF TaskTypeOK
  <2> QED BY <1>3, <1>4, <2>1, <2>2, <2>3 DEF Begin, GetImageDigest, ListImages
<1>5. ASSUME NEW s \in Scripts, NEW op, NEW pc, Launch(s, op, pc),
             \/ op = "pull" /\ pc = "pulling" /\ s \in Creations
             \/ op = "create" /\ pc = "creating" /\ s \in Creations
             \/ op = "start" /\ pc = "starting"
             \/ op = "stop" /\ pc = "stopping" /\ s \in Restarts
      PROVE  Tasked'
  <2>1. CASE TaskGoto(s, "failed") /\ UNCHANGED task
    BY <1>2, <2>1, ScriptMoves
  <2>2. CASE task' = [task EXCEPT ![s] = [op |-> op, st |-> "running"]] /\ TaskGoto(s, pc)
    <3>1. /\ script'[s].pc = pc /\ task'[s] = [op |-> op, st |-> "running"]
          /\ \A q \in Scripts : q # s => script'[q] = script[q] /\ task'[q] = task[q]
      BY <2>2, ScriptMoves DEF TaskTypeOK
    <3> QED BY <1>5, <3>1, TaskConstants DEF Tasked, TaskAt, NoTask
  <2> QED BY <1>5, <2>1, <2>2 DEF Launch
<1>6. ASSUME NEW s \in Scripts, PullOciImage(s) \/ CreateLxc(s) \/ StartLxc(s) \/ StopLxc(s) PROVE Tasked'
  <2>1. /\ TaskAt(s, "pull") \/ TaskAt(s, "create") => s \in Creations
        /\ TaskAt(s, "stop") => s \in Restarts
    BY DEF Tasked, Scripts
  <2> QED BY <1>5, <1>6, <2>1 DEF PullOciImage, CreateLxc, StartLxc, StopLxc
<1>7. ASSUME NEW s \in Scripts, NEW pc, NEW next, WaitForTask(s, pc, next),
             <<pc, next>> \in {<<"pulling", "create">>, <<"creating", "store">>, <<"stopping", "start">>, <<"starting", "address">>}
      PROVE  Tasked'
  <2>1. CASE Finished(s) /\ TaskGoto(s, next)
    <3>1. /\ pc = "pulling" => s \in Creations /\ task[s] = [op |-> "pull", st |-> "OK"]
          /\ pc = "creating" => s \in Creations /\ task[s].op = "create"
      BY <1>7, <2>1 DEF WaitForTask, Tasked, Scripts, TaskAt, Finished, TaskTypeOK
    <3>2. /\ script'[s].pc = next /\ UNCHANGED task
          /\ \A q \in Scripts : q # s => script'[q] = script[q]
      BY <1>7, <2>1, ScriptMoves DEF WaitForTask
    <3> QED BY <1>2, <1>7, <3>1, <3>2
  <2>2. UNCHANGED task
    BY <1>7 DEF WaitForTask
  <2> QED BY <1>3, <1>7, <2>1, <2>2 DEF WaitForTask
<1>8. ASSUME NEW s \in Scripts, GetLxcIpAddress(s) \/ GetLxcStatus(s) PROVE Tasked'
  <2>1. UNCHANGED task /\ (TaskAt(s, "status") => s \in Restarts /\ task[s] = NoTask)
    BY <1>8 DEF GetLxcIpAddress, GetLxcStatus, Tasked, Scripts
  <2>2. CASE TaskAt(s, "status") /\ \E to \in {"start", "stop", "ok"} : TaskGoto(s, to)
    BY <1>2, <2>1, <2>2, ScriptMoves
  <2>3. CASE TaskGoto(s, "ok")
    BY <1>2, <2>1, <2>3, ScriptMoves
  <2> QED BY <1>3, <1>8, <2>1, <2>2, <2>3 DEF GetLxcIpAddress, GetLxcStatus
<1>9. ASSUME NEW s \in Scripts, StoreId(s) \/ Configure(s) PROVE Tasked'
  <2>1. UNCHANGED task /\ (TaskAt(s, "ready") => task[s] = NoTask)
    BY <1>9 DEF StoreId, Configure, Tasked
  <2>2. CASE TaskGoto(s, "start")
    BY <1>2, <2>1, <2>2, ScriptMoves
  <2>3. CASE TaskGoto(s, "status") /\ s \in Restarts /\ TaskAt(s, "ready")
    BY <1>2, <2>1, <2>3, ScriptMoves
  <2> QED BY <1>3, <1>9, <2>1, <2>2, <2>3 DEF StoreId, Configure
<1>10. ASSUME NEW s \in Scripts, TaskEnds(s) PROVE Tasked'
  <2>1. /\ UNCHANGED script /\ \A q \in Scripts : q # s => task'[q] = task[q]
        /\ task'[s].op = task[s].op /\ task[s].st = "running"
    BY <1>10 DEF TaskEnds, TaskTypeOK
  <2>2. \A q \in Scripts : q = s => task[q] # NoTask /\ task[q] # [op |-> "pull", st |-> "OK"]
    BY <2>1 DEF NoTask
  <2> QED BY <2>1, <2>2 DEF Tasked, TaskAt
<1>11. ASSUME NEW v \in Versions, Push(v) PROVE Tasked'
  BY <1>1, <1>11 DEF Push
<1> HIDE DEF TaskInv
<1> QED BY <1>1, <1>4, <1>6, <1>7, <1>8, <1>9, <1>10, <1>11 DEF TaskNext, taskVars

LEMMA AttendedStep == TaskInv /\ [TaskNext]_taskVars => Attended'
<1> SUFFICES ASSUME TaskInv, [TaskNext]_taskVars, slips' = 0 PROVE Attended'
  BY DEF Attended
<1> USE DEF TaskInv
<1> DEFINE Waits(s) ==
             \/ task[s].op = "pull" /\ TaskAt(s, "pulling")
             \/ task[s].op = "create" /\ TaskAt(s, "creating")
             \/ task[s].op = "stop" /\ TaskAt(s, "stopping")
             \/ task[s].op = "start" /\ TaskAt(s, "starting")
<1>1. ASSUME slips = 0, NEW s \in Scripts, \A q \in Scripts \ {s} : script'[q] = script[q] /\ task'[q] = task[q],
             task'[s].st # "error", task'[s].st = "running" => Waits(s)'
      PROVE  Attended'
  BY <1>1 DEF Attended, TaskAt
<1>2. ASSUME NEW s \in Scripts, CallFails(s) \/ Slip PROVE FALSE
  BY <1>2 DEF CallFails, Slip, TaskTypeOK
<1>3. ASSUME NEW s \in Scripts, slips = 0, UNCHANGED task, task[s].st # "running",
             \A q \in Scripts \ {s} : script'[q] = script[q]
      PROVE  Attended'
  BY <1>1, <1>3 DEF Attended
<1>4. ASSUME NEW s \in Scripts, Begin(s) \/ GetImageDigest(s) \/ ListImages(s) \/ StoreId(s) \/ Configure(s)
                                \/ GetLxcIpAddress(s) \/ GetLxcStatus(s)
      PROVE  Attended'
  <2>1. /\ UNCHANGED task /\ slips = 0
        /\ TaskAt(s, "ready") \/ TaskAt(s, "digest") \/ TaskAt(s, "list") \/ TaskAt(s, "status")
           \/ TaskAt(s, "store") \/ TaskAt(s, "address")
    BY <1>2, <1>4 DEF Begin, GetImageDigest, ListImages, StoreId, Configure, GetLxcIpAddress, GetLxcStatus, TaskFails
  <2>2. \A q \in Scripts \ {s} : script'[q] = script[q]
    BY <1>4 DEF Begin, GetImageDigest, ListImages, StoreId, Configure, GetLxcIpAddress, GetLxcStatus, TaskFails,
                CallFails, TaskGoto, TaskTypeOK
  <2>3. task[s].st # "running"
    BY <2>1 DEF Attended, TaskAt
  <2> QED BY <1>3, <2>1, <2>2, <2>3
<1>5. ASSUME NEW s \in Scripts, NEW op, NEW at, NEW pc, TaskAt(s, at), Launch(s, op, pc),
             <<at, op, pc>> \in {<<"pull", "pull", "pulling">>, <<"create", "create", "creating">>,
                                <<"start", "start", "starting">>, <<"stop", "stop", "stopping">>}
      PROVE  Attended'
  <2>1. slips = 0 /\ task[s].st # "running"
    BY <1>5 DEF Launch, Attended, TaskAt
  <2>2. CASE TaskGoto(s, "failed") /\ UNCHANGED task
    BY <1>3, <2>1, <2>2, ScriptMoves
  <2>3. CASE task' = [task EXCEPT ![s] = [op |-> op, st |-> "running"]] /\ TaskGoto(s, pc)
    <3>1. /\ script'[s].pc = pc /\ task'[s] = [op |-> op, st |-> "running"]
          /\ \A q \in Scripts \ {s} : script'[q] = script[q] /\ task'[q] = task[q]
      BY <2>3, ScriptMoves DEF TaskTypeOK
    <3>2. Waits(s)'
      BY <1>5, <3>1 DEF TaskAt
    <3> QED BY <1>1, <2>1, <3>1, <3>2
  <2> QED BY <1>5, <2>2, <2>3 DEF Launch
<1>6. ASSUME NEW s \in Scripts, PullOciImage(s) \/ CreateLxc(s) \/ StartLxc(s) \/ StopLxc(s) PROVE Attended'
  BY <1>5, <1>6 DEF PullOciImage, CreateLxc, StartLxc, StopLxc
<1>7. ASSUME NEW s \in Scripts, NEW pc, NEW next, WaitForTask(s, pc, next) PROVE Attended'
  <2>1. slips = 0 /\ UNCHANGED task /\ task[s].st # "running"
    BY <1>2, <1>7 DEF WaitForTask, Finished, TaskFails
  <2>2. \A q \in Scripts \ {s} : script'[q] = script[q]
    BY <1>7, ScriptMoves DEF WaitForTask, TaskFails, CallFails
  <2> QED BY <1>3, <2>1, <2>2
<1>8. ASSUME NEW s \in Scripts, TaskEnds(s) PROVE Attended'
  <2>1. slips = 0 /\ UNCHANGED script /\ task'[s].st = "OK" /\ \A q \in Scripts \ {s} : task'[q] = task[q]
    BY <1>2, <1>8 DEF TaskEnds, TaskTypeOK
  <2> QED BY <1>1, <2>1
<1>9. ASSUME NEW v \in Versions, Push(v) PROVE FALSE
  BY <1>9 DEF Push, Slip, TaskTypeOK
<1>10. CASE UNCHANGED taskVars
  BY <1>10 DEF taskVars, Attended, TaskAt
<1> HIDE DEF TaskInv
<1> QED BY <1>4, <1>6, <1>7, <1>8, <1>9, <1>10 DEF TaskNext

\* What a step of a script leaves alone, unless it begins, gets a digest, or its task ends.
Onwards(s, to, t) ==
  /\ UNCHANGED <<client, tag, files, pulled, vm, seen, had, astray>>
  /\ script'[s].pc = to /\ script'[s].digest = script[s].digest
  /\ \A q \in Scripts : q # s => script'[q] = script[q] /\ task'[q] = task[q]
  /\ task'[s] = t

\* The steps, as the image sees them: where a script that goes on comes from.
Goes(s, to, t) ==
  \/ /\ t = task[s]
     /\ \/ to = "failed" /\ (s \in Creations => ~TaskAt(s, "ready"))
        \/ to = "ok" /\ (TaskAt(s, "address") \/ TaskAt(s, "status"))
        \/ to = "address" /\ TaskAt(s, "starting")
        \/ to = "start" /\ (TaskAt(s, "stopping") \/ TaskAt(s, "status"))
        \/ to = "stop" /\ TaskAt(s, "status")
        \/ to = "pull" /\ TaskAt(s, "list")
        \/ to = "create" /\ TaskAt(s, "list") /\ client # "docker" /\ FileOf(s) \in Versions
           /\ files[FileOf(s)] # 0
        \/ to = "create" /\ TaskAt(s, "pulling") /\ task[s].st = "OK"
        \/ to = "store" /\ TaskAt(s, "creating") /\ task[s].st = "OK"
  \/ /\ t.st = "running"
     /\ \/ to = "pulling" /\ t.op = "pull" /\ TaskAt(s, "pull")
        \/ to = "creating" /\ t.op = "create" /\ TaskAt(s, "create")
        \/ to = "starting" /\ t.op = "start" /\ TaskAt(s, "start")
        \/ to = "stopping" /\ t.op = "stop" /\ TaskAt(s, "stop")

LEMMA TaskSteps ==
  ASSUME TaskInv, [TaskNext]_taskVars
  PROVE  \/ UNCHANGED taskVars
         \/ \E v \in Versions : Push(v)
         \/ \E s \in Scripts : \/ Begin(s) \/ TaskEnds(s) \/ StoreId(s) \/ Configure(s)
                               \/ GetImageDigest(s) /\ script' = [script EXCEPT ![s] = [pc |-> "list", digest |-> tag]]
                               \/ \E to, t : Onwards(s, to, t) /\ Goes(s, to, t)
<1> DEFINE On == \E s \in Scripts : \E to, t : Onwards(s, to, t) /\ Goes(s, to, t)
<1> USE DEF TaskInv
<1>1. ASSUME NEW s \in Scripts, NEW to, UNCHANGED <<client, tag, files, pulled, seen, had, astray, task, vm>>,
             TaskGoto(s, to), Goes(s, to, task[s])
      PROVE  On
  <2>1. Onwards(s, to, task[s])
    BY <1>1, ScriptMoves DEF Onwards
  <2> QED BY <1>1, <2>1
<1>2. ASSUME NEW s \in Scripts, UNCHANGED <<client, tag, files, pulled, seen, had, astray, task, vm>>,
             TaskFails(s) \/ CallFails(s), s \in Creations => ~TaskAt(s, "ready")
      PROVE  On
  <2>1. TaskGoto(s, "failed") /\ Goes(s, "failed", task[s])
    BY <1>2 DEF TaskFails, CallFails, Goes
  <2> QED BY <1>1, <1>2, <2>1
<1>3. ASSUME NEW s \in Scripts, ListImages(s) PROVE On
  <2>1. UNCHANGED <<client, tag, files, pulled, seen, had, astray, task, vm>> /\ TaskAt(s, "list")
    BY <1>3 DEF ListImages
  <2>2. CASE CallFails(s)
    BY <1>2, <2>1, <2>2 DEF TaskAt
  <2>3. CASE TaskGoto(s, "pull")
    BY <1>1, <2>1, <2>3 DEF Goes
  <2>4. CASE TaskGoto(s, "create") /\ FileOf(s) \in StorageContents
    <3>1. client # "docker" /\ FileOf(s) \in Versions /\ files[FileOf(s)] # 0
      BY <2>4 DEF StorageContents
    <3>2. Goes(s, "create", task[s])
      BY <2>1, <3>1 DEF Goes
    <3> QED BY <1>1, <2>1, <2>4, <3>2
  <2> QED BY <1>3, <2>2, <2>3, <2>4 DEF ListImages
<1>4. ASSUME NEW s \in Scripts, NEW op, NEW at, NEW pc, TaskAt(s, at), Launch(s, op, pc),
             <<at, op, pc>> \in {<<"pull", "pull", "pulling">>, <<"create", "create", "creating">>,
                                <<"start", "start", "starting">>, <<"stop", "stop", "stopping">>}
      PROVE  On
  <2>1. UNCHANGED <<client, tag, files, pulled, seen, had, astray, vm>>
    BY <1>4 DEF Launch
  <2>2. CASE TaskGoto(s, "failed") /\ UNCHANGED task
    <3>1. Goes(s, "failed", task[s])
      BY <1>4, <2>1 DEF Goes, TaskAt
    <3> QED BY <1>1, <2>1, <2>2, <3>1
  <2>3. CASE task' = [task EXCEPT ![s] = [op |-> op, st |-> "running"]] /\ TaskGoto(s, pc)
    <3> DEFINE t == [op |-> op, st |-> "running"]
    <3>1. Onwards(s, pc, t)
      BY <2>1, <2>3, ScriptMoves DEF Onwards, TaskTypeOK
    <3>2. Goes(s, pc, t)
      BY <1>4, <2>1 DEF Goes
    <3> HIDE DEF t
    <3> QED BY <3>1, <3>2
  <2> QED BY <1>4, <2>2, <2>3 DEF Launch
<1>5. ASSUME NEW s \in Scripts, PullOciImage(s) \/ CreateLxc(s) \/ StartLxc(s) \/ StopLxc(s) PROVE On
  BY <1>4, <1>5 DEF PullOciImage, CreateLxc, StartLxc, StopLxc
<1>6. ASSUME NEW s \in Scripts, NEW pc, NEW next, WaitForTask(s, pc, next),
             <<pc, next>> \in {<<"pulling", "create">>, <<"creating", "store">>, <<"stopping", "start">>, <<"starting", "address">>}
      PROVE  On
  <2>1. UNCHANGED <<client, tag, files, pulled, seen, had, astray, task, vm>> /\ TaskAt(s, pc)
    BY <1>6 DEF WaitForTask
  <2>2. CASE Finished(s) /\ TaskGoto(s, next)
    <3>1. Goes(s, next, task[s])
      BY <1>6, <2>1, <2>2 DEF Goes, Finished
    <3> QED BY <1>1, <2>1, <2>2, <3>1
  <2>3. CASE TaskFails(s) \/ CallFails(s)
    BY <1>2, <1>6, <2>1, <2>3 DEF TaskAt
  <2> QED BY <1>6, <2>2, <2>3 DEF WaitForTask
<1>7. ASSUME NEW s \in Scripts, GetLxcIpAddress(s) \/ GetLxcStatus(s) PROVE On
  <2>1. UNCHANGED <<client, tag, files, pulled, seen, had, astray, task, vm>> /\ (TaskAt(s, "status") \/ TaskAt(s, "address"))
    BY <1>7 DEF GetLxcIpAddress, GetLxcStatus
  <2>2. CASE TaskFails(s) \/ CallFails(s)
    BY <1>2, <2>1, <2>2 DEF TaskAt
  <2>3. CASE TaskGoto(s, "ok")
    BY <1>1, <2>1, <2>3 DEF Goes
  <2>4. CASE (TaskGoto(s, "stop") \/ TaskGoto(s, "start")) /\ TaskAt(s, "status")
    BY <1>1, <2>1, <2>4 DEF Goes
  <2> QED BY <1>7, <2>2, <2>3, <2>4 DEF GetLxcIpAddress, GetLxcStatus
<1>10. ASSUME NEW s \in Scripts, GetImageDigest(s), CallFails(s) PROVE On
  BY <1>2, <1>10 DEF GetImageDigest, TaskAt
<1> HIDE DEF TaskInv, On
<1>11. ASSUME TaskNext, NEW s \in Scripts, GetImageDigest(s)
       PROVE  On \/ script' = [script EXCEPT ![s] = [pc |-> "list", digest |-> tag]]
  BY <1>10, <1>11 DEF GetImageDigest
<1>12. CASE TaskNext
  BY <1>3, <1>5, <1>6, <1>7, <1>11, <1>12 DEF TaskNext, On
<1> QED BY <1>12

\* A tag that moves is seen by all that is under way; a digest is the tag's.
LEMMA KnownStep == TaskInv /\ [TaskNext]_taskVars => Known' /\ FilesAreNamed'
<1> SUFFICES ASSUME TaskInv, [TaskNext]_taskVars PROVE Known' /\ FilesAreNamed'
  OBVIOUS
<1>0. Creations \subseteq Scripts
  BY DEF Scripts
<1> USE DEF TaskInv
<1>1. CASE UNCHANGED taskVars
  BY <1>1 DEF taskVars, Known, FilesAreNamed, UnderWay, Over, TaskAt
<1>2. ASSUME NEW v \in Versions, Push(v) PROVE Known' /\ FilesAreNamed'
  <2>1. \A c \in Creations : seen'[c] = IF UnderWay(c) THEN seen[c] \cup {v} ELSE seen[c]
    BY <1>0, <1>2 DEF Push, UnderWay
  <2>2. UNCHANGED <<script, task, files, astray>> /\ tag' = v
    BY <1>2 DEF Push
  <2> QED BY <2>1, <2>2 DEF Known, FilesAreNamed, UnderWay, Over, TaskAt
<1>3. ASSUME NEW s \in Scripts, Begin(s) PROVE Known' /\ FilesAreNamed'
  <2>1. /\ seen' = [seen EXCEPT ![s] = {tag}] /\ UNCHANGED <<tag, files, task, astray>>
        /\ script'[s].pc = "digest" /\ \A q \in Scripts : q # s => script'[q] = script[q]
    BY <1>3, ScriptMoves DEF Begin
  <2>2. task[s] = NoTask
    BY <1>3 DEF Begin, Tasked
  <2>3. seen'[s] = {tag} /\ \A q \in Scripts : q # s => seen'[q] = seen[q]
    BY <2>1 DEF TaskTypeOK
  <2> QED BY <1>0, <2>1, <2>2, <2>3 DEF Known, FilesAreNamed, UnderWay, Over, TaskAt, NoTask
<1>4. ASSUME NEW s \in Scripts, GetImageDigest(s), script' = [script EXCEPT ![s] = [pc |-> "list", digest |-> tag]]
      PROVE  Known' /\ FilesAreNamed'
  <2>1. UNCHANGED <<tag, files, task, seen, astray>> /\ TaskAt(s, "digest") /\ task[s] = NoTask
    BY <1>4 DEF GetImageDigest, Tasked
  <2>2. /\ script'[s].pc = "list" /\ script'[s].digest = tag
        /\ \A q \in Scripts : q # s => script'[q] = script[q]
    BY <1>4 DEF TaskTypeOK
  <2> QED BY <1>0, <2>1, <2>2 DEF Known, FilesAreNamed, UnderWay, Over, TaskAt, NoTask
<1>5. ASSUME NEW s \in Scripts, NEW to, NEW t, Onwards(s, to, t), Goes(s, to, t) PROVE Known' /\ FilesAreNamed'
  <2>1. FilesAreNamed'
    BY <1>5 DEF Onwards, FilesAreNamed
  <2>2. ASSUME NEW c \in Creations, c # s
        PROVE  /\ UnderWay(c)' => tag' \in seen'[c]
               /\ (TaskAt(c, "list") \/ TaskAt(c, "pull") \/ TaskAt(c, "create") \/ task[c].op \in {"pull", "create"})' =>
                    script'[c].digest \in seen'[c]
    BY <1>0, <1>5, <2>2 DEF Onwards, Known, UnderWay, Over, TaskAt
  <2>3. ASSUME s \in Creations
        PROVE  /\ UnderWay(s)' => tag' \in seen'[s]
               /\ (TaskAt(s, "list") \/ TaskAt(s, "pull") \/ TaskAt(s, "create") \/ task[s].op \in {"pull", "create"})' =>
                    script'[s].digest \in seen'[s]
    <3>1. UnderWay(s)' => UnderWay(s)
      BY <1>5, <2>3, TaskConstants DEF Onwards, Goes, UnderWay, Over, TaskAt
    <3>2. (TaskAt(s, "list") \/ TaskAt(s, "pull") \/ TaskAt(s, "create") \/ task[s].op \in {"pull", "create"})' =>
            TaskAt(s, "list") \/ TaskAt(s, "pull") \/ TaskAt(s, "create") \/ task[s].op \in {"pull", "create"}
      BY <1>5, <2>3, TaskConstants DEF Onwards, Goes, TaskAt, Tasked
    <3> QED BY <1>5, <2>3, <3>1, <3>2 DEF Onwards, Known
  <2> QED BY <2>1, <2>2, <2>3 DEF Known
<1>6. ASSUME NEW s \in Scripts, TaskEnds(s) PROVE Known' /\ FilesAreNamed'
  <2>1. /\ UNCHANGED <<tag, script, seen>> /\ task[s].st = "running"
        /\ \A q \in Scripts : task'[q].op = task[q].op /\ (task'[q].st = "running" => task[q].st = "running")
    <3>1. /\ UNCHANGED <<tag, script, seen>> /\ task[s].st = "running"
          /\ \E st \in {"OK", "error"} : task' = [task EXCEPT ![s].st = st]
      BY <1>6 DEF TaskEnds
    <3> QED BY <3>1 DEF TaskTypeOK
  <2>2. Known'
    BY <1>0, <2>1 DEF Known, UnderWay, Over, TaskAt
  <2>3. FilesAreNamed'
    <3>1. CASE UNCHANGED <<files, astray>>
      BY <3>1 DEF FilesAreNamed
    <3>2. CASE Effect(s) /\ task[s].op = "pull"
      <4>1. (files' = files \/ files' = [files EXCEPT ![FileOf(s)] = tag]) /\ astray' = (astray \/ tag # script[s].digest)
        BY <3>2 DEF Effect, PullIntoDocker, PullOntoStorage
      <4> QED BY <4>1 DEF FilesAreNamed, FileOf, TaskTypeOK
    <3> QED BY <1>6, <3>1, <3>2 DEF TaskEnds, Effect
  <2> QED BY <2>2, <2>3
<1>7. ASSUME NEW s \in Scripts, StoreId(s) \/ Configure(s) PROVE Known' /\ FilesAreNamed'
  <2>1. /\ UNCHANGED <<tag, files, task, seen, astray>>
        /\ \E to \in {"start", "status", "failed"} : TaskGoto(s, to)
        /\ TaskAt(s, "store") \/ s \notin Creations
    BY <1>7, TaskConstants DEF StoreId, Configure, TaskFails, CallFails
  <2>2. /\ script'[s].pc \in {"start", "status", "failed"} /\ script'[s].digest = script[s].digest
        /\ \A q \in Scripts : q # s => script'[q] = script[q]
    BY <2>1, ScriptMoves
  <2> QED BY <1>0, <2>1, <2>2 DEF Known, FilesAreNamed, UnderWay, Over, TaskAt
<1> HIDE DEF TaskInv
<1> QED BY <1>1, <1>2, <1>3, <1>4, <1>5, <1>6, <1>7, TaskSteps

\* A guest is made from the image that its creation has found or pulled, and no pull
\* of another creation can put one there that the tag has not had since.
LEMMA GuestsMadeStep == TaskInv /\ [TaskNext]_taskVars => Fetches' /\ GuestsMade'
<1> SUFFICES ASSUME TaskInv, [TaskNext]_taskVars PROVE Fetches' /\ GuestsMade'
  OBVIOUS
<1>0. Creations \subseteq Scripts
  BY DEF Scripts
<1> USE DEF TaskInv
<1> DEFINE MadeAt(c) == /\ vm[c].image # 0 => IF vm[c].lost THEN vm[c].image \in had[c] ELSE TheTags(c, vm[c].image)
                        /\ TaskAt(c, "ready") => vm[c].image = 0
                        /\ Making(c) => ~vm[c].stored
                        /\ vm[c].lost => vm[c].stored /\ client = "docker"
                        /\ (TaskAt(c, "creating") /\ task[c].st = "OK") \/ TaskAt(c, "store") \/ (vm[c].stored /\ ~vm[c].lost)
                             => vm[c].image # 0
           FetchedAt(c) == Fetched(c) => TheTags(c, ImageFor(c))
\* A creation that stands still keeps its image.
<1>1. ASSUME NEW c \in Creations, UNCHANGED <<script[c], task[c], vm[c], client, files, pulled>>,
             seen[c] \subseteq seen'[c], had[c] \subseteq had'[c], astray => astray'
      PROVE  FetchedAt(c)' /\ MadeAt(c)'
  BY <1>1 DEF Fetches, GuestsMade, Making, Fetched, TheTags, ImageFor, FileOf, TaskAt
<1>2. CASE UNCHANGED taskVars
  BY <1>1, <1>2 DEF taskVars, Fetches, GuestsMade
<1>3. ASSUME NEW v \in Versions, Push(v) PROVE Fetches' /\ GuestsMade'
  <2>1. \A c \in Creations : seen[c] \subseteq seen'[c] /\ had[c] \subseteq had'[c]
    BY <1>0, <1>3 DEF Push
  <2> QED BY <1>1, <1>3, <2>1 DEF Push, Fetches, GuestsMade
<1>4. ASSUME NEW s \in Scripts, Begin(s) PROVE Fetches' /\ GuestsMade'
  <2>1. /\ script'[s].pc = "digest" /\ \A q \in Scripts : q # s => script'[q] = script[q] /\ seen'[q] = seen[q] /\ had'[q] = had[q]
        /\ UNCHANGED <<client, files, pulled, vm, task, astray>> /\ task[s] = NoTask /\ s \in Creations
        /\ TaskAt(s, "ready")
    BY <1>4, ScriptMoves DEF Begin, Tasked, TaskTypeOK
  <2>2. vm[s].image = 0 /\ ~vm[s].stored /\ ~vm[s].lost
    BY <2>1 DEF GuestsMade, Making, TaskAt
  <2>3. FetchedAt(s)' /\ MadeAt(s)'
    BY <2>1, <2>2 DEF Fetched, TaskAt, NoTask
  <2>4. \A c \in Creations : c # s => FetchedAt(c)' /\ MadeAt(c)'
    BY <1>0, <1>1, <2>1
  <2> QED BY <2>3, <2>4 DEF Fetches, GuestsMade
<1>5. ASSUME NEW s \in Scripts, GetImageDigest(s), script' = [script EXCEPT ![s] = [pc |-> "list", digest |-> tag]]
      PROVE  Fetches' /\ GuestsMade'
  <2>1. UNCHANGED <<client, files, pulled, vm, task, astray, seen, had>> /\ TaskAt(s, "digest") /\ task[s] = NoTask
    BY <1>5 DEF GetImageDigest, Tasked
  <2>2. script'[s].pc = "list" /\ \A q \in Scripts : q # s => script'[q] = script[q]
    BY <1>5 DEF TaskTypeOK
  <2>3. s \in Creations => FetchedAt(s)' /\ MadeAt(s)'
    BY <2>1, <2>2 DEF Fetched, TaskAt, NoTask, GuestsMade, Making, TheTags
  <2>4. \A c \in Creations : c # s => FetchedAt(c)' /\ MadeAt(c)'
    BY <1>0, <1>1, <2>1, <2>2
  <2> QED BY <2>3, <2>4 DEF Fetches, GuestsMade
<1>6. ASSUME NEW s \in Scripts, NEW to, NEW t, Onwards(s, to, t), Goes(s, to, t) PROVE Fetches' /\ GuestsMade'
  <2>1. ASSUME NEW c \in Creations, c # s PROVE FetchedAt(c)' /\ MadeAt(c)'
    <3>1. UNCHANGED <<script[c], task[c], vm, client, files, pulled, seen, had, astray>>
      BY <1>0, <1>6, <2>1 DEF Onwards
    <3> QED BY <1>1, <3>1
  <2>2. ASSUME s \in Creations PROVE FetchedAt(s)' /\ MadeAt(s)'
    <3>1. /\ UNCHANGED <<client, files, pulled, seen, had, astray, vm>>
          /\ script'[s].pc = to /\ script'[s].digest = script[s].digest /\ task'[s] = t
      BY <1>6, <2>2 DEF Onwards
    <3>2. CASE to = "create" /\ TaskAt(s, "list") /\ client # "docker" /\ FileOf(s) \in Versions
               /\ files[FileOf(s)] # 0 /\ t = task[s]
      <4>1. files[FileOf(s)] = FileOf(s) \/ astray
        BY <3>2 DEF FilesAreNamed
      <4>2. FileOf(s) \in seen[s]
        BY <2>2, <3>2 DEF Known, FileOf
      <4>3. FetchedAt(s)'
        BY <3>1, <3>2, <4>1, <4>2 DEF TheTags, ImageFor, FileOf
      <4>4. MadeAt(s)'
        BY <2>2, <3>1, <3>2 DEF GuestsMade, Making, TaskAt, TheTags
      <4> QED BY <4>3, <4>4
    <3>3. ASSUME ~(to = "create" /\ TaskAt(s, "list")) PROVE FetchedAt(s)'
      <4>1. Fetched(s)' => Fetched(s)
        BY <1>6, <2>2, <3>1, <3>3, TaskConstants DEF Goes, Fetched, TaskAt, Tasked, NoTask
      <4> QED BY <2>2, <3>1, <4>1 DEF Fetches, TheTags, ImageFor, FileOf
    <3>4. MadeAt(s)'
      <4>1. vm'[s].image # 0 => IF vm'[s].lost THEN vm'[s].image \in had'[s] ELSE TheTags(s, vm[s].image)'
        BY <2>2, <3>1 DEF GuestsMade, TheTags
      <4>2. ~TaskAt(s, "ready")' /\ (Making(s)' => Making(s))
        BY <1>6, <2>2, <3>1, TaskConstants DEF Goes, Making, TaskAt, Tasked
      <4>3. (TaskAt(s, "creating") /\ task[s].st = "OK")' \/ TaskAt(s, "store")' => 
            (TaskAt(s, "creating") /\ task[s].st = "OK") \/ TaskAt(s, "store")
        BY <1>6, <2>2, <3>1, TaskConstants DEF Goes, TaskAt
      <4> QED BY <2>2, <3>1, <4>1, <4>2, <4>3 DEF GuestsMade
    <3> QED BY <1>6, <3>2, <3>3, <3>4 DEF Goes, TaskAt
  <2> QED BY <2>1, <2>2 DEF Fetches, GuestsMade
<1>7. ASSUME NEW s \in Scripts, TaskEnds(s) PROVE Fetches' /\ GuestsMade'
  <2>1. /\ UNCHANGED <<client, tag, script, seen, had>> /\ task[s].st = "running"
        /\ \A q \in Scripts : q # s => task'[q] = task[q]
        /\ task'[s].op = task[s].op
    BY <1>7 DEF TaskEnds, TaskTypeOK
  <2>2. CASE UNCHANGED <<files, pulled, vm, astray>> /\ task'[s].st = "error"
    <3>1. \A c \in Creations : c # s => FetchedAt(c)' /\ MadeAt(c)'
      BY <1>0, <1>1, <2>1, <2>2
    <3>2. s \in Creations => FetchedAt(s)' /\ MadeAt(s)'
      BY <2>1, <2>2 DEF Fetches, GuestsMade, Making, Fetched, TheTags, ImageFor, FileOf, TaskAt, Tasked
    <3> QED BY <3>1, <3>2 DEF Fetches, GuestsMade
  <2>3. CASE Effect(s) /\ task[s].op = "pull" /\ task'[s].st = "OK"
    <3>1. s \in Creations /\ UNCHANGED vm /\ astray' = (astray \/ tag # script[s].digest)
      BY <2>3, TaskConstants DEF Effect, Tasked, Scripts
    <3>2. tag \in Versions /\ tag # 0 /\ FileOf(s) \in Versions
      BY <2>3, <3>1, ImageType, TaskConstants DEF TaskTypeOK
    <3>3. ImageFor(s)' = tag
      BY <2>1, <2>3, <3>2 DEF Effect, PullIntoDocker, PullOntoStorage, ImageFor, FileOf, TaskTypeOK
    <3>4. \A c \in Creations : ImageFor(c)' \in {ImageFor(c), tag} \/ FileOf(c) \notin Versions
      BY <2>1, <2>3, <3>2 DEF Effect, PullIntoDocker, PullOntoStorage, ImageFor, FileOf, TaskTypeOK
    <3>5. ASSUME NEW c \in Creations PROVE FetchedAt(c)'
      <4>1. CASE c = s
        <5>1. tag \in seen[s]
          BY <2>1, <3>1 DEF Known, UnderWay
        <5> QED BY <2>1, <3>2, <3>3, <4>1, <5>1 DEF TheTags
      <4>2. CASE c # s /\ Fetched(c)
        <5>1. tag \in seen[c] /\ (TaskAt(c, "create") \/ task[c].op \in {"pull", "create"})
          BY <1>0, <4>2 DEF Known, UnderWay, Over, Fetched, TaskAt, Tasked
        <5>2. ImageFor(c)' \in {ImageFor(c), tag}
          BY <3>4, <5>1, ImageType
        <5>3. TheTags(c, ImageFor(c))
          BY <4>2 DEF Fetches
        <5> QED BY <2>1, <3>1, <3>2, <5>1, <5>2, <5>3 DEF TheTags
      <4>3. CASE c # s /\ ~Fetched(c)
        BY <1>0, <2>1, <4>3 DEF Fetched, TaskAt
      <4> QED BY <4>1, <4>2, <4>3
    <3>6. ASSUME NEW c \in Creations PROVE MadeAt(c)'
      <4>1. TaskAt(c, "creating") => task[c].op = "create"
        BY <1>0 DEF Tasked
      <4>2. c # s => task'[c] = task[c]
        BY <1>0, <2>1
      <4> QED BY <2>1, <2>3, <3>1, <4>1, <4>2 DEF GuestsMade, Making, TheTags, TaskAt
    <3> QED BY <3>5, <3>6 DEF Fetches, GuestsMade
  <2>4. CASE Effect(s) /\ task[s].op = "create" /\ task'[s].st = "OK"
    <3>1. s \in Creations /\ vm' = [vm EXCEPT ![s].image = ImageFor(s)] /\ UNCHANGED <<files, pulled, astray>>
      BY <2>4, TaskConstants DEF Effect, Tasked, Scripts
    <3>2. TheTags(s, ImageFor(s))
      BY <2>1, <2>4, <3>1 DEF Fetches, Fetched
    <3>3. /\ vm'[s].image = ImageFor(s) /\ vm'[s].stored = vm[s].stored /\ vm'[s].lost = vm[s].lost
          /\ \A c \in Creations : c # s => vm'[c] = vm[c]
      BY <3>1 DEF TaskTypeOK
    <3>4. \A c \in Creations : c # s => FetchedAt(c)' /\ MadeAt(c)'
      BY <1>0, <1>1, <2>1, <3>1, <3>3
    <3>5. FetchedAt(s)' /\ MadeAt(s)'
      <4>1. ~TaskAt(s, "ready")
        BY <2>1 DEF Tasked, NoTask
      <4>2. TheTags(s, ImageFor(s))' /\ TheTags(s, vm[s].image)' /\ vm'[s].image # 0
        BY <2>1, <3>1, <3>2, <3>3 DEF TheTags, ImageFor, FileOf
      <4>3. (Making(s)' => ~vm'[s].stored) /\ (vm'[s].lost => vm'[s].stored /\ client' = "docker")
        BY <2>1, <3>1, <3>3 DEF GuestsMade, Making
      <4>4. vm'[s].lost => vm'[s].image \in had'[s]
        BY <2>1, <3>1, <3>2, <3>3, <4>3 DEF TheTags, HadSince
      <4> QED BY <2>1, <4>1, <4>2, <4>3, <4>4 DEF TaskAt
    <3> QED BY <3>4, <3>5 DEF Fetches, GuestsMade
  <2>5. CASE Effect(s) /\ task[s].op \notin {"pull", "create"} /\ task'[s].st = "OK"
    <3>1. vm' = [vm EXCEPT ![GuestOf(s)].on = (task[s].op = "start")] /\ UNCHANGED <<files, pulled, astray>>
      BY <2>5 DEF Effect
    <3>2. \A c \in Creations : vm'[c].image = vm[c].image /\ vm'[c].stored = vm[c].stored /\ vm'[c].lost = vm[c].lost
      BY <3>1 DEF TaskTypeOK
    <3>3. ASSUME NEW c \in Creations PROVE FetchedAt(c)' /\ MadeAt(c)'
      <4>1. c # s => task'[c] = task[c]
        BY <1>0, <2>1
      <4>2. TaskAt(c, "creating") => task[c].op = "create"
        BY <1>0 DEF Tasked
      <4>3. TaskAt(c, "pulling") => task[c].op = "pull"
        BY <1>0 DEF Tasked
      <4>4. FetchedAt(c)'
        BY <2>1, <2>5, <3>1, <4>1, <4>3 DEF Fetches, Fetched, TheTags, ImageFor, FileOf, TaskAt
      <4>5. MadeAt(c)'
        BY <2>1, <2>5, <3>1, <3>2, <4>1, <4>2 DEF GuestsMade, Making, TheTags, TaskAt
      <4> QED BY <4>4, <4>5
    <3> QED BY <3>3 DEF Fetches, GuestsMade
  <2>6. (Effect(s) /\ task'[s].st = "OK") \/ (UNCHANGED <<files, pulled, vm, astray>> /\ task'[s].st = "error")
    BY <1>7 DEF TaskEnds, TaskTypeOK
  <2> QED BY <2>2, <2>3, <2>4, <2>5, <2>6
<1>8. ASSUME NEW s \in Scripts, StoreId(s) PROVE Fetches' /\ GuestsMade'
  <2>1. /\ UNCHANGED <<client, files, pulled, task, seen, had, astray>> /\ TaskAt(s, "store") /\ s \in Creations
        /\ \E to \in {"start", "failed"} : TaskGoto(s, to)
    BY <1>8 DEF StoreId, CallFails, Tasked, Scripts
  <2>2. /\ script'[s].pc \in {"start", "failed"} /\ script'[s].digest = script[s].digest
        /\ \A q \in Scripts : q # s => script'[q] = script[q]
    BY <2>1, ScriptMoves
  <2>3. PICK g : /\ g \in {vm[s], MadeAnew(vm[s]), Removed(vm[s])}
                 /\ g = MadeAnew(vm[s]) => client = "docker" \/ g = vm[s]
                 /\ \/ vm' = [vm EXCEPT ![s] = g] /\ script'[s].pc = "failed"
                    \/ /\ vm' = [vm EXCEPT ![s] = [g EXCEPT !.stored = TRUE]]
                       /\ g \in {vm[s], MadeAnew(vm[s])}
    BY <1>8, <2>1, ScriptMoves DEF StoreId, CallFails
  <2>4. ~vm[s].stored /\ ~vm[s].lost /\ vm[s].image # 0 /\ TheTags(s, vm[s].image)
    BY <2>1 DEF GuestsMade, Making, TaskAt
  <2>5. TheTags(s, ImageFor(s))
    BY <2>1 DEF Fetches, Fetched
  <2>6. g \in Guest /\ ~g.lost /\ ~g.stored /\ (g.image # 0 => TheTags(s, g.image))
        /\ (g \in {vm[s], MadeAnew(vm[s])} => g.image # 0)
    <3>1. vm[s] \in Guest /\ pulled \in Versions \cup {0}
      BY <2>1 DEF TaskTypeOK, Guest
    <3>2. CASE g = vm[s]
      BY <2>4, <3>1, <3>2
    <3>3. CASE g = Removed(vm[s]) /\ g # vm[s]
      <4>1. g.image = 0 /\ g.stored = vm[s].stored /\ g.lost = vm[s].lost /\ g \in Guest
        BY <3>1, <3>3, GuestForms DEF Removed, Guest
      <4>2. g # MadeAnew(vm[s]) \/ pulled = 0
        BY <3>1, <4>1 DEF MadeAnew, Guest
      <4>3. pulled = 0 => g # MadeAnew(vm[s]) \/ client # "docker"
        BY <2>5 DEF TheTags, ImageFor
      <4> QED BY <2>3, <2>4, <3>3, <4>1, <4>2, <4>3
    <3>4. CASE g = MadeAnew(vm[s]) /\ client = "docker"
      <4>1. g.image = pulled /\ g.stored = vm[s].stored /\ g.lost = vm[s].lost /\ g \in Guest
        BY <3>1, <3>4, GuestForms DEF MadeAnew, Guest
      <4>2. TheTags(s, pulled) /\ pulled # 0
        BY <2>5, <3>4 DEF ImageFor, TheTags
      <4> QED BY <2>4, <4>1, <4>2
    <3> QED BY <2>3, <3>2, <3>3, <3>4
  <2>7. /\ vm'[s].image = g.image /\ ~vm'[s].lost /\ (vm'[s].stored => g.image # 0)
        /\ \A c \in Creations : c # s => vm'[c] = vm[c]
    BY <2>1, <2>3, <2>6 DEF TaskTypeOK, Guest
  <2>8. FetchedAt(s)' /\ MadeAt(s)'
    <3>1. Fetched(s)' => Fetched(s)
      BY <2>1, <2>2 DEF Fetched, TaskAt
    <3>2. FetchedAt(s)'
      BY <2>1, <2>2, <2>5 DEF TheTags, ImageFor, FileOf
    <3>3. ~TaskAt(s, "ready")' /\ ~TaskAt(s, "creating")' /\ ~TaskAt(s, "store")' /\ ~Making(s)'
      BY <2>2 DEF TaskAt, Making
    <3>4. vm'[s].image # 0 => TheTags(s, vm[s].image)'
      BY <2>1, <2>6, <2>7 DEF TheTags
    <3> QED BY <2>7, <3>2, <3>3, <3>4
  <2>9. \A c \in Creations : c # s => FetchedAt(c)' /\ MadeAt(c)'
    BY <1>0, <1>1, <2>1, <2>2, <2>7
  <2> QED BY <2>8, <2>9 DEF Fetches, GuestsMade
<1>9. ASSUME NEW s \in Scripts, Configure(s) PROVE Fetches' /\ GuestsMade'
  <2>1. /\ UNCHANGED <<client, files, pulled, task, seen, had, astray>> /\ s \notin Creations
        /\ First \in Creations /\ vm[First].stored /\ \E to \in {"status", "failed"} : TaskGoto(s, to)
    BY <1>9, TaskConstants DEF Configure, TaskFails, CallFails
  <2>2. \A c \in Creations : script'[c] = script[c]
    BY <1>0, <2>1, ScriptMoves
  <2>3. PICK g : /\ vm' = [vm EXCEPT ![First] = g]
                 /\ \/ g = vm[First]
                    \/ client = "docker" /\ ~vm[First].lost /\ (g = [vm[First] EXCEPT !.on = FALSE]
                         \/ g = [Removed(vm[First]) EXCEPT !.lost = TRUE]
                         \/ g = [MadeAnew(vm[First]) EXCEPT !.lost = TRUE])
    <3>1. vm = [vm EXCEPT ![First] = vm[First]]
      BY <2>1 DEF TaskTypeOK
    <3> QED BY <1>9, <3>1 DEF Configure, MayConfigure, Interrupted
  <2>4. vm[First] \in Guest /\ pulled \in Versions \cup {0}
    BY <2>1 DEF TaskTypeOK, Guest
  <2>5. vm'[First] = g /\ \A c \in Creations : c # First => vm'[c] = vm[c]
    BY <2>1, <2>3 DEF TaskTypeOK
  <2>6. \A c \in Creations : c # First => FetchedAt(c)' /\ MadeAt(c)'
    BY <1>1, <2>1, <2>2, <2>5
  <2>7. FetchedAt(First)'
    BY <2>1, <2>2 DEF Fetches, Fetched, TheTags, ImageFor, FileOf, TaskAt
  <2>8. ~Making(First) /\ ~Making(First)'
    BY <2>1, <2>2 DEF GuestsMade, Making
  <2>9. MadeAt(First)'
    <3>1. CASE g = vm[First]
      BY <1>1, <2>1, <2>2, <2>5, <3>1
    <3>2. CASE client = "docker" /\ ~vm[First].lost /\ g = [vm[First] EXCEPT !.on = FALSE]
      <4>1. g.image = vm[First].image /\ g.stored = vm[First].stored /\ ~g.lost
        BY <2>4, <3>2 DEF Guest
      <4> QED BY <2>1, <2>2, <2>5, <2>8, <3>2, <4>1 DEF GuestsMade, Making, TheTags, TaskAt
    <3>3. CASE client = "docker" /\ ~vm[First].lost /\ g = [Removed(vm[First]) EXCEPT !.lost = TRUE]
      <4>1. g.image = 0 /\ g.stored /\ g.lost
        BY <2>1, <2>4, <3>3 DEF Guest, Removed
      <4> QED BY <2>1, <2>5, <2>8, <3>3, <4>1 DEF Making, TaskAt
    <3>4. CASE client = "docker" /\ ~vm[First].lost /\ g = [MadeAnew(vm[First]) EXCEPT !.lost = TRUE]
      <4>1. g.image = pulled /\ g.stored /\ g.lost
        BY <2>1, <2>4, <3>4 DEF Guest, MadeAnew
      <4>2. vm[First].image # 0 /\ pulled \in had[First]
        BY <2>1, <3>4 DEF GuestsMade, HadSince
      <4> QED BY <2>1, <2>5, <2>8, <3>4, <4>1, <4>2 DEF Making, TaskAt
    <3> QED BY <2>3, <3>1, <3>2, <3>3, <3>4
  <2> QED BY <2>6, <2>7, <2>9 DEF Fetches, GuestsMade
<1> HIDE DEF TaskInv
<1> QED BY <1>2, <1>3, <1>4, <1>5, <1>6, <1>7, <1>8, <1>9, TaskSteps

\* Docker's local tag is of a version that every creation which has an image has had.
LEMMA HadSinceStep == TaskInv /\ [TaskNext]_taskVars => HadSince'
<1> SUFFICES ASSUME TaskInv, [TaskNext]_taskVars PROVE HadSince'
  OBVIOUS
<1>0. Creations \subseteq Scripts
  BY DEF Scripts
<1> USE DEF TaskInv
<1> DEFINE Imaged(c) == Fetched(c) \/ vm[c].image # 0
<1>1. ASSUME UNCHANGED <<client, tag, pulled, seen, had>>,
             client = "docker" => \A c \in Creations : Imaged(c)' => Imaged(c)
      PROVE  HadSince'
  BY <1>1 DEF HadSince
\* Of an image there has been a tag.
<1>2. ASSUME client = "docker", NEW c \in Creations, Imaged(c) PROVE tag \in had[c]
  <2>1. had[c] # {}
    BY <1>2 DEF Fetches, GuestsMade, TheTags, HadSince
  <2> QED BY <2>1 DEF HadSince
<1>3. CASE UNCHANGED taskVars
  BY <1>1, <1>3 DEF taskVars, Fetched, TaskAt
<1>4. ASSUME NEW v \in Versions, Push(v) PROVE HadSince'
  <2>1. UNCHANGED <<client, pulled, vm, script, task>> /\ tag' = v
    BY <1>4 DEF Push
  <2>2. \A c \in Creations : /\ seen'[c] = IF UnderWay(c) THEN seen[c] \cup {v} ELSE seen[c]
                             /\ had'[c] = IF had[c] = {} THEN {} ELSE had[c] \cup {v}
    BY <1>0, <1>4 DEF Push, UnderWay
  <2>3. \A c \in Creations : UnderWay(c) => had[c] # {}
    BY DEF Known, HadSince
  <2>4. \A c \in Creations : Fetched(c)' = Fetched(c)
    BY <2>1 DEF Fetched, TaskAt
  <2> QED BY <2>1, <2>2, <2>3, <2>4 DEF HadSince
<1>5. ASSUME NEW s \in Scripts, Begin(s) PROVE HadSince'
  <2>1. /\ script'[s].pc = "digest" /\ \A q \in Scripts : q # s => script'[q] = script[q]
        /\ UNCHANGED <<client, tag, pulled, vm, task>> /\ task[s] = NoTask /\ s \in Creations /\ TaskAt(s, "ready")
    BY <1>5, ScriptMoves DEF Begin, Tasked
  <2>2. /\ seen'[s] = {tag} /\ had'[s] = {tag}
        /\ \A q \in Scripts : q # s => seen'[q] = seen[q] /\ had'[q] = had[q]
    BY <1>5 DEF Begin, TaskTypeOK
  <2>3. ~Fetched(s)' /\ vm'[s].image = 0
    BY <2>1 DEF Fetched, TaskAt, NoTask, GuestsMade
  <2>4. \A c \in Creations : c # s => Fetched(c)' = Fetched(c)
    BY <1>0, <2>1 DEF Fetched, TaskAt
  <2> QED BY <1>0, <2>1, <2>2, <2>3, <2>4 DEF HadSince
<1>6. ASSUME NEW s \in Scripts, GetImageDigest(s), script' = [script EXCEPT ![s] = [pc |-> "list", digest |-> tag]]
      PROVE  HadSince'
  <2>1. UNCHANGED <<client, tag, pulled, vm, task, seen, had>> /\ task[s] = NoTask
    BY <1>6 DEF GetImageDigest, Tasked
  <2>2. script'[s].pc = "list" /\ \A q \in Scripts : q # s => script'[q] = script[q]
    BY <1>6 DEF TaskTypeOK
  <2>3. \A c \in Creations : Fetched(c)' => Fetched(c)
    BY <1>0, <2>1, <2>2 DEF Fetched, TaskAt, NoTask
  <2> QED BY <1>1, <2>1, <2>3
<1>7. ASSUME NEW s \in Scripts, NEW to, NEW t, Onwards(s, to, t), Goes(s, to, t) PROVE HadSince'
  <2>1. \A c \in Creations : c # s => Fetched(c)' = Fetched(c)
    BY <1>0, <1>7 DEF Onwards, Fetched, TaskAt
  <2>2. s \in Creations /\ client = "docker" /\ Fetched(s)' => Fetched(s)
    BY <1>7, TaskConstants DEF Onwards, Goes, Fetched, TaskAt, Tasked, NoTask
  <2> QED BY <1>1, <1>7, <2>1, <2>2 DEF Onwards
<1>8. ASSUME NEW s \in Scripts, TaskEnds(s) PROVE HadSince'
  <2>1. /\ UNCHANGED <<client, tag, script, seen, had>> /\ task[s].st = "running"
        /\ \A q \in Scripts : q # s => task'[q] = task[q]
        /\ task'[s].op = task[s].op
    BY <1>8 DEF TaskEnds, TaskTypeOK
  <2>2. \A c \in Creations : c # s => Fetched(c)' = Fetched(c)
    BY <1>0, <2>1 DEF Fetched, TaskAt
  <2>3. CASE UNCHANGED <<pulled, vm>> /\ task'[s].st = "error"
    <3>1. Fetched(s)' => Fetched(s)
      BY <2>1, <2>3 DEF Fetched, TaskAt
    <3> QED BY <1>1, <2>1, <2>2, <2>3, <3>1
  <2>4. CASE Effect(s) /\ task[s].op = "pull"
    <3>1. s \in Creations /\ UNCHANGED vm
      BY <2>4, TaskConstants DEF Effect, Tasked, Scripts
    <3>2. client = "docker" => pulled' = tag
      BY <2>4 DEF Effect, PullIntoDocker
    <3>3. tag \in had[s]
      BY <2>1, <3>1 DEF Known, UnderWay, HadSince
    <3>4. \A c \in Creations : client = "docker" /\ Imaged(c)' => tag \in had[c]
      BY <1>2, <2>2, <3>1, <3>3
    <3> QED BY <2>1, <3>2, <3>4 DEF HadSince
  <2>5. CASE Effect(s) /\ task[s].op # "pull" /\ task'[s].st = "OK"
    <3>1. UNCHANGED pulled
      BY <2>5 DEF Effect
    <3>2. \A c \in Creations : vm'[c].image # 0 => Imaged(c)
      <4>1. CASE task[s].op = "create"
        <5>1. vm' = [vm EXCEPT ![s].image = ImageFor(s)] /\ (s \in Creations => Fetched(s))
          BY <2>1, <2>5, <4>1 DEF Effect, Fetched
        <5>2. \A c \in Creations : c # s => vm'[c] = vm[c]
          BY <5>1 DEF TaskTypeOK
        <5> QED BY <5>1, <5>2
      <4>2. CASE task[s].op # "create"
        <5>1. vm' = [vm EXCEPT ![GuestOf(s)].on = (task[s].op = "start")]
          BY <2>5, <4>2 DEF Effect
        <5> QED BY <5>1 DEF TaskTypeOK
      <4> QED BY <4>1, <4>2
    <3>3. s \in Creations => (Fetched(s)' => Fetched(s))
      BY <2>1, <2>5 DEF Fetched, TaskAt, Tasked
    <3> QED BY <1>1, <2>1, <2>2, <3>1, <3>2, <3>3
  <2>6. (Effect(s) /\ task'[s].st = "OK") \/ (UNCHANGED <<pulled, vm>> /\ task'[s].st = "error")
    BY <1>8 DEF TaskEnds, TaskTypeOK
  <2> QED BY <2>3, <2>4, <2>5, <2>6
<1>9. ASSUME NEW s \in Scripts, StoreId(s) PROVE HadSince'
  <2>1. /\ UNCHANGED <<client, tag, pulled, task, seen, had>> /\ TaskAt(s, "store") /\ s \in Creations
        /\ \E to \in {"start", "failed"} : TaskGoto(s, to)
    BY <1>9 DEF StoreId, CallFails, Tasked, Scripts
  <2>2. script'[s].pc \in {"start", "failed"} /\ \A q \in Scripts : q # s => script'[q] = script[q]
    BY <2>1, ScriptMoves
  <2>3. \E g : vm' = [vm EXCEPT ![s] = g]
    BY <1>9 DEF StoreId
  <2>4. \A c \in Creations : c # s => vm'[c] = vm[c]
    BY <2>3 DEF TaskTypeOK
  <2>5. Fetched(s)
    BY <2>1 DEF Fetched
  <2>6. \A c \in Creations : c # s => Fetched(c)' = Fetched(c)
    BY <1>0, <2>1, <2>2 DEF Fetched, TaskAt
  <2> QED BY <1>1, <2>1, <2>4, <2>5, <2>6
<1>10. ASSUME NEW s \in Scripts, Configure(s) PROVE HadSince'
  <2>1. /\ UNCHANGED <<client, tag, pulled, task, seen, had>> /\ s \notin Creations
        /\ First \in Creations /\ vm[First].stored /\ \E to \in {"status", "failed"} : TaskGoto(s, to)
    BY <1>10, TaskConstants DEF Configure, TaskFails, CallFails
  <2>2. \A c \in Creations : script'[c] = script[c]
    BY <1>0, <2>1, ScriptMoves
  <2>3. \A c \in Creations : Fetched(c)' = Fetched(c)
    BY <2>1, <2>2 DEF Fetched, TaskAt
  <2>4. vm' = vm \/ (client = "docker" /\ ~vm[First].lost /\ \E g : vm' = [vm EXCEPT ![First] = g])
    <3>1. [vm EXCEPT ![First] = vm[First]] = vm
      BY <2>1 DEF TaskTypeOK
    <3> QED BY <1>10, <3>1 DEF Configure, MayConfigure, Interrupted
  <2>5. \A c \in Creations : vm'[c].image # 0 => vm[c].image # 0
    <3>1. CASE vm' = vm
      BY <3>1
    <3>2. CASE client = "docker" /\ ~vm[First].lost /\ \E g : vm' = [vm EXCEPT ![First] = g]
      <4>1. vm[First].image # 0
        BY <2>1, <3>2 DEF GuestsMade
      <4>2. \A c \in Creations : c # First => vm'[c] = vm[c]
        BY <3>2 DEF TaskTypeOK
      <4> QED BY <4>1, <4>2
    <3> QED BY <2>4, <3>1, <3>2
  <2> QED BY <1>1, <2>1, <2>3, <2>5
<1> HIDE DEF TaskInv
<1> QED BY <1>3, <1>4, <1>5, <1>6, <1>7, <1>8, <1>9, <1>10, TaskSteps

\* Only a reconfiguration loses the id, and it fails.
LEMMA LostByRestartStep == TaskInv /\ [TaskNext]_taskVars => LostByRestart'
<1> SUFFICES ASSUME TaskInv, [TaskNext]_taskVars, vm'[First].lost
             PROVE  \E s \in Restarts : (TaskAt(s, "status") \/ TaskAt(s, "failed"))'
  BY DEF LostByRestart
<1> USE DEF TaskInv
<1>0. First \in Creations /\ First \in Scripts /\ Restarts \subseteq Scripts /\ Creations \cap Restarts = {}
  BY TaskConstants DEF Scripts
<1>1. ASSUME NEW s \in Scripts, NEW to, TaskGoto(s, to), vm[First].lost,
             TaskAt(s, "status") \/ TaskAt(s, "failed") => to \in {"status", "failed"}
      PROVE  \E q \in Restarts : (TaskAt(q, "status") \/ TaskAt(q, "failed"))'
  BY <1>0, <1>1, ScriptMoves DEF LostByRestart, TaskAt
<1>2. CASE vm[First].lost /\ UNCHANGED script
  BY <1>2 DEF LostByRestart, TaskAt
<1>3. ASSUME NEW s \in Scripts, Begin(s) \/ ListImages(s) \/ PullOciImage(s) \/ CreateLxc(s) \/ StartLxc(s)
                                \/ GetLxcIpAddress(s) \/ StopLxc(s)
      PROVE  \E q \in Restarts : (TaskAt(q, "status") \/ TaskAt(q, "failed"))'
  <2>1. vm[First].lost /\ ~TaskAt(s, "status") /\ ~TaskAt(s, "failed") /\ \E to : TaskGoto(s, to)
    BY <1>3 DEF Begin, ListImages, PullOciImage, CreateLxc, StartLxc, GetLxcIpAddress, StopLxc, Launch,
                TaskFails, CallFails, TaskAt
  <2> QED BY <1>1, <2>1
<1>4. ASSUME NEW s \in Scripts, NEW pc \in {"pulling", "creating", "stopping", "starting"}, NEW next, WaitForTask(s, pc, next)
      PROVE  \E q \in Restarts : (TaskAt(q, "status") \/ TaskAt(q, "failed"))'
  <2>1. vm[First].lost /\ ~TaskAt(s, "status") /\ ~TaskAt(s, "failed") /\ \E to : TaskGoto(s, to)
    BY <1>4 DEF WaitForTask, TaskFails, CallFails, TaskAt
  <2> QED BY <1>1, <2>1
<1>5. ASSUME NEW s \in Scripts, GetLxcStatus(s)
      PROVE  \E q \in Restarts : (TaskAt(q, "status") \/ TaskAt(q, "failed"))'
  <2>1. vm[First].lost /\ TaskGoto(s, "failed")
    BY <1>5 DEF GetLxcStatus, TaskFails, CallFails
  <2> QED BY <1>1, <2>1
<1>6. ASSUME NEW s \in Scripts, GetImageDigest(s)
      PROVE  \E q \in Restarts : (TaskAt(q, "status") \/ TaskAt(q, "failed"))'
  <2>1. vm[First].lost /\ ~TaskAt(s, "status") /\ ~TaskAt(s, "failed")
        /\ \A q \in Scripts : q # s => script'[q] = script[q]
    BY <1>6, ScriptMoves DEF GetImageDigest, CallFails, TaskAt, TaskTypeOK
  <2> QED BY <1>0, <2>1 DEF LostByRestart, TaskAt
<1>7. ASSUME NEW s \in Scripts, StoreId(s)
      PROVE  \E q \in Restarts : (TaskAt(q, "status") \/ TaskAt(q, "failed"))'
  <2>1. TaskAt(s, "store") /\ s \in Creations /\ \E to : TaskGoto(s, to)
    BY <1>7 DEF StoreId, CallFails, Tasked, Scripts
  <2>2. vm[First].lost
    <3>1. vm[s] \in Guest
      BY <2>1 DEF TaskTypeOK, Guest
    <3>2. \E g \in {vm[s], MadeAnew(vm[s]), Removed(vm[s])} :
            vm' = [vm EXCEPT ![s] = g] \/ vm' = [vm EXCEPT ![s] = [g EXCEPT !.stored = TRUE]]
      BY <1>7 DEF StoreId
    <3>3. \A g \in {vm[s], MadeAnew(vm[s]), Removed(vm[s])} :
            g.lost = vm[s].lost /\ [g EXCEPT !.stored = TRUE].lost = vm[s].lost
      BY <3>1 DEF MadeAnew, Removed, Guest
    <3>4. vm'[First].lost = vm[First].lost
      <4>1. CASE s = First
        BY <1>0, <3>2, <3>3, <4>1 DEF TaskTypeOK
      <4>2. CASE s # First
        BY <1>0, <3>2, <4>2 DEF TaskTypeOK
      <4> QED BY <4>1, <4>2
    <3> QED BY <3>4
  <2> QED BY <1>1, <2>1, <2>2 DEF TaskAt
<1>8. ASSUME NEW s \in Scripts, Configure(s)
      PROVE  \E q \in Restarts : (TaskAt(q, "status") \/ TaskAt(q, "failed"))'
  <2>1. s \in Restarts /\ \E to \in {"status", "failed"} : TaskGoto(s, to)
    BY <1>8 DEF Configure, TaskFails, CallFails
  <2>2. script'[s].pc \in {"status", "failed"}
    BY <2>1, ScriptMoves
  <2> QED BY <2>1, <2>2 DEF TaskAt
<1>9. ASSUME NEW s \in Scripts, TaskEnds(s) PROVE vm[First].lost /\ UNCHANGED script
  <2>1. UNCHANGED script /\ (vm' = vm \/ (\E v : vm' = [vm EXCEPT ![s].image = v]) \/ \E v : vm' = [vm EXCEPT ![GuestOf(s)].on = v])
    BY <1>9 DEF TaskEnds, Effect
  <2>2. vm[First] \in Guest
    BY <1>0 DEF TaskTypeOK, Guest
  <2>3. CASE vm' = vm
    BY <2>1, <2>3
  <2>4. ASSUME NEW v, vm' = [vm EXCEPT ![s].image = v] PROVE vm'[First].lost = vm[First].lost
    <3>1. vm' = [vm EXCEPT ![s] = [vm[s] EXCEPT !.image = v]]
      BY <2>4
    <3>2. First \in DOMAIN vm
      BY <1>0 DEF TaskTypeOK
    <3>3. vm'[First] = IF s = First THEN [vm[First] EXCEPT !.image = v] ELSE vm[First]
      BY <3>1, <3>2
    <3> QED BY <2>2, <3>3 DEF Guest
  <2>5. ASSUME NEW v, vm' = [vm EXCEPT ![GuestOf(s)].on = v] PROVE vm'[First].lost = vm[First].lost
    <3> DEFINE g == GuestOf(s)
    <3>1. vm' = [vm EXCEPT ![g] = [vm[g] EXCEPT !.on = v]]
      BY <2>5
    <3>2. First \in DOMAIN vm
      BY <1>0 DEF TaskTypeOK
    <3> HIDE DEF g
    <3>3. vm'[First] = IF g = First THEN [vm[First] EXCEPT !.on = v] ELSE vm[First]
      BY <3>1, <3>2
    <3> QED BY <2>2, <3>3 DEF Guest
  <2>6. vm'[First].lost = vm[First].lost
    BY <2>1, <2>3, <2>4, <2>5
  <2> QED BY <2>1, <2>6, <1>0
<1>10. ASSUME NEW v \in Versions, Push(v) PROVE vm[First].lost /\ UNCHANGED script
  BY <1>10 DEF Push
<1>11. CASE UNCHANGED taskVars
  BY <1>2, <1>11 DEF taskVars
<1> HIDE DEF TaskInv
<1> QED BY <1>2, <1>3, <1>4, <1>5, <1>6, <1>7, <1>8, <1>9, <1>10, <1>11 DEF TaskNext

\* Whoever leaves First stopped has its start ahead, and nothing but another that has
\* it ahead refuses that start.
LEMMA RestartedStep == TaskInv /\ [TaskNext]_taskVars => Restarted'
<1> DEFINE Ahead == \E s \in {First} \cup Restarts : HasStart(s)
           Stopped == vm[First].stored /\ ~vm[First].on /\ ~vm[First].lost
<1> SUFFICES ASSUME TaskInv, [TaskNext]_taskVars, slips' = 0, Stopped' PROVE Ahead'
  BY DEF Restarted
<1> USE DEF TaskInv
<1>0. First \in Creations /\ First \in Scripts /\ Restarts \subseteq Scripts /\ First \notin Restarts
  BY TaskConstants DEF Scripts
<1>1. ASSUME NEW s \in Scripts, CallFails(s) \/ Slip PROVE FALSE
  BY <1>1 DEF CallFails, Slip, TaskTypeOK
\* A step of a script that does not have it ahead leaves it to whoever has.
<1>2. ASSUME slips = 0, Stopped, NEW s \in Scripts, ~HasStart(s) \/ s \notin {First} \cup Restarts,
             \A q \in Scripts : q # s => script'[q] = script[q] /\ task'[q] = task[q]
      PROVE  Ahead'
  <2>1. PICK w \in {First} \cup Restarts : HasStart(w)
    BY <1>2 DEF Restarted
  <2>2. w \in Scripts /\ w # s
    BY <1>0, <1>2, <2>1
  <2>3. HasStart(w)'
    BY <1>2, <2>1, <2>2 DEF HasStart, TaskAt
  <2> QED BY <2>3
<1>3. CASE UNCHANGED taskVars
  <2>1. PICK w \in {First} \cup Restarts : HasStart(w)
    BY <1>3 DEF taskVars, Restarted
  <2>2. HasStart(w)'
    BY <1>3, <2>1 DEF HasStart, TaskAt, taskVars
  <2> QED BY <2>2
<1>4. ASSUME NEW v \in Versions, Push(v) PROVE Ahead'
  BY <1>0, <1>1, <1>4 DEF Push
<1>5. ASSUME NEW s \in Scripts, Begin(s) PROVE Ahead'
  <2>1. slips = 0 /\ Stopped /\ TaskAt(s, "ready")
    BY <1>5 DEF Begin
  <2>2. \A q \in Scripts : q # s => script'[q] = script[q] /\ task'[q] = task[q]
    BY <1>5, ScriptMoves DEF Begin
  <2> QED BY <1>2, <2>1, <2>2 DEF HasStart, TaskAt
\* What moves a script that has no start ahead, and leaves the guest alone.
<1>6. ASSUME NEW s \in Scripts, GetImageDigest(s) \/ ListImages(s) \/ GetLxcIpAddress(s) PROVE Ahead'
  <2>1. slips = 0 /\ Stopped /\ (TaskAt(s, "digest") \/ TaskAt(s, "list") \/ TaskAt(s, "address"))
    BY <1>1, <1>6 DEF GetImageDigest, ListImages, GetLxcIpAddress, TaskFails
  <2>2. \A q \in Scripts : q # s => script'[q] = script[q] /\ task'[q] = task[q]
    BY <1>6 DEF GetImageDigest, ListImages, GetLxcIpAddress, TaskFails, CallFails, TaskGoto, TaskTypeOK
  <2> QED BY <1>2, <2>1, <2>2 DEF HasStart, TaskAt
<1>7. ASSUME NEW s \in Scripts, NEW op, NEW at, NEW pc, TaskAt(s, at), Launch(s, op, pc),
             <<at, op, pc>> \in {<<"pull", "pull", "pulling">>, <<"create", "create", "creating">>,
                                <<"stop", "stop", "stopping">>}
      PROVE  Ahead'
  <2>1. slips = 0 /\ Stopped /\ ~HasStart(s)
    BY <1>7 DEF Launch, HasStart, TaskAt
  <2>2. \A q \in Scripts : q # s => script'[q] = script[q] /\ task'[q] = task[q]
    BY <1>7, ScriptMoves DEF Launch, TaskTypeOK
  <2> QED BY <1>2, <2>1, <2>2
<1>8. ASSUME NEW s \in Scripts, StartLxc(s) PROVE Ahead'
  <2>1. slips = 0 /\ Stopped /\ TaskAt(s, "start") /\ UNCHANGED vm
    BY <1>8 DEF StartLxc, Launch
  <2>2. CASE s \notin {First} \cup Restarts
    <3>1. \A q \in Scripts : q # s => script'[q] = script[q] /\ task'[q] = task[q]
      BY <1>8, ScriptMoves DEF StartLxc, Launch, TaskTypeOK
    <3> QED BY <1>2, <2>1, <2>2, <3>1
  <2>3. CASE s \in {First} \cup Restarts /\ ~TaskRefused(s, "start")
    <3>1. script'[s].pc = "starting" /\ task'[s].st = "running"
      BY <1>8, <2>3, ScriptMoves DEF StartLxc, Launch, TaskTypeOK
    <3>2. HasStart(s)'
      BY <3>1 DEF HasStart, TaskAt
    <3> QED BY <2>3, <3>2
  <2>4. CASE s \in {First} \cup Restarts /\ TaskRefused(s, "start")
    <3>1. GuestOf(s) = First
      BY <1>0, <2>4, TaskConstants DEF GuestOf
    <3>2. vm[First].image # 0 /\ ~Making(First)
      BY <1>0, <2>1 DEF GuestsMade
    <3>3. Locked(s)
      BY <2>1, <2>4, <3>1, <3>2 DEF TaskRefused, ProxmoxRefuses, DockerRefuses, DummyRefuses
    <3>4. PICK o \in Scripts \ {s} : GuestOf(o) = First /\ task[o].st = "running" /\ task[o].op # "pull"
      BY <3>1, <3>3 DEF Locked
    <3>5. o \in {First} \cup Restarts
      BY <3>4 DEF GuestOf, Scripts
    <3>6. ~(task[o].op = "create" /\ TaskAt(o, "creating"))
      BY <1>0, <3>2, <3>5 DEF Making, TaskAt, Tasked
    <3>7. HasStart(o)
      BY <2>1, <3>4, <3>6 DEF Attended, HasStart
    <3>8. script'[o] = script[o] /\ task'[o] = task[o]
      BY <1>8, <2>4, <3>4, ScriptMoves DEF StartLxc, Launch
    <3>9. HasStart(o)'
      BY <3>7, <3>8 DEF HasStart, TaskAt
    <3> QED BY <3>5, <3>9
  <2> QED BY <2>2, <2>3, <2>4
<1>9. ASSUME NEW s \in Scripts, StoreId(s) PROVE Ahead'
  <2>1. /\ \E g : vm' = [vm EXCEPT ![s] = g]
        /\ TaskGoto(s, "start") /\ UNCHANGED <<task, slips>>
        /\ s \in Creations /\ TaskAt(s, "store")
    BY <1>1, <1>9 DEF StoreId, Tasked, Scripts
  <2>2. CASE s = First
    <3>1. HasStart(First)'
      BY <2>1, <2>2, ScriptMoves DEF HasStart, TaskAt
    <3> QED BY <3>1
  <2>3. CASE s # First
    <3>1. vm'[First] = vm[First]
      BY <1>0, <2>1, <2>3 DEF TaskTypeOK
    <3>3. slips = 0 /\ Stopped
      BY <2>1, <3>1
    <3>2. \A q \in Scripts : q # s => script'[q] = script[q] /\ task'[q] = task[q]
      BY <2>1, ScriptMoves
    <3> QED BY <1>2, <2>1, <3>2, <3>3 DEF HasStart, TaskAt
  <2> QED BY <2>2, <2>3
<1>10. ASSUME NEW s \in Scripts, Configure(s) PROVE Ahead'
  <2>1. /\ UNCHANGED <<task, slips>> /\ \E to : TaskGoto(s, to)
        /\ vm' = vm \/ vm' = [vm EXCEPT ![First] = [MadeAnew(@) EXCEPT !.lost = TRUE]]
        /\ TaskAt(s, "ready")
    BY <1>1, <1>10 DEF Configure, TaskFails
  <2>2. UNCHANGED vm
    <3>1. vm[First] \in Guest
      BY <1>0 DEF TaskTypeOK, Guest
    <3>2. [MadeAnew(vm[First]) EXCEPT !.lost = TRUE].lost
      BY <3>1 DEF MadeAnew, Guest
    <3> QED BY <1>0, <2>1, <3>2 DEF TaskTypeOK
  <2>3. slips = 0 /\ Stopped /\ \A q \in Scripts : q # s => script'[q] = script[q] /\ task'[q] = task[q]
    BY <2>1, <2>2, ScriptMoves
  <2> QED BY <1>2, <2>1, <2>3 DEF HasStart, TaskAt
<1>11. ASSUME NEW s \in Scripts, GetLxcStatus(s) PROVE Ahead'
  <2>1. slips = 0 /\ Stopped /\ TaskAt(s, "status") /\ UNCHANGED task /\ \E to : TaskGoto(s, to)
    BY <1>1, <1>11 DEF GetLxcStatus, TaskFails
  <2>2. \A q \in Scripts : q # s => script'[q] = script[q] /\ task'[q] = task[q]
    BY <2>1, ScriptMoves
  <2> QED BY <1>2, <2>1, <2>2 DEF HasStart, TaskAt
<1>12. ASSUME NEW s \in Scripts, NEW pc, NEW next, WaitForTask(s, pc, next),
              <<pc, next>> \in {<<"pulling", "create">>, <<"creating", "store">>, <<"stopping", "start">>, <<"starting", "address">>}
       PROVE  Ahead'
  <2>1. /\ slips = 0 /\ Stopped /\ UNCHANGED task /\ TaskAt(s, pc)
        /\ Finished(s) /\ TaskGoto(s, next)
    BY <1>1, <1>12 DEF WaitForTask, Attended, TaskFails
  <2>2. CASE pc = "stopping"
    <3>1. s \in Restarts
      BY <2>1, <2>2 DEF Tasked, Scripts
    <3>2. HasStart(s)'
      BY <1>12, <2>1, <2>2, ScriptMoves DEF HasStart, TaskAt
    <3> QED BY <3>1, <3>2
  <2>3. CASE pc # "stopping"
    <3>1. ~HasStart(s)
      BY <1>12, <2>1, <2>3 DEF HasStart, TaskAt, Finished
    <3>2. \A q \in Scripts : q # s => script'[q] = script[q] /\ task'[q] = task[q]
      BY <2>1, ScriptMoves
    <3> QED BY <1>2, <2>1, <3>1, <3>2
  <2> QED BY <2>2, <2>3
<1>13. ASSUME NEW s \in Scripts, TaskEnds(s) PROVE Ahead'
  <2>1. /\ slips = 0 /\ UNCHANGED script /\ task[s].st = "running" /\ Effect(s)
        /\ \A q \in Scripts : q # s => script'[q] = script[q] /\ task'[q] = task[q]
    BY <1>1, <1>13 DEF TaskEnds, TaskTypeOK
  <2>2. CASE task[s].op \in {"pull", "create"}
    <3>1. ~HasStart(s)
      BY <2>1, <2>2 DEF Attended, HasStart, TaskAt
    <3>2. vm'[First].on = vm[First].on /\ vm'[First].stored = vm[First].stored /\ vm'[First].lost = vm[First].lost
      <4>1. vm' = vm \/ vm' = [vm EXCEPT ![s].image = ImageFor(s)]
        BY <2>1, <2>2 DEF Effect
      <4> DEFINE image == ImageFor(s)
      <4>2. vm' = vm \/ vm' = [vm EXCEPT ![s].image = image]
        BY <4>1
      <4> HIDE DEF image
      <4>3. vm[First] \in [image : Versions \cup {0}, on : BOOLEAN, stored : BOOLEAN, lost : BOOLEAN]
        BY <1>0 DEF TaskTypeOK
      <4>4. vm'[First] = vm[First] \/ vm'[First] = [vm[First] EXCEPT !.image = image]
        BY <1>0, <4>2 DEF TaskTypeOK
      <4> QED BY <4>3, <4>4
    <3> QED BY <1>2, <2>1, <3>1, <3>2
  <2>3. CASE task[s].op \in {"start", "stop"}
    <3> DEFINE on == task[s].op = "start"
    <3>1. vm' = [vm EXCEPT ![GuestOf(s)].on = on] /\ on \in BOOLEAN
      BY <2>1, <2>3 DEF Effect
    <3> HIDE DEF on
    <3>2. CASE GuestOf(s) # First
      <4>1. s \notin {First} \cup Restarts
        BY <1>0, <3>2, TaskConstants DEF GuestOf
      <4>2. Stopped
        BY <1>0, <3>1, <3>2 DEF TaskTypeOK
      <4> QED BY <1>2, <2>1, <4>1, <4>2
    <3>3. CASE GuestOf(s) = First
      <4>1. ~on /\ s \in {First} \cup Restarts
        BY <1>0, <3>1, <3>3 DEF TaskTypeOK, GuestOf, Scripts
      <4>2. TaskAt(s, "stopping")
        BY <2>1, <2>3, <4>1 DEF Attended, on
      <4>3. HasStart(s)'
        BY <2>1, <4>2 DEF HasStart, TaskAt
      <4> QED BY <4>1, <4>3
    <3> QED BY <3>2, <3>3
  <2>4. task[s].op # "none"
    BY <2>1 DEF Attended
  <2> QED BY <2>2, <2>3, <2>4 DEF TaskTypeOK
<1>14. ASSUME NEW s \in Scripts, PullOciImage(s) \/ CreateLxc(s) \/ StopLxc(s) PROVE Ahead'
  BY <1>7, <1>14 DEF PullOciImage, CreateLxc, StopLxc
<1> HIDE DEF TaskInv, Ahead, Stopped
<1> QED BY <1>3, <1>4, <1>5, <1>6, <1>8, <1>9, <1>10, <1>11, <1>12, <1>13, <1>14 DEF TaskNext

LEMMA TaskInvStep == TaskInv /\ [TaskNext]_taskVars => TaskInv'
BY TaskTypeStep, TaskedStep, AttendedStep, KnownStep, GuestsMadeStep, HadSinceStep, LostByRestartStep, RestartedStep
DEF TaskInv

LEMMA TaskInvMeans == TaskInv => GuestsHold
<1> SUFFICES ASSUME TaskInv PROVE GuestsHold
  OBVIOUS
<1>1. ImageIsTheTags /\ StoredIsMade
  BY DEF TaskInv, GuestsMade, TheTags, ImageIsTheTags, StoredIsMade
<1>2. RestartsEndRunning
  <2> SUFFICES ASSUME slips = 0, vm[First].stored, \A s \in Scripts : Over(s), ~vm[First].on
               PROVE  client = "docker" /\ vm[First].lost /\ \E s \in Restarts : TaskAt(s, "failed")
    BY DEF RestartsEndRunning
  <2>1. Restarts \subseteq Scripts /\ First \in Creations /\ First \in Scripts
    BY TaskConstants DEF Scripts
  <2>2. vm[First].lost
    <3> SUFFICES ASSUME ~vm[First].lost PROVE FALSE
      OBVIOUS
    <3>1. PICK s \in {First} \cup Restarts : HasStart(s)
      BY DEF TaskInv, Restarted
    <3> QED BY <2>1, <3>1 DEF HasStart, Over, TaskAt
  <2>3. client = "docker"
    BY <2>1, <2>2 DEF TaskInv, GuestsMade
  <2>4. PICK s \in Restarts : TaskAt(s, "status") \/ TaskAt(s, "failed")
    BY <2>2 DEF TaskInv, LostByRestart
  <2>5. TaskAt(s, "failed")
    BY <2>1, <2>4 DEF Over, TaskAt
  <2> QED BY <2>2, <2>3, <2>5
<1> QED BY <1>1, <1>2 DEF GuestsHold

\* Whatever scripts share a node, and whatever fails or is slow there: a container has a
\* version that its image's tag had while its creation was under way, unless a tag has
\* moved between a digest and the pull of it, and on Docker, once reconfigured, one of
\* after the creation began; a row's id is of a guest that was made; and if nothing
\* failed or was slow the container runs when its creation and its restarts are over,
\* unless a reconfiguration on Docker has lost its id, and failed.
THEOREM GuestsAreRight == TaskSpec => []GuestsHold
<1>1. TaskSpec => []TaskInv
  BY TaskInvInit, TaskInvStep, PTL DEF TaskSpec
<1> QED BY <1>1, TaskInvMeans, PTL

===============================================================================
