-------------------------------- MODULE Inventory --------------------------------
(***************************************************************************)
(* Sites, their nodes and the rows of the containers on them, while        *)
(* requests add, import and delete them at the same time.  No handler      *)
(* holds a transaction across its steps but POST /containers, whose one    *)
(* insertion counts here; what a handler has checked may have changed when *)
(* it acts, and the foreign keys and the unique index have the last word.  *)
(***************************************************************************)
EXTENDS Naturals, FiniteSets

CONSTANTS
  MaxCalls,  \* bound: requests
  Cluster,   \* nodes of the Proxmox cluster that is imported
  GuestOn,   \* guest of the cluster -> its node
  MaxNodes,  \* bound: rows of nodes ever made
  MaxWoes    \* bound: calls of Proxmox that fail

\* Every guest is on a node of the cluster, which is finite and has a node; "new" is none of
\* the guests.
ASSUME ClusterAssumption ==
  /\ IsFiniteSet(Cluster) /\ Cluster # {}
  /\ GuestOn \in [DOMAIN GuestOn -> Cluster] /\ "new" \notin DOMAIN GuestOn
  /\ MaxNodes \in Nat \ {0}

Calls == 1..MaxCalls                \* in the order they begin
Sites == {"s", "u"}
Guests == DOMAIN GuestOn
Hostnames == Guests \cup {"new"}        \* hostnames

VARIABLES
  sites,    \* sites that exist
  nodes,    \* rows of nodes: id, name, site
  rows,     \* rows of containers: hostname, site, node
  deed,     \* request -> what it is, its site, its node or row, where it is, what it read
  nextNode, \* ids of nodes
  swept,    \* history: rows that vanished without a DELETE of theirs
  woes

inventoryVars == <<sites, nodes, rows, deed, nextNode, swept, woes>>

NoDeed == [kind |-> "-", site |-> "s", on |-> 0, pc |-> "new", made |-> {}, list |-> {}]
Starts(r) == deed[r].pc = "new" /\ \A q \in 1..(r - 1) : deed[q].pc # "new"
NodesOf(s) == {n \in nodes : n.site = s}
RowsOn(id) == {w \in rows : w.node = id}
Ends(r) == deed' = [deed EXCEPT ![r] = [NoDeed EXCEPT !.pc = "over"]]
Fail(r) == Ends(r) /\ UNCHANGED <<sites, nodes, rows, nextNode, swept, woes>>

-----------------------------------------------------------------------------
(* POST /nodes, POST /containers *)

\* loadSite: the handlers below begin with the site.
LoadSite(r) ==
  /\ Starts(r)
  /\ \E s \in sites, kind \in {"node", "create", "import"} :
       deed' = [deed EXCEPT ![r] = [NoDeed EXCEPT !.kind = kind, !.site = s, !.pc = "loaded"]]
  /\ UNCHANGED <<sites, nodes, rows, nextNode, swept, woes>>

Loads(r, kind) == deed[r].pc = "loaded" /\ deed[r].kind = kind

AddNode(r) ==
  /\ Loads(r, "node") /\ nextNode < MaxNodes
  /\ IF deed[r].site \notin sites THEN Fail(r)
     ELSE /\ nodes' = nodes \cup {[id |-> nextNode, name |-> "own", site |-> deed[r].site]}
          /\ nextNode' = nextNode + 1
          /\ Ends(r)
          /\ UNCHANGED <<sites, rows, swept, woes>>

\* The provisionable node with the fewest containers.
LeastLoaded(s) ==
  {n \in NodesOf(s) : \A o \in NodesOf(s) : Cardinality(RowsOn(n.id)) <= Cardinality(RowsOn(o.id))}

\* Refused if there is none.
ChooseNode(r) ==
  /\ Loads(r, "create")
  /\ IF NodesOf(deed[r].site) = {} THEN Ends(r)
     ELSE \E n \in LeastLoaded(deed[r].site) :
            deed' = [deed EXCEPT ![r].on = n.id, ![r].pc = "insert"]
  /\ UNCHANGED <<sites, nodes, rows, nextNode, swept, woes>>

\* A row, if its node and site are still there and the hostname is free in the site.
Fits(new) ==
  /\ \A w \in new : w.site \in sites /\ \E n \in nodes : n.id = w.node
  /\ \A w \in new, o \in rows : ~(w.site = o.site /\ w.name = o.name)

InsertRow(r) ==
  LET w == [name |-> "new", site |-> deed[r].site, node |-> deed[r].on] IN
  /\ deed[r].pc = "insert"
  /\ IF Fits({w})
       THEN /\ rows' = rows \cup {w}
            /\ Ends(r)
            /\ UNCHANGED <<sites, nodes, nextNode, swept, woes>>
       ELSE Fail(r)

\* DELETE /containers/:id takes the row (the rest of it is elsewhere).
DeleteRow(r) ==
  /\ Starts(r)
  /\ \E w \in rows :
       /\ rows' = rows \ {w}
       /\ Ends(r)
  /\ UNCHANGED <<sites, nodes, nextNode, swept, woes>>

-----------------------------------------------------------------------------
(* POST /nodes/import *)

\* The nodes of the cluster are listed and inserted; each is asked for its network and its
\* storages, and an answer that fails leaves a default.  Names need not be new.
ImportNodes(r) ==
  LET s == deed[r].site IN
  /\ Loads(r, "import") /\ nextNode + Cardinality(Cluster) <= MaxNodes
  /\ IF s \notin sites THEN Fail(r)
     ELSE /\ \E number \in [Cluster -> nextNode..(nextNode + Cardinality(Cluster) - 1)] :
               LET made == {[id |-> number[c], name |-> c, site |-> s] : c \in Cluster} IN
               /\ \A c, d \in Cluster : c # d => number[c] # number[d]
               /\ nodes' = nodes \cup made
               /\ deed' = [deed EXCEPT ![r].made = made, ![r].pc = "list"]
          /\ nextNode' = nextNode + Cardinality(Cluster)
          /\ UNCHANGED <<sites, rows, swept, woes>>

\* Mutant of RowOf: on the first node that was imported.
RowOfFirst(r, g) ==
  [name |-> g, site |-> deed[r].site,
   node |-> (CHOOSE n \in deed[r].made : \A o \in deed[r].made : n.id <= o.id).id]

\* The row of a guest: the node among those just inserted that has the guest's node's name.
RowOf(r, g) ==
  [name |-> g, site |-> deed[r].site, node |-> (CHOOSE n \in deed[r].made : n.name = GuestOn[g]).id]

\* The guests are listed and the configuration of each is read; one that fails, fails all.
ListGuests(r) ==
  /\ deed[r].pc = "list"
  /\ \/ /\ deed' = [deed EXCEPT ![r].pc = "rows", ![r].list = {RowOf(r, g) : g \in Guests}]
        /\ UNCHANGED <<sites, nodes, rows, nextNode, swept, woes>>
     \/ /\ woes < MaxWoes /\ woes' = woes + 1
        /\ Ends(r)
        /\ UNCHANGED <<sites, nodes, rows, nextNode, swept>>

\* One statement: all rows or none.
ImportRows(r) ==
  /\ deed[r].pc = "rows"
  /\ IF Fits(deed[r].list)
       THEN /\ rows' = rows \cup deed[r].list
            /\ Ends(r)
            /\ UNCHANGED <<sites, nodes, nextNode, swept, woes>>
       ELSE Fail(r)

-----------------------------------------------------------------------------
(* DELETE /nodes/:id, DELETE /sites/:id *)

CheckNode(r) ==
  /\ Starts(r)
  /\ \E n \in nodes :
       IF RowsOn(n.id) # {} THEN Ends(r)
       ELSE deed' = [deed EXCEPT ![r] = [NoDeed EXCEPT !.kind = "delete", !.on = n.id, !.pc = "destroy"]]
  /\ UNCHANGED <<sites, nodes, rows, nextNode, swept, woes>>

CheckSite(r) ==
  /\ Starts(r)
  /\ \E s \in sites :
       IF NodesOf(s) # {} THEN Ends(r)
       ELSE deed' = [deed EXCEPT ![r] = [NoDeed EXCEPT !.kind = "raze", !.site = s, !.pc = "destroy"]]
  /\ UNCHANGED <<sites, nodes, rows, nextNode, swept, woes>>

\* Mutant of OnDelete: ON DELETE CASCADE.
OnDeleteCascade(children) == TRUE

\* ON DELETE RESTRICT: refused if something has been added since the check.
OnDelete(children) == children = {}

DestroyNode(r) ==
  LET id == deed[r].on IN
  /\ deed[r].pc = "destroy" /\ deed[r].kind = "delete"
  /\ IF OnDelete(RowsOn(id))
       THEN /\ nodes' = {n \in nodes : n.id # id}
            /\ rows' = rows \ RowsOn(id)
            /\ swept' = swept \cup RowsOn(id)
            /\ Ends(r)
            /\ UNCHANGED <<sites, nextNode, woes>>
       ELSE Fail(r)

DestroySite(r) ==
  LET s == deed[r].site IN
  /\ deed[r].pc = "destroy" /\ deed[r].kind = "raze"
  /\ IF OnDelete(NodesOf(s) \cup {w \in rows : w.site = s})
       THEN /\ sites' = sites \ {s}
            /\ nodes' = {n \in nodes : n.site # s}
            /\ rows' = {w \in rows : w.site # s}
            /\ swept' = swept \cup {w \in rows : w.site = s}
            /\ Ends(r)
            /\ UNCHANGED <<nextNode, woes>>
       ELSE Fail(r)

-----------------------------------------------------------------------------

InventoryInit ==
  /\ sites = Sites
  /\ nodes \in {{}, {[id |-> 0, name |-> "own", site |-> "s"]}}
  /\ rows = {} /\ deed = [r \in Calls |-> NoDeed]
  /\ nextNode = 1 /\ swept = {} /\ woes = 0

InventoryNext ==
  \E r \in Calls :
    \/ LoadSite(r) \/ AddNode(r) \/ ChooseNode(r) \/ InsertRow(r) \/ DeleteRow(r)
    \/ ImportNodes(r) \/ ListGuests(r) \/ ImportRows(r)
    \/ CheckNode(r) \/ CheckSite(r) \/ DestroyNode(r) \/ DestroySite(r)

InventorySpec == InventoryInit /\ [][InventoryNext]_inventoryVars

-----------------------------------------------------------------------------
(* Properties *)

InventoryTypeOK ==
  /\ sites \subseteq Sites /\ nextNode \in 1..MaxNodes
  /\ \A w \in rows : w.name \in Hostnames

\* However creations, imports and deletions overlap, no row of a container goes with its
\* node or its site, and each stands for a guest of the node its own node's row names, in
\* the site of that node.
InventoryHolds ==
  /\ swept = {}
  /\ \A w \in rows : \E n \in nodes :
       n.id = w.node /\ n.site = w.site /\ (w.name \in Guests => n.name = GuestOn[w.name])

=============================================================================
