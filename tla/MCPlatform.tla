-------------------------------- MODULE MCPlatform --------------------------------
(***************************************************************************)
(* The components that share no state, one at a time: a behaviour chooses  *)
(* its topic first and only the component of that topic moves.             *)
(***************************************************************************)
EXTENDS Accounts, WebSession, ContainerForm, NodeTasks, ContainerPages, LiveStatus, Startup,
        ContainerServices, AdminForms, Inventory, TLC

CONSTANTS mailA, mailB, subA, subB, c1, c2, r1, r2, web, api

VARIABLE topic

(* The constants *)

Scene(founded, kinds, limit, names, deaths) ==
  [founded |-> founded, kinds |-> kinds, limit |-> limit, names |-> names, faults |-> deaths,
   mails |-> Mails]
Scenes ==
  { Scene(FALSE, {"register", "oidc"}, 2, {0, 1}, 1),
    Scene(TRUE, {"create", "oidc"}, 2, {0, 1}, 1),
    Scene(TRUE, {"oidc", "edit"}, 2, {0}, 0),
    Scene(TRUE, {"oidc", "delete"}, 2, {0}, 0),
    Scene(TRUE, {"invite", "register"}, 3, {0}, 0),
    Scene(TRUE, {"reset", "delete"}, 4, {0}, 1),
    Scene(FALSE, {"register", "delete", "group"}, 3, {0}, 0),
    Scene(TRUE, {"register", "delete", "group"}, 3, {0}, 0) }
  \cup { [Scene(FALSE, {"register", "oidc"}, 3, {0}, 0) EXCEPT !.mails = {mailA}] }

TaskCasts == {[who |-> Creations, slips |-> 2], [who |-> {First} \cup Restarts, slips |-> 1]}
NodeOfOwner == [c \in Owners |-> IF c = "c" THEN "n" ELSE "o"]
KindsOfNodes == {[n |-> "proxmox", o |-> "proxmox"], [n |-> "docker", o |-> "dummy"]}
ClusterGuests == [g |-> "p", h |-> "q"]

Asking(k, c, adds, dels) == [kind |-> k, of |-> c, adds |-> adds, dels |-> dels]
ServiceAsks ==
  { Asking("post", "e", <<Tcp>>, {}),
    Asking("put", "c", <<web>>, {<<"c", web>>}),
    Asking("put", "d", <<>>, {<<"c", web>>}),
    Asking("put", "c", <<api, web>>, {}),
    Asking("put", "d", <<web, api>>, {}),
    Asking("put", "d", <<Tcp>>, {}),
    Asking("put", "d", <<Tcp>>, {<<"d", 1>>}),
    Asking("put", "d", <<Tcp, Tcp>>, {}),
    Asking("delete", "c", <<>>, {}) }

(* The platform *)

\* A component whose turn it is not begins in one state.
PlatformInit ==
  /\ topic \in {"accounts", "session", "form", "tasks", "pages",
                "status", "startup", "services", "admin", "inventory"}
  /\ AccInit /\ (topic # "accounts" => scenario = CHOOSE s \in Scenarios : TRUE)
  /\ WebInit /\ (topic # "session" => config = "none")
  /\ FormInit
  /\ TaskInit /\ (topic # "tasks" => cast = (CHOOSE c \in Casts : TRUE) /\ client = "dummy" /\ tag = 1)
  /\ PagesInit /\ (topic # "pages" => ~admin)
  /\ StatusInit /\ (topic # "status" => kind = (CHOOSE k \in NodeKinds : TRUE) /\ ~joined)
  /\ StartInit
  /\ ServicesInit
  /\ AdminInit /\ (topic # "admin" => which = "node")
  /\ InventoryInit /\ (topic # "inventory" => nodes = {})

PlatformNext ==
  \/ /\ topic = "accounts" /\ AccNext
     /\ UNCHANGED <<topic, webVars, formVars, taskVars, pageVars, statusVars, startVars,
                     serviceVars, adminVars, inventoryVars>>
  \/ /\ topic = "session" /\ WebNext
     /\ UNCHANGED <<topic, accVars, formVars, taskVars, pageVars, statusVars, startVars,
                     serviceVars, adminVars, inventoryVars>>
  \/ /\ topic = "form" /\ FormNext
     /\ UNCHANGED <<topic, accVars, webVars, taskVars, pageVars, statusVars, startVars,
                     serviceVars, adminVars, inventoryVars>>
  \/ /\ topic = "tasks" /\ TaskNext
     /\ UNCHANGED <<topic, accVars, webVars, formVars, pageVars, statusVars, startVars,
                     serviceVars, adminVars, inventoryVars>>
  \/ /\ topic = "pages" /\ PagesNext
     /\ UNCHANGED <<topic, accVars, webVars, formVars, taskVars, statusVars, startVars,
                     serviceVars, adminVars, inventoryVars>>
  \/ /\ topic = "status" /\ StatusNext
     /\ UNCHANGED <<topic, accVars, webVars, formVars, taskVars, pageVars, startVars,
                     serviceVars, adminVars, inventoryVars>>
  \/ /\ topic = "startup" /\ StartNext
     /\ UNCHANGED <<topic, accVars, webVars, formVars, taskVars, pageVars, statusVars,
                     serviceVars, adminVars, inventoryVars>>
  \/ /\ topic = "services" /\ ServicesNext
     /\ UNCHANGED <<topic, accVars, webVars, formVars, taskVars, pageVars, statusVars,
                     startVars, adminVars, inventoryVars>>
  \/ /\ topic = "admin" /\ AdminNext
     /\ UNCHANGED <<topic, accVars, webVars, formVars, taskVars, pageVars, statusVars,
                     startVars, serviceVars, inventoryVars>>
  \/ /\ topic = "inventory" /\ InventoryNext
     /\ UNCHANGED <<topic, accVars, webVars, formVars, taskVars, pageVars, statusVars,
                     startVars, serviceVars, adminVars>>

platformVars == <<topic, accVars, webVars, formVars, taskVars, pageVars, statusVars, startVars,
                  serviceVars, adminVars, inventoryVars>>
PlatformSpec == PlatformInit /\ [][PlatformNext]_platformVars

\* The type invariant of the component that moves; the others are in initial states of theirs.
PlatformTypeOK ==
  /\ topic = "accounts" => AccTypeOK
  /\ topic = "session" => WebTypeOK
  /\ topic = "form" => FormTypeOK
  /\ topic = "tasks" => TaskTypeOK
  /\ topic = "pages" => PagesTypeOK
  /\ topic = "status" => StatusTypeOK
  /\ topic = "startup" => StartTypeOK
  /\ topic = "services" => ServicesTypeOK
  /\ topic = "admin" => AdminTypeOK
  /\ topic = "inventory" => InventoryTypeOK

================================================================================
