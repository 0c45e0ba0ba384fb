SPECIFICATION PlatformSpec
CONSTANTS
  mailA = mailA
  mailB = mailB
  subA = subA
  subB = subB
  c1 = c1
  c2 = c2
  r1 = r1
  r2 = r2
  web = web
  api = api
  Mails = {mailA, mailB}
  Subjects = {subA, subB}
  None = None
  Scenarios <- Scenes
  MaxRequests = 4
  MaxTokens = 1
  ATTEMPTS = 2
  Tabs = {"t1", "t2"}
  FirstTab = "t1"
  MaxSids = 2
  MaxClicks = 3
  MaxMishaps = 1
  BuiltIn = {"a", "b"}
  Customs = {"c"}
  Bare = {"b"}
  FormHostnames = {"h", "k"}
  NoImage = "-"
  MaxInputs = 4
  MaxMisses = 1
  RETRIES = 2
  Creations = {c1, c2}
  Restarts = {r1, r2}
  First = c1
  Clients = {"proxmox", "docker", "dummy"}
  Versions = {1, 2}
  Casts <- TaskCasts
  Mine = {"m", "n"}
  Old = "m"
  Theirs = {"x"}
  MaxActs = 3
  MaxOthers = 1
  Owners = {"c", "d"}
  NodeOf <- NodeOfOwner
  NodeKinds <- KindsOfNodes
  MaxEvents = 2
  Webs = {"w", "v"}
  Runners = {"r"}
  Layer4 = {"t"}
  Https = {"h"}
  MaxCrashes = 2
  Ports = {1, 2}
  Hosts = {web, api}
  Held = web
  Tcp = Tcp
  MaxAsks = 3
  Asks <- ServiceAsks
  MaxTroubles = 1
  Forms = {"node", "user", "settings"}
  MaxEdits = 2
  MaxVisits = 2
  MaxUpsets = 1
  MaxCalls = 3
  Cluster = {"p", "q"}
  GuestOn <- ClusterGuests
  MaxNodes = 5
  MaxWoes = 1
INVARIANTS
  PlatformTypeOK
  Bootstrapped
  AccountsHold
  SessionsHold
  FormHolds
  GuestsHold
  PagesHold
  StatusIsHonest
  StartsRight
  ServicesHold
  AdminEditsStay
  InventoryHolds
CHECK_DEADLOCK FALSE
