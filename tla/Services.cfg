SPECIFICATION FairSpec
CONSTANTS
    Parts = {"trusttunnel", "children", "telemt", "mdnsvpn", "xray", "file"}
    Users = {u1}  MaxChildren = 2  MaxEvents = 2  MaxAttempts = 1
    Handlers = {h1, h2}  Kinds = {"mtproxy", "mdnsvpn", "dnscrypt", "tor"}
    SvChildren = 3  SvEvents = 2  SvAttempts = 1
    Names = {n1}  Admins = {a1}  Reconcilers = {r1, r2}  MuEvents = 4
    Clients = {1, 2}  MdAdmins = {a1, a2}  Downloads = {d1}  MdKeys = 3  MdEvents = 4
    Peers = {p1}  XlAdmins = {a1, a2}  Snis = {s1}  XlEvents = 4
    Writers = {w1}  MaxWrites = 4  MaxFaults = 3
CHECK_DEADLOCK FALSE
INVARIANTS
    EndpointServesTheRoster 
     ReconcileConverges   
PROPERTIES ExpiredUserIsDropped
