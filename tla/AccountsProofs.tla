--------------------------- MODULE AccountsProofs ---------------------------
(***************************************************************************)
(* What the tables of accounts hold, for every number of processes, users  *)
(* and requests.                                                           *)
(***************************************************************************)
EXTENDS AccountsProps, TLAPS

(* The requests a process may be serving. *)
Registering  == [at : {"register"}, user : Users]
Creating     == [at : {"create_organization"}, id : Ids, user : Users]
Adding       == [at : {"add_check"}, id : Ids, org : Orgs, user : Users, role : Roles]
InsertingRow == [at : {"add_member"}, id : Ids, org : Orgs, user : Users, role : Roles,
                 seen : Orgs \union {None}]
Members      == [id : Ids, org : Orgs, user : Users, role : Roles \union {"owner"}]
Removing     == [at : {"remove_member"}, row : Members]
MakingAgent  == [at : {"create_agent"}, id : Ids, org : Orgs, user : Users]
AddingFlag   == [at : {"insert_flag"}, id : Ids, org : Orgs, on : BOOLEAN]
SettingFlag  == [at : {"update_flag"}, row : Ids, seen : BOOLEAN, on : BOOLEAN]
Statuses     == {"none", "ok", "400", "401", "403", "404", "500"}
Answered     == [at : {"idle"}, reply : Statuses]

Requests ==
    Registering \union Creating \union Adding \union InsertingRow \union Removing
    \union MakingAgent \union AddingFlag \union SettingFlag \union Answered

Rows ==
    /\ users \subseteq Users
    /\ org_of \in [Users -> Orgs \union {None}]
    /\ owner \in [Orgs -> Users \union {None}]
    /\ members \subseteq Members
    /\ agents \subseteq [id : Ids, org : Orgs, user : Users]
    /\ flags \subseteq [id : Ids, org : Orgs, on : BOOLEAN]

Types == Rows /\ handler \in [Processes -> Requests] /\ count \in Nat

(* What a request in service has the fields of. *)
LEMMA Shape ==
    ASSUME NEW r \in Requests
    PROVE  /\ r.at = "register" => r \in Registering
           /\ r.at = "create_organization" => r \in Creating
           /\ r.at = "add_check" => r \in Adding
           /\ r.at = "add_member" => r \in InsertingRow
           /\ r.at = "remove_member" => r \in Removing
           /\ r.at = "create_agent" => r \in MakingAgent
           /\ r.at = "insert_flag" => r \in AddingFlag
           /\ r.at = "update_flag" => r \in SettingFlag
           /\ r.at = "idle" => r \in Answered
  BY DEF Requests, Registering, Creating, Adding, InsertingRow, Removing, MakingAgent,
         AddingFlag, SettingFlag, Answered

(* A request that goes on, or is answered, *)
LEMMA Going ==
    ASSUME handler \in [Processes -> Requests], NEW p \in Processes, NEW r \in Requests, Proceed(p, r)
    PROVE  handler' \in [Processes -> Requests]
  BY DEF Proceed

LEMMA Replying ==
    ASSUME handler \in [Processes -> Requests], NEW p \in Processes, NEW s \in Statuses, Reply(p, s)
    PROVE  handler' \in [Processes -> Requests]
  <1>1. [at |-> "idle", reply |-> s] \in Requests
    BY DEF Requests, Answered
  <1> QED
    BY <1>1 DEF Reply

(* and rows nobody writes, keep their types; *)
LEMMA Keeping == ASSUME Rows, UNCHANGED tables PROVE Rows'
  BY DEF Rows, tables

LEMMA Counting ==
    ASSUME count \in Nat, NEW p, Arrives(p)
    PROVE  count' \in Nat /\ count' \in Ids
  BY AccountsAssumption DEF Arrives, Ids

(* so do all at first, *)
LEMMA TypesInit == Init => Types
  <1> SUFFICES ASSUME Init PROVE Types
    OBVIOUS
  <1>1. Rows
    BY AccountsAssumption DEF Init, Rows
  <1>2. Idle \in Requests
    BY DEF Idle, Requests, Answered, Statuses
  <1> QED
    BY <1>1, <1>2 DEF Init, Types

(* and when a request comes in; whatever a handler that changes nothing     *)
(* tells is a status.                                                       *)
LEMMA ToldAStatus ==
    ASSUME NEW u, NEW told \in {Tells("500")} \union Login(u) \union RefreshToken(u) \union ToldTo(u)
    PROVE  told.status \in Statuses
  <1> USE DEF Tells, Shows, Statuses
  <1>1. told \in Login(u) \union RefreshToken(u) \union GetCurrentUserInfo(u) => told.status \in Statuses
    BY DEF Login, RefreshToken, GetCurrentUserInfo
  <1>2. told \in GetMyOrganization(u) \union UpdateOrganization(u) \union ListMembers(u)
           => told.status \in Statuses
    BY DEF GetMyOrganization, UpdateOrganization, ListMembers
  <1>3. told \in GetAgent(u) \union UpdateAgent(u) \union DeleteAgent(u) => told.status \in Statuses
    BY DEF GetAgent, UpdateAgent, DeleteAgent
  <1>4. told \in TakesUserForDictionary => told.status \in Statuses
    BY DEF TakesUserForDictionary
  <1>5. told \in OwnPage(u) \union {Tells("400"), Tells("500")} => told.status \in Statuses
    BY DEF OwnPage
  <1>6. told \in UploadFile(u) \union OwnFile(u) \union OwnKnowledge(u) => told.status \in Statuses
    BY DEF UploadFile, OwnFile, OwnKnowledge
  <1>7. told \in CheckedTo(u) => told.status \in Statuses
    BY <1>1, <1>2, <1>3, <1>4, <1>5, <1>6
    DEF CheckedTo, GetConversation, UpdateConversation, DeleteConversation, SendMessage, GetMessages,
        GetCurrentSubscription, ChangeSubscription, BillingPortal, GetPaymentMethods, ListInvoices,
        UpcomingInvoice, UsagePages, QuotaPages, AnalyticsPages,
        EvaluateText, GetGovernanceLogs, GetGovernanceStats, GetRiskAssessments, GetRiskStats,
        GetHallucinationLogs, GetHallucinationStats, KnowledgePages, ProductPages, GetFile, DeleteFile
  <1>8. told \in AnyOrganization \union AnyAgent => told.status \in Statuses
    BY DEF AnyOrganization, AnyAgent
  <1>9. told \in AnalyticsOverview(u) => told.status \in Statuses
    BY <1>5 DEF AnalyticsOverview
  <1>10. told \in OpenTo(u) => told.status \in Statuses
    BY <1>8, <1>9 DEF OpenTo, GetAgentPolicies, CreateConversation, CrawlStatus, RetrievalHealth, Services
  <1>11. told \in PlatformPages(u) => told.status \in Statuses
    BY <1>8 DEF PlatformPages
  <1> QED
    BY <1>1, <1>7, <1>10, <1>11 DEF ToldTo

LEMMA TypesAsks ==
    ASSUME Types, NEW p \in Processes, Asks(p)
    PROVE  Types'
  <1> USE DEF Types
  <1>a. ASSUME NEW s \in Statuses, Reply(p, s) PROVE handler' \in [Processes -> Requests]
    BY <1>a, Replying
  <1>b. ASSUME NEW r \in Requests, Proceed(p, r) PROVE handler' \in [Processes -> Requests]
    BY <1>b, Going
  <1>c. Arrives(p) /\ UNCHANGED tables
    BY DEF Asks, Register, CreateOrganization, AddMember, RemoveMember, CreateAgent,
           Consult, SetFeatureFlag, tables
  <1>d. Rows' /\ count' \in Nat /\ count' \in Ids
    BY <1>c, Keeping, Counting
  <1>1. ASSUME NEW u \in Users, Register(p, u) PROVE Types'
    <2>1. [at |-> "register", user |-> u] \in Requests
      BY DEF Requests, Registering
    <2> QED
      BY <1>a, <1>b, <1>d, <1>1, <2>1 DEF Register, Statuses
  <1>2. ASSUME NEW u \in Users, CreateOrganization(p, u) PROVE Types'
    <2>1. [at |-> "create_organization", id |-> count', user |-> u] \in Requests
      BY <1>d DEF Requests, Creating
    <2> QED
      BY <1>b, <1>d, <1>2, <2>1 DEF CreateOrganization
  <1>3. ASSUME NEW by \in Users, NEW u \in Users, NEW o \in Orgs, NEW role \in Roles,
               AddMember(p, by, o, u, role)
        PROVE  Types'
    <2>1. [at |-> "add_check", id |-> count', org |-> o, user |-> u, role |-> role] \in Requests
      BY <1>d DEF Requests, Adding
    <2> QED
      BY <1>a, <1>b, <1>d, <1>3, <2>1 DEF AddMember, Statuses
  <1>4. ASSUME NEW by \in Users, NEW u \in Users, NEW o \in Orgs, RemoveMember(p, by, o, u)
        PROVE  Types'
    <2>1. \A m \in RowsOf(o, u) : [at |-> "remove_member", row |-> m] \in Requests
      BY DEF Requests, Removing, RowsOf, Rows
    <2> QED
      BY <1>a, <1>b, <1>d, <1>4, <2>1 DEF RemoveMember, Statuses
  <1>5. ASSUME NEW by \in Users, NEW o \in Orgs, CreateAgent(p, by, o) PROVE Types'
    <2>1. [at |-> "create_agent", id |-> count', org |-> o, user |-> by] \in Requests
      BY <1>d DEF Requests, MakingAgent
    <2> QED
      BY <1>a, <1>b, <1>d, <1>5, <2>1 DEF CreateAgent, Statuses
  <1>6. ASSUME NEW u \in Users, Consult(p, u) PROVE Types'
    <2>1. \E s \in Statuses : Reply(p, s)
      BY <1>6, ToldAStatus DEF Consult
    <2> QED
      BY <1>a, <1>d, <2>1
  <1>7. ASSUME NEW o \in Orgs, NEW on \in BOOLEAN, SetFeatureFlag(p, o, on) PROVE Types'
    <2>1. [at |-> "insert_flag", id |-> count', org |-> o, on |-> on] \in Requests
      BY <1>d DEF Requests, AddingFlag
    <2>2. \A f \in RowsFor(o) : [at |-> "update_flag", row |-> f.id, seen |-> f.on, on |-> on] \in Requests
      BY DEF Requests, SettingFlag, RowsFor, Rows
    <2> QED
      BY <1>b, <1>d, <1>7, <2>1, <2>2 DEF SetFeatureFlag
  <1> QED
    BY <1>1, <1>2, <1>3, <1>4, <1>5, <1>6, <1>7 DEF Asks

(* and when it is answered. *)
LEMMA TypesAnswers ==
    ASSUME Types, NEW p \in Processes, Answers(p)
    PROVE  Types'
  <1> DEFINE r == handler[p]
  <1>a. ASSUME NEW s \in Statuses, Reply(p, s) PROVE handler' \in [Processes -> Requests]
    BY <1>a, Replying DEF Types
  <1>b. ASSUME NEW place, Committed(p, place) PROVE r.at = place /\ handler' \in [Processes -> Requests]
    BY <1>b, <1>a DEF Committed, Statuses
  <1>c. r \in Requests /\ count' = count
    BY DEF Types, Answers, InsertUser, InsertOrganization, CheckMember, InsertMember, DeleteMember,
           InsertAgent, InsertFlag, UpdateFlag, Fail
  <1>1. CASE InsertUser(p)
    <2>1. handler' \in [Processes -> Requests]
      BY <1>a, <1>b, <1>1 DEF InsertUser, Statuses
    <2>2. r \in Registering
      BY <1>c, <1>1, Shape DEF InsertUser, Statuses
    <2> QED
      BY <1>c, <1>1, <2>1, <2>2 DEF InsertUser, Registering, Types, Rows
  <1>2. CASE InsertOrganization(p)
    <2>1. handler' \in [Processes -> Requests] /\ r \in Creating
      BY <1>b, <1>c, <1>2, Shape DEF InsertOrganization
    <2>2. [id |-> r.id, org |-> r.id, user |-> r.user, role |-> "owner"] \in Members
      BY <2>1 DEF Creating, Members, Orgs
    <2>3. Rows'
      BY <1>2, <2>1, <2>2 DEF InsertOrganization, Creating, Orgs, Types, Rows
    <2> QED
      BY <1>c, <2>1, <2>3 DEF Types
  <1>3. CASE CheckMember(p)
    <2>1. r \in Adding
      BY <1>c, <1>3, Shape DEF CheckMember
    <2>2. Insertion(r) \in InsertingRow
      BY <2>1 DEF Insertion, Adding, InsertingRow, Types, Rows
    <2>3. Insertion(r) \in Requests
      BY <2>2 DEF Requests
    <2>4. handler' \in [Processes -> Requests]
      BY <1>a, <1>3, <2>3, Going DEF CheckMember, Types, Statuses
    <2>5. Rows'
      BY <1>3, Keeping DEF CheckMember, Types, tables
    <2> QED
      BY <1>c, <2>4, <2>5 DEF Types
  <1>4. CASE InsertMember(p)
    <2>1. handler' \in [Processes -> Requests]
      BY <1>a, <1>b, <1>4 DEF InsertMember, Statuses
    <2>2. r \in InsertingRow
      BY <1>c, <1>4, Shape DEF InsertMember, Statuses
    <2>3. [id |-> r.id, org |-> r.org, user |-> r.user, role |-> r.role] \in Members
      BY <2>2 DEF InsertingRow, Members
    <2>4. Rows'
      BY <1>4, <2>2, <2>3 DEF InsertMember, InsertingRow, Types, Rows
    <2> QED
      BY <1>c, <2>1, <2>4 DEF Types
  <1>5. CASE DeleteMember(p)
    BY <1>b, <1>c, <1>5 DEF DeleteMember, Types, Rows
  <1>6. CASE InsertAgent(p)
    <2>1. handler' \in [Processes -> Requests] /\ r \in MakingAgent
      BY <1>b, <1>c, <1>6, Shape DEF InsertAgent
    <2> QED
      BY <1>c, <1>6, <2>1 DEF InsertAgent, MakingAgent, Types, Rows
  <1>7. CASE InsertFlag(p)
    <2>1. handler' \in [Processes -> Requests] /\ r \in AddingFlag
      BY <1>b, <1>c, <1>7, Shape DEF InsertFlag
    <2> QED
      BY <1>c, <1>7, <2>1 DEF InsertFlag, AddingFlag, Types, Rows
  <1>8. CASE UpdateFlag(p)
    <2>1. handler' \in [Processes -> Requests] /\ r \in SettingFlag
      BY <1>b, <1>c, <1>8, Shape DEF UpdateFlag
    <2>2. ASSUME NEW f \in flags PROVE [f EXCEPT !.on = r.on] \in [id : Ids, org : Orgs, on : BOOLEAN]
      BY <2>1 DEF SettingFlag, Types, Rows
    <2>3. flags' \subseteq [id : Ids, org : Orgs, on : BOOLEAN]
      BY <1>8, <2>2 DEF UpdateFlag, Types, Rows
    <2> QED
      BY <1>c, <1>8, <2>1, <2>3 DEF UpdateFlag, Types, Rows
  <1>9. CASE Fail(p)
    <2>1. Rows'
      BY <1>9, Keeping DEF Fail, Types, tables
    <2> QED
      BY <1>a, <1>c, <1>9, <2>1 DEF Fail, Types, Statuses
  <1> QED
    BY <1>1, <1>2, <1>3, <1>4, <1>5, <1>6, <1>7, <1>8, <1>9 DEF Answers

LEMMA TypesStep == Types /\ [Next]_vars => Types'
  <1> SUFFICES ASSUME Types, [Next]_vars PROVE Types'
    OBVIOUS
  <1>1. CASE UNCHANGED vars
    BY <1>1, Keeping DEF vars, Types, tables
  <1> QED
    BY <1>1, TypesAsks, TypesAnswers DEF Next

(* The tables and the requests in service have their types. *)
THEOREM TypeCorrect == Spec => []Types
  BY TypesInit, TypesStep, PTL DEF Spec

-----------------------------------------------------------------------------
(* AccountsAreUnique is inductive: only InsertUser writes users.            *)
LEMMA UniqueStep == AccountsAreUnique /\ Types /\ [Next]_vars => AccountsAreUnique'
  <1> SUFFICES ASSUME AccountsAreUnique, Types, [Next]_vars PROVE AccountsAreUnique'
    OBVIOUS
  <1>1. ASSUME users' = users PROVE AccountsAreUnique'
    BY <1>1 DEF AccountsAreUnique
  <1>2. ASSUME NEW p \in Processes, InsertUser(p) PROVE AccountsAreUnique'
    <2> DEFINE u == handler[p].user
    <2>1. CASE users' = users \union {u} /\ ~Taken(u)
      <3>1. u \in Users
        BY <1>2, Shape DEF InsertUser, Types, Registering
      <3>2. \A v \in users : <<u, v>> \notin Clash /\ <<v, u>> \notin Clash
        <4>1. \A v \in users : <<u, v>> \notin Clash
          BY <2>1 DEF Taken
        <4>2. \A v \in Users : <<v, u>> \in Clash => <<u, v>> \in Clash
          BY <3>1, AccountsAssumption
        <4> QED
          BY <4>1, <4>2 DEF Types, Rows
      <3> QED
        BY <2>1, <3>2 DEF AccountsAreUnique
    <2> QED
      BY <1>1, <1>2, <2>1 DEF InsertUser
  <1>3. ASSUME NEW p \in Processes, Asks(p) PROVE users' = users
    BY <1>3 DEF Asks, Register, CreateOrganization, AddMember, RemoveMember, CreateAgent,
                Consult, SetFeatureFlag, tables
  <1>4. ASSUME NEW p \in Processes, Answers(p), ~InsertUser(p) PROVE users' = users
    BY <1>4 DEF Answers, InsertOrganization, CheckMember, InsertMember, DeleteMember,
                InsertAgent, InsertFlag, UpdateFlag, Fail, tables
  <1> QED
    BY <1>1, <1>2, <1>3, <1>4 DEF Next, vars, tables

(* No two accounts clash (AccountsAreUnique), for any processes and users.  *)
THEOREM Unique == Spec => []AccountsAreUnique
  <1>1. Init => AccountsAreUnique
    BY AccountsAssumption DEF Init, AccountsAreUnique
  <1> QED
    BY <1>1, UniqueStep, TypesInit, TypesStep, PTL DEF Spec

-----------------------------------------------------------------------------
(* A request that comes in or goes on touches no other's place, *)
LEMMA Others ==
    ASSUME Types, NEW p \in Processes, NEW q \in Processes, q # p, Asks(p) \/ Answers(p)
    PROVE  handler'[q] = handler[q]
  <1>1. CASE Asks(p)
    BY <1>1 DEF Types, Asks, Register, CreateOrganization, AddMember, RemoveMember, CreateAgent,
                Consult, SetFeatureFlag, Proceed, Reply
  <1>2. CASE Answers(p)
    BY <1>2 DEF Types, Answers, InsertUser, InsertOrganization, CheckMember, InsertMember,
                DeleteMember, InsertAgent, InsertFlag, UpdateFlag, Fail, Proceed, Reply, Committed
  <1> QED
    BY <1>1, <1>2

(* and its own, once answered, is idle. *)
LEMMA Placed ==
    ASSUME Types, NEW p \in Processes
    PROVE  /\ \A s : Reply(p, s) => handler'[p].at = "idle"
           /\ \A r : Proceed(p, r) => handler'[p] = r
  BY DEF Types, Reply, Proceed

(* Who is, or was, a member of an organization; *)
InsideOf(rows, gone, o, u) == (\E m \in rows : m.org = o /\ m.user = u) \/ <<o, u>> \in gone
Inside(o, u) == InsideOf(members, removed, o, u)

(* what then makes RowsNameOrganizations and InsidersOnly inductive:        *)
(* owners are inside, so are those whose row names the organization and     *)
(* those whose agent is about to be made; and a write of users.org_of is    *)
(* only left out when the column is set.                                    *)
Belonging ==
    /\ \A o \in Orgs : owner[o] # None => Inside(o, owner[o])
    /\ \A u \in Users : org_of[u] # None => Inside(org_of[u], u)
    /\ \A u \in Users, o \in Orgs : RowsOf(o, u) # {} => org_of[u] # None
    /\ \A a \in agents : Inside(a.org, a.user)
    /\ \A p \in Processes :
          handler[p].at = "create_agent" => Inside(handler[p].org, handler[p].user)
    /\ \A p \in Processes :
          handler[p].at = "add_member" /\ handler[p].seen # None => org_of[handler[p].user] # None

LEMMA Joining ==
    ASSUME NEW rows, NEW gone, NEW row \in rows
    PROVE  InsideOf(rows, gone, row.org, row.user)
  BY DEF InsideOf

LEMMA BelongingInit == Init => Belonging
  BY DEF Init, Belonging, Idle, RowsOf

(* Whoever is inside stays so, and a column that names an organization does. *)
LEMMA InsideStays ==
    ASSUME Types, NEW p \in Processes, Asks(p) \/ Answers(p)
    PROVE  /\ \A o, u : Inside(o, u) => InsideOf(members', removed', o, u)
           /\ \A u \in Users : org_of[u] # None => org_of'[u] # None
  <1>1. CASE DeleteMember(p)
    BY <1>1 DEF DeleteMember, Inside, InsideOf, RowsOf
  <1>2. CASE InsertOrganization(p)
    <2>1. handler[p] \in Creating
      BY <1>2, Shape DEF InsertOrganization, Committed, Types
    <2> QED
      BY <1>2, <2>1, AccountsAssumption
      DEF InsertOrganization, Inside, InsideOf, RowsOf, Creating, Ids, Types, Rows
  <1>3. CASE InsertMember(p)
    <2>1. handler[p] \in InsertingRow
      BY <1>3, Shape DEF InsertMember, Types
    <2> QED
      BY <1>3, <2>1, AccountsAssumption
      DEF InsertMember, Inside, InsideOf, RowsOf, InsertingRow, Ids, Orgs, Types, Rows
  <1>4. ASSUME members' = members, removed' = removed, org_of' = org_of
        PROVE  /\ \A o, u : Inside(o, u) => InsideOf(members', removed', o, u)
               /\ \A u \in Users : org_of[u] # None => org_of'[u] # None
    BY <1>4 DEF Inside, InsideOf, RowsOf
  <1>5. CASE Asks(p)
    BY <1>4, <1>5 DEF Asks, Register, CreateOrganization, AddMember, RemoveMember, CreateAgent,
                      Consult, SetFeatureFlag, tables
  <1>6. CASE InsertUser(p) \/ CheckMember(p) \/ InsertAgent(p) \/ InsertFlag(p) \/ UpdateFlag(p) \/ Fail(p)
    BY <1>4, <1>6 DEF InsertUser, CheckMember, InsertAgent, InsertFlag, UpdateFlag, Fail, tables
  <1> QED
    BY <1>1, <1>2, <1>3, <1>5, <1>6 DEF Answers
(* Where a request is once it has come in: *)
LEMMA Coming ==
    ASSUME Types, NEW p \in Processes, Asks(p)
    PROVE  /\ handler'[p].at # "add_member"
           /\ handler'[p].at = "create_agent" => \E by \in Users, o \in Orgs : CreateAgent(p, by, o)
  <1> DEFINE at == handler'[p].at
  <1>1. ASSUME NEW u \in Users, Register(p, u) PROVE at \in {"idle", "register"}
    BY <1>1, Placed DEF Register
  <1>2. ASSUME NEW u \in Users, CreateOrganization(p, u) PROVE at = "create_organization"
    BY <1>2, Placed DEF CreateOrganization
  <1>3. ASSUME NEW by \in Users, NEW u \in Users, NEW o \in Orgs, NEW role \in Roles,
               AddMember(p, by, o, u, role)
        PROVE  at \in {"idle", "add_check"}
    BY <1>3, Placed DEF AddMember
  <1>4. ASSUME NEW by \in Users, NEW u \in Users, NEW o \in Orgs, RemoveMember(p, by, o, u)
        PROVE  at \in {"idle", "remove_member"}
    <2>1. ASSUME NEW m, Proceed(p, [at |-> "remove_member", row |-> m]) PROVE at = "remove_member"
      BY <2>1, Placed
    <2> QED
      BY <1>4, <2>1, Placed DEF RemoveMember
  <1>5. ASSUME NEW by \in Users, NEW o \in Orgs, CreateAgent(p, by, o)
        PROVE  at \in {"idle", "create_agent"}
    BY <1>5, Placed DEF CreateAgent
  <1>6. ASSUME NEW u \in Users, Consult(p, u) PROVE at = "idle"
    BY <1>6, Placed DEF Consult
  <1>7. ASSUME NEW o \in Orgs, NEW on \in BOOLEAN, SetFeatureFlag(p, o, on)
        PROVE  at \in {"insert_flag", "update_flag"}
    <2>1. ASSUME NEW f, Proceed(p, [at |-> "update_flag", row |-> f.id, seen |-> f.on, on |-> on])
          PROVE  at = "update_flag"
      BY <2>1, Placed
    <2>2. ASSUME Proceed(p, [at |-> "insert_flag", id |-> count', org |-> o, on |-> on])
          PROVE  at = "insert_flag"
      BY <2>2, Placed
    <2> QED
      BY <1>7, <2>1, <2>2 DEF SetFeatureFlag
  <1> QED
    BY <1>1, <1>2, <1>3, <1>4, <1>5, <1>6, <1>7 DEF Asks

(* A request that comes in finds Belonging and leaves it, *)
LEMMA BelongingAsks ==
    ASSUME Types, Belonging, NEW p \in Processes, Asks(p)
    PROVE  Belonging'
  <1>1. UNCHANGED <<users, org_of, owner, members, agents, removed>>
    BY DEF Asks, Register, CreateOrganization, AddMember, RemoveMember, CreateAgent,
           Consult, SetFeatureFlag, tables
  <1>2. \A o, u : InsideOf(members', removed', o, u) <=> Inside(o, u)
    BY <1>1 DEF Inside, InsideOf, RowsOf
  <1>3. \A q \in Processes : q # p => handler'[q] = handler[q]
    BY Others
  <1>4. handler'[p].at # "add_member"
    BY Coming
  <1>5. handler'[p].at = "create_agent" => Inside(handler'[p].org, handler'[p].user)
    <2>1. ASSUME NEW by \in Users, NEW o \in Orgs, CreateAgent(p, by, o),
                 handler'[p].at = "create_agent"
          PROVE  Inside(handler'[p].org, handler'[p].user)
      <3>1. BelongsTo(o, by) /\ handler'[p].org = o /\ handler'[p].user = by
        BY <2>1, Placed DEF CreateAgent
      <3>2. Inside(o, by)
        BY <3>1, <2>1, AccountsAssumption DEF BelongsTo, Belonging, Orgs, Ids
      <3> QED
        BY <3>1, <3>2
    <2>2. ASSUME \A by \in Users, o \in Orgs : ~CreateAgent(p, by, o)
          PROVE  handler'[p].at # "create_agent"
      BY <2>2, Coming
    <2> QED
      BY <2>1, <2>2
  <1>6. \A q \in Processes :
           handler'[q].at = "create_agent" => Inside(handler'[q].org, handler'[q].user)
    BY <1>3, <1>5 DEF Belonging
  <1>7. \A q \in Processes :
           handler'[q].at = "add_member" /\ handler'[q].seen # None => org_of[handler'[q].user] # None
    BY <1>3, <1>4 DEF Belonging
  <1>8. \A u \in Users, o \in Orgs : RowsOf(o, u)' = RowsOf(o, u)
    BY <1>1 DEF RowsOf
  <1> QED
    BY <1>1, <1>2, <1>6, <1>7, <1>8 DEF Belonging, Inside

(* and so does one that is answered: *)
LEMMA BelongingAnswers ==
    ASSUME Types, Belonging, NEW p \in Processes, Answers(p)
    PROVE  Belonging'
  <1> DEFINE r == handler[p]
  <1>1. \A o, u : Inside(o, u) => InsideOf(members', removed', o, u)
    BY InsideStays
  <1>2. \A u \in Users : org_of[u] # None => org_of'[u] # None
    BY InsideStays
  <1>3. \A q \in Processes : q # p => handler'[q] = handler[q]
    BY Others
  (* the requests in service, *)
  <1>4. handler'[p].at # "create_agent"
    BY Placed DEF Answers, InsertUser, InsertOrganization, CheckMember, InsertMember, DeleteMember,
                  InsertAgent, InsertFlag, UpdateFlag, Fail, Committed, Insertion
  <1>5. handler'[p].at = "add_member" =>
           handler'[p].user \in Users /\ (handler'[p].seen # None => org_of[handler'[p].user] # None)
    <2>1. CASE CheckMember(p)
      <3>1. r \in Adding
        BY <2>1, Shape DEF CheckMember, Types
      <3> QED
        BY <2>1, <3>1, Placed DEF CheckMember, Insertion, Adding
    <2>2. CASE ~CheckMember(p)
      BY <2>2, Placed DEF Answers, InsertUser, InsertOrganization, InsertMember, DeleteMember,
                          InsertAgent, InsertFlag, UpdateFlag, Fail, Committed
    <2> QED
      BY <2>1, <2>2
  <1>6. \A q \in Processes :
           handler'[q].at = "create_agent" => InsideOf(members', removed', handler'[q].org, handler'[q].user)
    BY <1>1, <1>3, <1>4 DEF Belonging
  <1>7. \A q \in Processes :
           handler'[q].at = "add_member" /\ handler'[q].seen # None => org_of'[handler'[q].user] # None
    <2>1. ASSUME NEW q \in Processes, handler[q].at = "add_member" PROVE handler[q].user \in Users
      BY <2>1, Shape DEF Types, InsertingRow
    <2> QED
      BY <1>2, <1>3, <1>5, <2>1 DEF Belonging
  (* the owners, *)
  <1>8. \A o \in Orgs : owner'[o] # None => InsideOf(members', removed', o, owner'[o])
    <2>1. CASE InsertOrganization(p)
      <3>1. r \in Creating
        BY <2>1, Shape DEF InsertOrganization, Committed, Types
      <3>2. InsideOf(members', removed', r.id, r.user) /\ owner' = [owner EXCEPT ![r.id] = r.user]
        <4> DEFINE row == [id |-> r.id, org |-> r.id, user |-> r.user, role |-> "owner"]
        <4>1. row \in members'
          BY <2>1 DEF InsertOrganization
        <4>2. InsideOf(members', removed', row.org, row.user)
          BY <4>1, Joining
        <4> QED
          BY <2>1, <3>1, <4>2 DEF InsertOrganization, Creating
      <3> QED
        BY <1>1, <3>1, <3>2 DEF Belonging, Creating, Types, Rows, Orgs
    <2>2. CASE owner' = owner
      BY <1>1, <2>2 DEF Belonging
    <2> QED
      BY <2>1, <2>2 DEF Answers, InsertUser, CheckMember, InsertMember, DeleteMember, InsertAgent,
                        InsertFlag, UpdateFlag, Fail, tables
  (* the users' rows, *)
  <1>9. \A u \in Users : org_of'[u] # None => InsideOf(members', removed', org_of'[u], u)
    <2>1. CASE InsertOrganization(p)
      <3>1. r \in Creating
        BY <2>1, Shape DEF InsertOrganization, Committed, Types
      <3>2. InsideOf(members', removed', r.id, r.user) /\ org_of' = [org_of EXCEPT ![r.user] = r.id]
        <4> DEFINE row == [id |-> r.id, org |-> r.id, user |-> r.user, role |-> "owner"]
        <4>1. row \in members'
          BY <2>1 DEF InsertOrganization
        <4>2. InsideOf(members', removed', row.org, row.user)
          BY <4>1, Joining
        <4> QED
          BY <2>1, <3>1, <4>2 DEF InsertOrganization, Creating
      <3> QED
        BY <1>1, <3>1, <3>2 DEF Belonging, Creating, Types, Rows
    <2>2. CASE InsertMember(p) /\ org_of' # org_of
      <3>1. r \in InsertingRow
        BY <2>2, Shape DEF InsertMember, Types
      <3>2. InsideOf(members', removed', r.org, r.user) /\ org_of' = [org_of EXCEPT ![r.user] = r.org]
        <4> DEFINE row == [id |-> r.id, org |-> r.org, user |-> r.user, role |-> r.role]
        <4>1. row \in members'
          BY <2>2 DEF InsertMember
        <4>2. InsideOf(members', removed', row.org, row.user)
          BY <4>1, Joining
        <4> QED
          BY <2>2, <3>1, <4>2 DEF InsertMember, InsertingRow
      <3> QED
        BY <1>1, <3>1, <3>2 DEF Belonging, InsertingRow, Types, Rows
    <2>3. CASE org_of' = org_of
      BY <1>1, <2>3 DEF Belonging
    <2> QED
      BY <2>1, <2>2, <2>3 DEF Answers, InsertUser, CheckMember, InsertMember, DeleteMember, InsertAgent,
                              InsertFlag, UpdateFlag, Fail, tables
  (* the members, *)
  <1>10. \A u \in Users, o \in Orgs : RowsOf(o, u)' # {} => org_of'[u] # None
    <2>1. CASE InsertOrganization(p)
      <3>1. r \in Creating
        BY <2>1, Shape DEF InsertOrganization, Committed, Types
      <3>2. org_of'[r.user] # None
        BY <2>1, <3>1, AccountsAssumption DEF InsertOrganization, Creating, Types, Rows, Ids
      <3>3. \A u \in Users, o \in Orgs : u # r.user /\ RowsOf(o, u)' # {} => RowsOf(o, u) # {}
        BY <2>1, <3>1 DEF InsertOrganization, RowsOf
      <3> QED
        BY <1>2, <3>2, <3>3 DEF Belonging
    <2>2. CASE InsertMember(p) /\ members' # members
      <3>1. r \in InsertingRow
        BY <2>2, Shape DEF InsertMember, Types
      <3>2. org_of'[r.user] # None
        <4>1. CASE r.seen = r.org
          BY <2>2, <3>1, <4>1, <1>2, AccountsAssumption
          DEF InsertMember, InsertingRow, Belonging, Orgs, Ids
        <4>2. CASE r.seen # r.org
          BY <2>2, <3>1, <4>2, AccountsAssumption
          DEF InsertMember, InsertingRow, Types, Rows, Orgs, Ids
        <4> QED
          BY <4>1, <4>2
      <3>3. \A u \in Users, o \in Orgs : u # r.user /\ RowsOf(o, u)' # {} => RowsOf(o, u) # {}
        BY <2>2, <3>1 DEF InsertMember, RowsOf
      <3> QED
        BY <1>2, <3>2, <3>3 DEF Belonging
    <2>3. CASE members' \subseteq members
      <3>1. \A u \in Users, o \in Orgs : RowsOf(o, u)' # {} => RowsOf(o, u) # {}
        BY <2>3 DEF RowsOf
      <3> QED
        BY <1>2, <3>1 DEF Belonging
    <2> QED
      BY <2>1, <2>2, <2>3 DEF Answers, InsertUser, CheckMember, InsertMember, DeleteMember, InsertAgent,
                              InsertFlag, UpdateFlag, Fail, tables
  (* and the agents. *)
  <1>11. \A a \in agents' : InsideOf(members', removed', a.org, a.user)
    <2>1. CASE InsertAgent(p)
      <3>1. r.at = "create_agent"
        BY <2>1 DEF InsertAgent, Committed
      <3>2. InsideOf(members', removed', r.org, r.user)
        BY <3>1, <1>1 DEF Belonging
      <3>3. agents' = agents \union {[id |-> r.id, org |-> r.org, user |-> r.user]}
        BY <2>1 DEF InsertAgent
      <3> QED
        BY <1>1, <3>2, <3>3 DEF Belonging
    <2>2. CASE agents' = agents
      BY <1>1, <2>2 DEF Belonging
    <2> QED
      BY <2>1, <2>2 DEF Answers, InsertUser, InsertOrganization, CheckMember, InsertMember, DeleteMember,
                        InsertFlag, UpdateFlag, Fail, tables
  <1> QED
    BY <1>6, <1>7, <1>8, <1>9, <1>10, <1>11 DEF Belonging, Inside

LEMMA BelongingStep == Types /\ Belonging /\ [Next]_vars => Belonging'
  <1> SUFFICES ASSUME Types, Belonging, [Next]_vars PROVE Belonging'
    OBVIOUS
  <1>1. CASE UNCHANGED vars
    BY <1>1 DEF vars, tables, Belonging, Inside, InsideOf, RowsOf
  <1> QED
    BY <1>1, BelongingAsks, BelongingAnswers DEF Next

(* An organization's data is shown to insiders only, by those who ask: *)
Known(o, u) ==
    owner[o] = u \/ RowsOf(o, u) # {} \/ (<<o, u>> \in removed /\ org_of[u] = o)

LEMMA ShownToInsiders ==
    ASSUME Types, Belonging, NEW u \in users, NEW told \in CheckedTo(u), told.of # None
    PROVE  Known(told.of, u)
  <1> USE DEF Tells, Shows
  <1>b. u \in Users
    BY DEF Types, Rows
  <1>c. org_of[u] # None => Known(org_of[u], u)
    BY <1>b DEF Belonging, Inside, InsideOf, Known, RowsOf
  <1>1. told \in GetMyOrganization(u) => Known(told.of, u)
    BY <1>c DEF GetMyOrganization
  <1>2. told \in UpdateOrganization(u) \union ListMembers(u) => Known(told.of, u)
    BY DEF UpdateOrganization, ListMembers, Known
  <1>3. told \in GetAgent(u) => Known(told.of, u)
    <2>1. ASSUME NEW o \in Orgs, BelongsTo(o, u) PROVE Known(o, u)
      <3>1. o # None
        BY AccountsAssumption DEF Orgs, Ids
      <3>2. CASE org_of[u] = o
        BY <1>c, <3>1, <3>2
      <3>3. CASE owner[o] = u
        BY <3>3 DEF Known
      <3> QED
        BY <2>1, <3>2, <3>3 DEF BelongsTo
    <2>2. \A a \in agents : a.org \in Orgs
      BY DEF Types, Rows
    <2> QED
      BY <2>1, <2>2 DEF GetAgent
  <1>4. told \in UpdateAgent(u) => Known(told.of, u)
    BY DEF UpdateAgent, Known
  <1>5. told \in OwnPage(u) \union UploadFile(u) \union OwnFile(u) \union OwnKnowledge(u)
           => Known(told.of, u)
    BY <1>c DEF OwnPage, UploadFile, OwnFile, OwnKnowledge
  <1>6. told \notin GetCurrentUserInfo(u) \union DeleteAgent(u) \union TakesUserForDictionary
                    \union {Tells("400"), Tells("500")}
    BY DEF GetCurrentUserInfo, DeleteAgent, TakesUserForDictionary
  <1> QED
    BY <1>1, <1>2, <1>3, <1>4, <1>5, <1>6
    DEF CheckedTo, GetConversation, UpdateConversation, DeleteConversation, SendMessage, GetMessages,
        GetCurrentSubscription, ChangeSubscription, BillingPortal, GetPaymentMethods, ListInvoices,
        UpcomingInvoice, UsagePages, QuotaPages, AnalyticsPages,
        EvaluateText, GetGovernanceLogs, GetGovernanceStats, GetRiskAssessments, GetRiskStats,
        GetHallucinationLogs, GetHallucinationStats, KnowledgePages, ProductPages, GetFile, DeleteFile

(* and agents are made by insiders too (InsidersOnly), whatever the          *)
(* processes do at the same time.                                           *)
THEOREM Inward == Spec => []InsidersOnly
  <1>1. Types /\ Belonging => InsidersOnly
    <2> SUFFICES ASSUME Types, Belonging PROVE InsidersOnly
      OBVIOUS
    <2>1. \A a \in agents : Insider(a.org, a.user)
      BY DEF Belonging, Inside, InsideOf, Insider, RowsOf
    <2> QED
      BY <2>1, ShownToInsiders DEF InsidersOnly, Known
  <1> QED
    BY <1>1, BelongingInit, BelongingStep, TypesInit, TypesStep, PTL DEF Spec
-----------------------------------------------------------------------------
(* What two requests for one row may find.  An organization's members come  *)
(* after its row, and its row's number is nobody else's, so that the row an *)
(* organization is made with is its owner's first;                          *)
Born ==
    /\ \A m \in members : owner[m.org] # None
    /\ \A o \in Orgs : owner[o] # None => o <= count
    /\ \A p \in Processes :
          /\ handler[p].at \in {"add_check", "add_member"} => owner[handler[p].org] # None
          /\ handler[p].at = "create_organization" =>
                owner[handler[p].id] = None /\ handler[p].id <= count
    /\ \A p, q \in Processes :
          p # q /\ handler[p].at = "create_organization" /\ handler[q].at = "create_organization"
             => handler[p].id # handler[q].id

(* whoever is to insert a row found none, and if there is one by now, or     *)
(* another is to insert it too, the two have raced.                         *)
Single ==
    /\ OneRowEach
    /\ \A p \in Processes : handler[p].at = "add_member" =>
          \A m \in members : m.org = handler[p].org /\ m.user = handler[p].user =>
             <<"member", m.org, m.user>> \in raced
    /\ \A p, q \in Processes :
             p # q /\ handler[p].at = "add_member" /\ handler[q].at = "add_member"
          /\ handler[p].org = handler[q].org /\ handler[p].user = handler[q].user
             => <<"member", handler[p].org, handler[p].user>> \in raced
    /\ \A p \in Processes : handler[p].at = "insert_flag" =>
          \A f \in flags : f.org = handler[p].org => <<"flag", f.org>> \in raced
    /\ \A p, q \in Processes :
             p # q /\ handler[p].at = "insert_flag" /\ handler[q].at = "insert_flag"
          /\ handler[p].org = handler[q].org
             => <<"flag", handler[p].org>> \in raced

LEMMA SingleInit == Init => Born /\ Single
  <1> SUFFICES ASSUME Init PROVE Born /\ Single
    OBVIOUS
  <1>1. \A p \in Processes : handler[p].at = "idle"
    BY DEF Init, Idle
  <1>2. members = {} /\ flags = {} /\ \A o \in Orgs : owner[o] = None
    BY DEF Init
  <1>3. Born
    BY <1>1, <1>2 DEF Born
  <1>4. OneRowEach
    BY <1>2 DEF OneRowEach
  <1>5. \A p \in Processes : handler[p].at \notin {"add_member", "insert_flag"}
    BY <1>1
  <1>6. Single
    BY <1>4, <1>5 DEF Single
  <1> QED
    BY <1>3, <1>6

(* What a request is like that has just come in. *)
LEMMA ComingWith ==
    ASSUME Types, NEW p \in Processes, Asks(p)
    PROVE  /\ UNCHANGED tables /\ raced \subseteq raced'
           /\ count' = count + 1 /\ count < MaxRequests
           /\ handler'[p].at = "add_check" => owner[handler'[p].org] # None
           /\ handler'[p].at = "create_organization" => handler'[p].id = count'
           /\ handler'[p].at = "insert_flag" =>
                 /\ \A f \in flags : f.org # handler'[p].org
                 /\ InsertingFlag(handler'[p].org) => <<"flag", handler'[p].org>> \in raced'
  <1> DEFINE r == handler'[p]
  <1> DEFINE Kept == r.at \notin {"add_check", "create_organization", "insert_flag"}
  <1>a. ASSUME NEW s, Reply(p, s) PROVE Kept
    BY <1>a, Placed
  <1>b. ASSUME NEW x, Proceed(p, x) PROVE r = x
    BY <1>b, Placed
  <1>c. /\ UNCHANGED tables /\ raced \subseteq raced'
        /\ count' = count + 1 /\ count < MaxRequests
    BY DEF Asks, Register, CreateOrganization, AddMember, RemoveMember, CreateAgent,
           Consult, SetFeatureFlag, tables, Arrives
  <1>1. ASSUME NEW u \in Users, Register(p, u) PROVE Kept
    <2>1. ASSUME Proceed(p, [at |-> "register", user |-> u]) PROVE Kept
      BY <2>1, <1>b
    <2> QED
      BY <1>1, <1>a, <2>1 DEF Register
  <1>2. ASSUME NEW u \in Users, CreateOrganization(p, u)
        PROVE  r.at = "create_organization" /\ r.id = count'
    <2>1. r = [at |-> "create_organization", id |-> count', user |-> u]
      BY <1>2, <1>b DEF CreateOrganization
    <2> QED
      BY <2>1
  <1>3. ASSUME NEW by \in Users, NEW u \in Users, NEW o \in Orgs, NEW role \in Roles,
               AddMember(p, by, o, u, role)
        PROVE  Kept \/ (r.at = "add_check" /\ owner[r.org] # None)
    <2>1. ASSUME Proceed(p, [at |-> "add_check", id |-> count', org |-> o, user |-> u, role |-> role])
          PROVE  r.at = "add_check" /\ r.org = o
      <3>1. r = [at |-> "add_check", id |-> count', org |-> o, user |-> u, role |-> role]
        BY <2>1, <1>b
      <3> QED
        BY <3>1
    <2> QED
      BY <1>3, <1>a, <2>1 DEF AddMember
  <1>4. ASSUME NEW by \in Users, NEW u \in Users, NEW o \in Orgs, RemoveMember(p, by, o, u)
        PROVE  Kept
    <2>1. ASSUME NEW m, Proceed(p, [at |-> "remove_member", row |-> m]) PROVE Kept
      BY <2>1, <1>b
    <2> QED
      BY <1>4, <1>a, <2>1 DEF RemoveMember
  <1>5. ASSUME NEW by \in Users, NEW o \in Orgs, CreateAgent(p, by, o) PROVE Kept
    <2>1. ASSUME Proceed(p, [at |-> "create_agent", id |-> count', org |-> o, user |-> by]) PROVE Kept
      BY <2>1, <1>b
    <2> QED
      BY <1>5, <1>a, <2>1 DEF CreateAgent
  <1>6. ASSUME NEW u \in Users, Consult(p, u) PROVE Kept
    BY <1>6, <1>a DEF Consult
  <1>7. ASSUME NEW o \in Orgs, NEW on \in BOOLEAN, SetFeatureFlag(p, o, on)
        PROVE  \/ Kept
               \/ /\ r.at = "insert_flag"
                  /\ \A f \in flags : f.org # r.org
                  /\ InsertingFlag(r.org) => <<"flag", r.org>> \in raced'
    <2>1. ASSUME NEW f, Proceed(p, [at |-> "update_flag", row |-> f.id, seen |-> f.on, on |-> on])
          PROVE  Kept
      BY <2>1, <1>b
    <2>2. ASSUME Proceed(p, [at |-> "insert_flag", id |-> count', org |-> o, on |-> on])
          PROVE  r.at = "insert_flag" /\ r.org = o
      <3>1. r = [at |-> "insert_flag", id |-> count', org |-> o, on |-> on]
        BY <2>2, <1>b
      <3> QED
        BY <3>1
    <2>3. CASE RowsFor(o) = {}
      <3>1. \A f \in flags : f.org # o
        BY <2>3 DEF RowsFor
      <3>2. r.at = "insert_flag" /\ r.org = o
        BY <1>7, <2>2, <2>3 DEF SetFeatureFlag
      <3>3. InsertingFlag(o) => <<"flag", o>> \in raced'
        BY <1>7, <2>3 DEF SetFeatureFlag
      <3> QED
        BY <3>1, <3>2, <3>3
    <2> QED
      BY <1>7, <2>1, <2>3 DEF SetFeatureFlag
  <1> QED
    BY <1>c, <1>1, <1>2, <1>3, <1>4, <1>5, <1>6, <1>7 DEF Asks

(* What is written when a request is answered, *)
LEMMA Answering ==
    ASSUME Types, NEW p \in Processes, Answers(p)
    PROVE  /\ count' = count /\ raced \subseteq raced'
           /\ handler'[p].at = "idle" \/ CheckMember(p)
           /\ owner' = owner \/ InsertOrganization(p)
           /\ members' \subseteq members \/ InsertOrganization(p) \/ InsertMember(p)
           /\ flags' = flags \/ InsertFlag(p) \/ UpdateFlag(p)
  <1>1. count' = count /\ raced \subseteq raced'
    BY DEF Answers, InsertUser, InsertOrganization, CheckMember, InsertMember, DeleteMember,
           InsertAgent, InsertFlag, UpdateFlag, Fail
  <1>2. handler'[p].at = "idle" \/ CheckMember(p)
    BY Placed DEF Answers, InsertUser, InsertOrganization, InsertMember, DeleteMember,
                  InsertAgent, InsertFlag, UpdateFlag, Fail, Committed
  <1>3. /\ owner' = owner \/ InsertOrganization(p)
        /\ members' \subseteq members \/ InsertOrganization(p) \/ InsertMember(p)
        /\ flags' = flags \/ InsertFlag(p) \/ UpdateFlag(p)
    BY DEF Answers, InsertUser, CheckMember, InsertMember, DeleteMember, InsertAgent,
           InsertOrganization, InsertFlag, UpdateFlag, Fail, tables
  <1> QED
    BY <1>1, <1>2, <1>3

(* and where a checked member is. *)
LEMMA Checked ==
    ASSUME Types, NEW p \in Processes, CheckMember(p), handler'[p].at # "idle"
    PROVE  /\ handler[p].at = "add_check" /\ handler'[p].at = "add_member"
           /\ handler'[p].org = handler[p].org /\ handler'[p].user = handler[p].user
           /\ \A m \in members : ~(m.org = handler[p].org /\ m.user = handler[p].user)
           /\ Inserting(handler[p].org, handler[p].user) =>
                 <<"member", handler[p].org, handler[p].user>> \in raced'
  <1> DEFINE r == handler[p]
  <1>1. Proceed(p, Insertion(r)) /\ RowsOf(r.org, r.user) = {}
    BY Placed DEF CheckMember
  <1>2. handler'[p] = Insertion(r)
    BY <1>1, Placed
  <1>3. handler'[p].at = "add_member" /\ handler'[p].org = r.org /\ handler'[p].user = r.user
    BY <1>2 DEF Insertion
  <1>4. \A m \in members : ~(m.org = r.org /\ m.user = r.user)
    BY <1>1 DEF RowsOf
  <1>5. Inserting(r.org, r.user) => <<"member", r.org, r.user>> \in raced'
    BY <1>1 DEF CheckMember
  <1> QED
    BY <1>3, <1>4, <1>5 DEF CheckMember

LEMMA BornStep == Types /\ Born /\ [Next]_vars => Born'
  <1> SUFFICES ASSUME Types, Born, [Next]_vars PROVE Born'
    OBVIOUS
  <1>1. ASSUME NEW p \in Processes, Asks(p) PROVE Born'
    <2>1. UNCHANGED <<members, owner>> /\ count' = count + 1 /\ count \in Nat /\ count + 1 \in Orgs
      <3>1. UNCHANGED tables /\ count' = count + 1 /\ count < MaxRequests
        BY <1>1, ComingWith
      <3>2. UNCHANGED <<members, owner>>
        BY <3>1 DEF tables
      <3>3. count \in Nat /\ count + 1 \in Orgs
        BY <3>1, AccountsAssumption DEF Types, Orgs, Ids
      <3> QED
        BY <3>1, <3>2, <3>3
    <2>2. \A q \in Processes : q # p => handler'[q] = handler[q]
      BY <1>1, Others
    <2>3. \A o \in Orgs : owner'[o] # None => o <= count /\ o <= count'
      BY <2>1, AccountsAssumption DEF Born, Orgs, Ids
    <2>4. owner'[count'] = None
      BY <2>1, <2>3
    <2>5. \A q \in Processes :
             handler'[q].at \in {"add_check", "add_member"} => owner'[handler'[q].org] # None
      BY <1>1, <2>1, <2>2, Coming, ComingWith DEF Born
    <2>6. \A q \in Processes : q # p /\ handler'[q].at = "create_organization" =>
             owner'[handler'[q].id] = None /\ handler'[q].id <= count /\ handler'[q].id \in Nat
      <3>1. ASSUME NEW q \in Processes, handler[q].at = "create_organization"
            PROVE  handler[q].id \in Nat
        BY <3>1, Shape, AccountsAssumption DEF Types, Creating, Ids
      <3> QED
        BY <2>1, <2>2, <3>1 DEF Born
    <2>7. handler'[p].at = "create_organization" => handler'[p].id = count + 1
      BY <1>1, <2>1, ComingWith
    <2>8. \A q \in Processes : handler'[q].at = "create_organization" =>
             owner'[handler'[q].id] = None /\ handler'[q].id <= count'
      BY <2>1, <2>4, <2>6, <2>7
    <2>9. \A s, q \in Processes :
             s # q /\ handler'[s].at = "create_organization" /\ handler'[q].at = "create_organization"
                => handler'[s].id # handler'[q].id
      <3>1. ASSUME NEW q \in Processes, q # p, handler'[q].at = "create_organization",
                   handler'[p].at = "create_organization"
            PROVE  handler'[q].id # handler'[p].id
        BY <2>1, <2>6, <2>7, <3>1
      <3> QED
        BY <2>2, <3>1 DEF Born
    <2> QED
      BY <2>1, <2>3, <2>5, <2>8, <2>9 DEF Born
  <1>2. ASSUME NEW p \in Processes, Answers(p) PROVE Born'
    <2> DEFINE r == handler[p]
    <2>1. \A q \in Processes : q # p => handler'[q] = handler[q]
      BY <1>2, Others
    <2>2. count' = count
      BY <1>2, Answering
    <2>3. handler'[p].at \notin {"add_check", "create_organization"}
      BY <1>2, Answering, Checked
    <2>4. CASE InsertOrganization(p)
      <3>1. r \in Creating /\ r.at = "create_organization" /\ handler'[p].at = "idle"
        BY <2>4, Shape, Placed DEF InsertOrganization, Committed, Types
      <3>2. owner' = [owner EXCEPT ![r.id] = r.user] /\ r.id \in Orgs /\ r.user # None
        BY <2>4, <3>1, AccountsAssumption DEF InsertOrganization, Creating, Orgs
      <3>3. \A o \in Orgs : (owner[o] # None => owner'[o] # None) /\ (o # r.id => owner'[o] = owner[o])
        BY <3>2 DEF Types, Rows
      <3>4. owner'[r.id] # None
        BY <3>2 DEF Types, Rows
      <3>5. \A m \in members' : owner'[m.org] # None
        <4>1. members' = members \union {[id |-> r.id, org |-> r.id, user |-> r.user, role |-> "owner"]}
          BY <2>4 DEF InsertOrganization
        <4>2. \A m \in members : m.org \in Orgs
          BY DEF Types, Rows, Members
        <4> QED
          BY <3>3, <3>4, <4>1, <4>2 DEF Born
      <3>6. \A o \in Orgs : owner'[o] # None => o <= count'
        BY <2>2, <3>1, <3>3 DEF Born
      <3>7. \A q \in Processes :
               handler'[q].at \in {"add_check", "add_member"} => owner'[handler'[q].org] # None
        <4>1. ASSUME NEW q \in Processes, handler[q].at \in {"add_check", "add_member"}
              PROVE  handler[q].org \in Orgs
          BY <4>1, Shape DEF Types, Adding, InsertingRow
        <4> QED
          BY <2>1, <3>1, <3>3, <4>1 DEF Born
      <3>8. \A q \in Processes : handler'[q].at = "create_organization" =>
               owner'[handler'[q].id] = None /\ handler'[q].id <= count'
        <4>1. ASSUME NEW q \in Processes, handler[q].at = "create_organization"
              PROVE  handler[q].id \in Orgs
          BY <4>1, Shape DEF Types, Creating, Orgs
        <4> QED
          BY <2>1, <2>2, <3>1, <3>3, <4>1 DEF Born
      <3> QED
        BY <2>1, <3>1, <3>5, <3>6, <3>7, <3>8 DEF Born
    <2>5. CASE owner' = owner
      <3>1. \A m \in members' : owner[m.org] # None
        <4>1. CASE InsertMember(p)
          <5>1. r.at = "add_member" /\ r \in InsertingRow
            BY <4>1, Shape DEF InsertMember, Types
          <5>2. members' \subseteq members \union
                   {[id |-> r.id, org |-> r.org, user |-> r.user, role |-> r.role]}
            BY <4>1 DEF InsertMember
          <5> QED
            BY <5>1, <5>2 DEF Born
        <4>2. CASE InsertOrganization(p)
          <5>1. r \in Creating /\ r.at = "create_organization"
            BY <4>2, Shape DEF InsertOrganization, Committed, Types
          <5>2. owner[r.id] = None /\ owner' = [owner EXCEPT ![r.id] = r.user]
            BY <4>2, <5>1 DEF InsertOrganization, Born
          <5>3. r.user # None /\ owner'[r.id] = r.user
            BY <5>1, <5>2, AccountsAssumption DEF Creating, Types, Rows, Orgs
          <5> QED
            BY <2>5, <5>2, <5>3
        <4> QED
          BY <1>2, <4>1, <4>2, Answering DEF Born
      <3>2. \A q \in Processes :
               handler'[q].at \in {"add_check", "add_member"} => owner[handler'[q].org] # None
        <4>1. handler'[p].at = "add_member" => owner[handler'[p].org] # None
          BY <1>2, Answering, Checked DEF Born
        <4> QED
          BY <2>1, <2>3, <4>1 DEF Born
      <3> QED
        BY <2>1, <2>2, <2>3, <2>5, <3>1, <3>2 DEF Born
    <2> QED
      BY <1>2, <2>4, <2>5, Answering
  <1>3. CASE UNCHANGED vars
    BY <1>3 DEF vars, tables, Born
  <1> QED
    BY <1>1, <1>2, <1>3 DEF Next

(* so that the organization in a user's row exists.                         *)
Existing == \A u \in Users : org_of[u] # None => owner[org_of[u]] # None

LEMMA ExistingStep == Types /\ Born /\ Existing /\ [Next]_vars => Existing'
  <1> SUFFICES ASSUME Types, Born, Existing, [Next]_vars PROVE Existing'
    OBVIOUS
  <1>a. org_of \in [Users -> Orgs \union {None}] /\ owner \in [Orgs -> Users \union {None}]
    BY DEF Types, Rows
  <1>1. CASE UNCHANGED <<org_of, owner>>
    BY <1>1 DEF Existing
  <1>2. ASSUME NEW p \in Processes, InsertOrganization(p) PROVE Existing'
    <2> DEFINE r == handler[p]
    <2>1. r \in Creating
      BY <1>2, Shape DEF InsertOrganization, Committed, Types
    <2>2. r.id \in Orgs /\ r.user \in Users /\ r.user # None
      BY <2>1, AccountsAssumption DEF Creating, Orgs
    <2>3. owner' = [owner EXCEPT ![r.id] = r.user] /\ org_of' = [org_of EXCEPT ![r.user] = r.id]
      BY <1>2 DEF InsertOrganization
    <2> HIDE DEF r
    <2>4. ASSUME NEW u \in Users, org_of'[u] # None PROVE owner'[org_of'[u]] # None
      <3>1. CASE u = r.user
        BY <1>a, <2>2, <2>3, <3>1
      <3>2. CASE u # r.user
        <4>1. org_of'[u] = org_of[u] /\ org_of[u] \in Orgs /\ owner[org_of[u]] # None
          BY <1>a, <2>2, <2>3, <2>4, <3>2 DEF Existing
        <4> QED
          BY <1>a, <2>2, <2>3, <4>1
      <3> QED
        BY <3>1, <3>2
    <2> QED
      BY <2>4 DEF Existing
  <1>3. ASSUME NEW p \in Processes, InsertMember(p) PROVE Existing'
    <2> DEFINE r == handler[p]
    <2>1. r.at = "add_member" /\ r \in InsertingRow
      BY <1>3, Shape DEF InsertMember, Types
    <2>2. owner[r.org] # None /\ r.org \in Orgs
      BY <2>1 DEF Born, InsertingRow
    <2>3. owner' = owner /\ org_of' \in {org_of, [org_of EXCEPT ![r.user] = r.org]}
      BY <1>3 DEF InsertMember
    <2> HIDE DEF r
    <2> QED
      BY <1>a, <2>2, <2>3 DEF Existing
  <1>4. ASSUME NEW p \in Processes, Asks(p) PROVE Existing'
    BY <1>1, <1>4, ComingWith DEF tables
  <1>5. ASSUME NEW p \in Processes, Answers(p), ~InsertOrganization(p), ~InsertMember(p)
        PROVE  UNCHANGED <<org_of, owner>>
    BY <1>5 DEF Answers, InsertUser, CheckMember, DeleteMember, InsertAgent, InsertFlag, UpdateFlag, Fail, tables
  <1>6. CASE UNCHANGED vars
    BY <1>1, <1>6 DEF vars, tables
  <1> QED
    BY <1>1, <1>2, <1>3, <1>4, <1>5, <1>6 DEF Next

(* The columns agree, and name what exists (RowsNameOrganizations).         *)
THEOREM Named == Spec => []RowsNameOrganizations
  <1>1. Belonging /\ Born /\ Existing => RowsNameOrganizations
    BY DEF Belonging, Born, Existing, RowsNameOrganizations, Inside, InsideOf, RowsOf
  <1>2. Init => Born
    BY SingleInit
  <1>3. Init => Existing
    BY DEF Init, Existing
  <1> QED
    BY <1>1, <1>2, <1>3, BelongingInit, BelongingStep, BornStep, ExistingStep, TypesInit, TypesStep,
       PTL DEF Spec

(* Single, too, is kept: *)
LEMMA SingleAsks ==
    ASSUME Types, Single, NEW p \in Processes, Asks(p)
    PROVE  Single'
  <1>1. UNCHANGED <<members, flags>> /\ raced \subseteq raced'
    BY ComingWith DEF tables
  <1>2. \A q \in Processes : q # p => handler'[q] = handler[q]
    BY Others
  <1>3. handler'[p].at # "add_member"
    BY Coming
  <1>4. handler'[p].at = "insert_flag" =>
           /\ \A f \in flags : f.org # handler'[p].org
           /\ \A q \in Processes : handler[q].at = "insert_flag" /\ handler[q].org = handler'[p].org
                 => <<"flag", handler'[p].org>> \in raced'
    BY ComingWith DEF InsertingFlag
  <1>5. OneRowEach'
    BY <1>1 DEF Single, OneRowEach
  <1>6. \A q \in Processes : handler'[q].at = "add_member" =>
           \A m \in members' : m.org = handler'[q].org /\ m.user = handler'[q].user =>
              <<"member", m.org, m.user>> \in raced'
    BY <1>1, <1>2, <1>3 DEF Single
  <1>7. \A s, q \in Processes :
              s # q /\ handler'[s].at = "add_member" /\ handler'[q].at = "add_member"
           /\ handler'[s].org = handler'[q].org /\ handler'[s].user = handler'[q].user
              => <<"member", handler'[s].org, handler'[s].user>> \in raced'
    BY <1>1, <1>2, <1>3 DEF Single
  <1>8. \A q \in Processes : handler'[q].at = "insert_flag" =>
           \A f \in flags' : f.org = handler'[q].org => <<"flag", f.org>> \in raced'
    BY <1>1, <1>2, <1>4 DEF Single
  <1>9. \A s, q \in Processes :
              s # q /\ handler'[s].at = "insert_flag" /\ handler'[q].at = "insert_flag"
           /\ handler'[s].org = handler'[q].org
              => <<"flag", handler'[s].org>> \in raced'
    BY <1>1, <1>2, <1>4 DEF Single
  <1> QED
    BY <1>5, <1>6, <1>7, <1>8, <1>9 DEF Single

LEMMA SingleAnswers ==
    ASSUME Types, Born, Single, NEW p \in Processes, Answers(p)
    PROVE  Single'
  <1> DEFINE r == handler[p]
  <1>1. \A q \in Processes : q # p => handler'[q] = handler[q]
    BY Others
  <1>2. raced \subseteq raced'
    BY Answering
  <1>3. handler'[p].at # "insert_flag"
    BY Answering, Checked
  <1>4. handler'[p].at = "add_member" =>
           /\ members' = members
           /\ \A m \in members : ~(m.org = handler'[p].org /\ m.user = handler'[p].user)
           /\ \A q \in Processes :
                    q # p /\ handler[q].at = "add_member"
                 /\ handler[q].org = handler'[p].org /\ handler[q].user = handler'[p].user
                    => <<"member", handler'[p].org, handler'[p].user>> \in raced'
    <2>1. ASSUME handler'[p].at = "add_member" PROVE CheckMember(p)
      BY <2>1, Answering
    <2>2. ASSUME CheckMember(p) PROVE members' = members
      BY <2>2 DEF CheckMember, tables
    <2>3. ASSUME handler'[p].at = "add_member"
          PROVE  \A m \in members : ~(m.org = handler'[p].org /\ m.user = handler'[p].user)
      BY <2>1, <2>3, Checked
    <2>4. ASSUME handler'[p].at = "add_member", NEW q \in Processes,
                 q # p, handler[q].at = "add_member",
                 handler[q].org = handler'[p].org, handler[q].user = handler'[p].user
          PROVE  <<"member", handler'[p].org, handler'[p].user>> \in raced'
      <3>1. handler'[p].org = r.org /\ handler'[p].user = r.user
        BY <2>1, <2>4, Checked
      <3>2. Inserting(r.org, r.user)
        BY <2>4, <3>1 DEF Inserting
      <3> QED
        BY <2>1, <2>4, <3>1, <3>2, Checked
    <2>5. handler'[p].at = "add_member" => \A q \in Processes :
                q # p /\ handler[q].at = "add_member"
             /\ handler[q].org = handler'[p].org /\ handler[q].user = handler'[p].user
                => <<"member", handler'[p].org, handler'[p].user>> \in raced'
      BY <2>4
    <2> QED
      BY <2>1, <2>2, <2>3, <2>5
  (* the memberships: one that is inserted is the first, or has raced; *)
  <1>5. \A m \in members' : m \in members \/
           /\ \A n \in members : n.org = m.org /\ n.user = m.user => <<"member", m.org, m.user>> \in raced
           /\ \A n \in members' : n \in members \/ n = m
           /\ \A q \in Processes :
                    q # p /\ handler[q].at = "add_member"
                 /\ handler[q].org = m.org /\ handler[q].user = m.user
                    => <<"member", m.org, m.user>> \in raced
    <2>1. CASE InsertMember(p) /\ ~(members' \subseteq members)
      <3>1. r.at = "add_member" /\ r \in InsertingRow
        BY <2>1, Shape DEF InsertMember, Types
      <3> DEFINE row == [id |-> r.id, org |-> r.org, user |-> r.user, role |-> r.role]
      <3>2. members' = members \union {row}
        BY <2>1 DEF InsertMember
      <3>3. row.org = r.org /\ row.user = r.user
        OBVIOUS
      <3>4. \A n \in members : n.org = row.org /\ n.user = row.user =>
               <<"member", row.org, row.user>> \in raced
        BY <3>1, <3>3 DEF Single
      <3>5. \A q \in Processes :
                  q # p /\ handler[q].at = "add_member"
               /\ handler[q].org = row.org /\ handler[q].user = row.user
                  => <<"member", row.org, row.user>> \in raced
        BY <3>1, <3>3 DEF Single
      <3> QED
        BY <3>2, <3>4, <3>5
    <2>2. CASE InsertOrganization(p)
      <3>1. r.at = "create_organization"
        BY <2>2 DEF InsertOrganization, Committed
      <3> DEFINE row == [id |-> r.id, org |-> r.id, user |-> r.user, role |-> "owner"]
      <3>2. members' = members \union {row} /\ row.org = r.id /\ owner[r.id] = None
        BY <2>2, <3>1 DEF InsertOrganization, Born
      <3>3. \A n \in members : n.org # row.org
        BY <3>2 DEF Born
      <3>4. \A q \in Processes : handler[q].at = "add_member" => handler[q].org # row.org
        BY <3>2 DEF Born
      <3>5. /\ \A n \in members : n.org = row.org /\ n.user = row.user =>
                  <<"member", row.org, row.user>> \in raced
            /\ \A q \in Processes :
                     q # p /\ handler[q].at = "add_member"
                  /\ handler[q].org = row.org /\ handler[q].user = row.user
                     => <<"member", row.org, row.user>> \in raced
        BY <3>3, <3>4
      <3> HIDE DEF row
      <3> QED
        BY <3>2, <3>5
    <2> QED
      BY <2>1, <2>2, Answering
  <1>6. \A m, n \in members' :
           m # n /\ m.org = n.org /\ m.user = n.user => <<"member", m.org, m.user>> \in raced'
    BY <1>2, <1>5 DEF Single, OneRowEach
  <1>7. \A q \in Processes : handler'[q].at = "add_member" =>
           \A m \in members' : m.org = handler'[q].org /\ m.user = handler'[q].user =>
              <<"member", m.org, m.user>> \in raced'
    BY <1>1, <1>2, <1>4, <1>5 DEF Single
  <1>8. \A s, q \in Processes :
              s # q /\ handler'[s].at = "add_member" /\ handler'[q].at = "add_member"
           /\ handler'[s].org = handler'[q].org /\ handler'[s].user = handler'[q].user
              => <<"member", handler'[s].org, handler'[s].user>> \in raced'
    BY <1>1, <1>2, <1>4 DEF Single
  (* and so the overrides, which keep their organization when they are set. *)
  <1>9. \A f \in flags' :
           \/ \E g \in flags : g.org = f.org /\ \A h \in flags' : h # f /\ h.org = f.org =>
                                  <<"flag", f.org>> \in raced
           \/ /\ \A g \in flags : g.org = f.org => <<"flag", f.org>> \in raced
              /\ \A h \in flags' : h \in flags \/ h = f
              /\ \A q \in Processes :
                    q # p /\ handler[q].at = "insert_flag" /\ handler[q].org = f.org
                       => <<"flag", f.org>> \in raced
    <2>1. CASE InsertFlag(p)
      <3>1. r.at = "insert_flag"
        BY <2>1 DEF InsertFlag, Committed
      <3> DEFINE row == [id |-> r.id, org |-> r.org, on |-> r.on]
      <3>2. flags' = flags \union {row} /\ row.org = r.org
        BY <2>1 DEF InsertFlag
      <3>3. \A g \in flags : g.org = row.org => <<"flag", row.org>> \in raced
        BY <3>1, <3>2 DEF Single
      <3>4. \A q \in Processes :
               q # p /\ handler[q].at = "insert_flag" /\ handler[q].org = row.org
                  => <<"flag", row.org>> \in raced
        BY <3>1, <3>2 DEF Single
      <3>5. \A f, h \in flags : h # f /\ h.org = f.org => <<"flag", f.org>> \in raced
        BY DEF Single, OneRowEach
      <3>6. \A f \in flags, h \in flags' : h # f /\ h.org = f.org => <<"flag", f.org>> \in raced
        BY <3>2, <3>3, <3>5
      <3> QED
        BY <3>2, <3>3, <3>4, <3>6
    <2>2. CASE UpdateFlag(p)
      <3> DEFINE Set(f) == IF f.id = r.row /\ r.seen # r.on THEN [f EXCEPT !.on = r.on] ELSE f
      <3>1. flags' = {Set(f) : f \in flags}
        BY <2>2 DEF UpdateFlag
      <3>2. \A f \in flags : Set(f).org = f.org
        BY DEF Types, Rows
      <3>3. \A f, h \in flags : h # f /\ h.org = f.org => <<"flag", f.org>> \in raced
        BY DEF Single, OneRowEach
      <3>4. \A f, h \in flags : Set(h) # Set(f) /\ Set(h).org = Set(f).org =>
               <<"flag", Set(f).org>> \in raced
        BY <3>2, <3>3
      <3> HIDE DEF Set
      <3> QED
        BY <3>1, <3>2, <3>4
    <2>3. CASE flags' = flags
      BY <2>3 DEF Single, OneRowEach
    <2> QED
      BY <2>1, <2>2, <2>3, Answering
  <1>10. \A f, g \in flags' : f # g /\ f.org = g.org => <<"flag", f.org>> \in raced'
    BY <1>2, <1>9 DEF Single, OneRowEach
  <1>11. \A q \in Processes : handler'[q].at = "insert_flag" =>
            \A f \in flags' : f.org = handler'[q].org => <<"flag", f.org>> \in raced'
    BY <1>1, <1>2, <1>3, <1>9 DEF Single
  <1>12. \A s, q \in Processes :
               s # q /\ handler'[s].at = "insert_flag" /\ handler'[q].at = "insert_flag"
            /\ handler'[s].org = handler'[q].org
               => <<"flag", handler'[s].org>> \in raced'
    BY <1>1, <1>2, <1>3 DEF Single
  <1> QED
    BY <1>6, <1>7, <1>8, <1>10, <1>11, <1>12 DEF Single, OneRowEach

LEMMA SingleStep == Types /\ Born /\ Single /\ [Next]_vars => Single'
  <1> SUFFICES ASSUME Types, Born, Single, [Next]_vars PROVE Single'
    OBVIOUS
  <1>1. CASE UNCHANGED vars
    BY <1>1 DEF vars, tables, Single, OneRowEach
  <1> QED
    BY <1>1, SingleAsks, SingleAnswers DEF Next

(* A membership and an override have one row each, unless two requests      *)
(* raced to insert it (OneRowEach), for any number of processes.            *)
THEOREM OneEach == Spec => []OneRowEach
  <1>1. Single => OneRowEach
    BY DEF Single
  <1> QED
    BY <1>1, SingleInit, BornStep, SingleStep, TypesInit, TypesStep, PTL DEF Spec
=============================================================================
