------------------------------ MODULE Accounts ------------------------------
(***************************************************************************)
(* Users, organizations, members, agents and feature overrides: the        *)
(* handlers of app/api/auth.py, organizations.py, agents.py,               *)
(* conversations.py and admin.py on the tables they share.                 *)
(*                                                                         *)
(* A handler is a coroutine that awaits nothing, so each server process    *)
(* serves one of these requests at a time, but the processes interleave.   *)
(* A handler reads, decides, and writes all its changes in the one commit  *)
(* at its end; what it read may have changed by then.  A row keeps the     *)
(* number of the request that inserted it as its id.                       *)
(***************************************************************************)
EXTENDS Naturals

CONSTANTS
    Processes,      \* the server processes
    Users,          \* who may have an account
    Registered,     \* those who have one to begin with
    Superusers,     \* those who may ask the platform's pages
    Clash,          \* pairs of users with the same e-mail or username
    Roles,          \* the roles a member may be given: any string
    None,
    MaxRequests     \* bound: requests served

ASSUME AccountsAssumption ==
    /\ Registered \subseteq Users
    /\ Clash \subseteq Users \X Users
    /\ \A u \in Users : <<u, u>> \in Clash
    /\ \A p \in Clash : <<p[2], p[1]>> \in Clash
    /\ Superusers \subseteq Users
    /\ \A u, v \in Registered : u # v => <<u, v>> \notin Clash
    /\ MaxRequests \in Nat
    /\ None \notin Users /\ None \notin 1..MaxRequests

Ids  == 1..MaxRequests
Orgs == Ids     \* an organization, too, is known by the request that made it

VARIABLES
    users,      \* the users' rows
    org_of,     \* users.organization_id
    owner,      \* organizations.owner_id; None when there is no such row
    members,    \* organization_members
    agents,     \* agents, with the user who created each
    flags,      \* feature_flags: an organization's overrides of one feature
    handler,    \* per process: the request it serves
    count,      \* requests so far
    removed,    \* history: memberships that were removed
    raced       \* history: what two requests were about to insert at once

tables == <<users, org_of, owner, members, agents, flags>>
vars   == <<tables, handler, count, removed, raced>>

Idle == [at |-> "idle", reply |-> "none"]

Init ==
    /\ users = Registered
    /\ org_of = [u \in Users |-> None]
    /\ owner = [o \in Orgs |-> None]
    /\ members = {} /\ agents = {} /\ flags = {}
    /\ handler = [p \in Processes |-> Idle]
    /\ count = 0
    /\ removed = {} /\ raced = {}

-----------------------------------------------------------------------------
RowsOf(o, u) == {m \in members : m.org = o /\ m.user = u}
RowsFor(o)   == {f \in flags : f.org = o}

(* A request goes on, and is answered at last. *)
Proceed(p, request) == handler' = [handler EXCEPT ![p] = request]
Reply(p, status)    == handler' = [handler EXCEPT ![p] = [at |-> "idle", reply |-> status]]

(* get_current_user: the handler's session has the user's row from here on. *)
Arrives(p) ==
    /\ handler[p].at = "idle" /\ count < MaxRequests
    /\ count' = count + 1

Committed(p, place) == handler[p].at = place /\ Reply(p, "ok")

-----------------------------------------------------------------------------
(* register: two users may not have an e-mail or a username in common, and  *)
(* the unique indexes of the table see to it at the commit.                 *)
Taken(u) == \E v \in users : <<u, v>> \in Clash

Register(p, u) ==
    /\ Arrives(p)
    /\ IF Taken(u) THEN Reply(p, "400") ELSE Proceed(p, [at |-> "register", user |-> u])
    /\ UNCHANGED <<tables, removed, raced>>

InsertUser_NoIndex(p) ==    \* mutant: the table has no unique index
    /\ Committed(p, "register")
    /\ users' = users \union {handler[p].user}
    /\ UNCHANGED <<org_of, owner, members, agents, flags, count, removed, raced>>

InsertUser(p) ==
    /\ handler[p].at = "register"
    /\ IF Taken(handler[p].user)
       THEN Reply(p, "500") /\ UNCHANGED users
       ELSE Committed(p, "register") /\ users' = users \union {handler[p].user}
    /\ UNCHANGED <<org_of, owner, members, agents, flags, count, removed, raced>>

-----------------------------------------------------------------------------
(* create_organization: the row, its owner's membership and the owner's     *)
(* own row are one commit.                                                  *)
CreateOrganization(p, by) ==
    /\ Arrives(p) /\ by \in users
    /\ Proceed(p, [at |-> "create_organization", id |-> count', user |-> by])
    /\ UNCHANGED <<tables, removed, raced>>

InsertOrganization_Alone(p) ==    \* mutant: the owner's own row is left for later
    LET request == handler[p]
    IN  /\ Committed(p, "create_organization")
        /\ owner' = [owner EXCEPT ![request.id] = request.user]
        /\ members' = members \union {[id |-> request.id, org |-> request.id, user |-> request.user, role |-> "owner"]}
        /\ UNCHANGED <<users, org_of, agents, flags, count, removed, raced>>

InsertOrganization(p) ==
    LET request == handler[p]
    IN  /\ Committed(p, "create_organization")
        /\ owner' = [owner EXCEPT ![request.id] = request.user]
        /\ members' = members \union {[id |-> request.id, org |-> request.id, user |-> request.user, role |-> "owner"]}
        /\ org_of' = [org_of EXCEPT ![request.user] = request.id]
        /\ UNCHANGED <<users, agents, flags, count, removed, raced>>

-----------------------------------------------------------------------------
(* add_member, by an owner or admin: first who asks is checked, then that    *)
(* there is no such row yet; nothing but that check keeps rows apart.        *)
MayAdd(o, by) == \E m \in RowsOf(o, by) : m.role \in {"owner", "admin"}

AddMember(p, by, o, u, role) ==
    /\ Arrives(p) /\ by \in users
    /\ IF owner[o] = None THEN Reply(p, "404")
       ELSE IF ~MayAdd(o, by) THEN Reply(p, "403")
       ELSE Proceed(p, [at |-> "add_check", id |-> count', org |-> o, user |-> u, role |-> role])
    /\ UNCHANGED <<tables, removed, raced>>

Inserting(o, u) ==
    \E p \in Processes : handler[p].at = "add_member" /\ handler[p].org = o /\ handler[p].user = u

Insertion(request) ==
    [at |-> "add_member", id |-> request.id, org |-> request.org, user |-> request.user,
     role |-> request.role, seen |-> org_of[request.user]]

CheckMember_Not(p) ==    \* mutant: nothing is checked
    LET request == handler[p]
    IN  /\ request.at = "add_check"
        /\ Proceed(p, Insertion(request))
        /\ raced' = raced \union (IF Inserting(request.org, request.user)
                                  THEN {<<"member", request.org, request.user>>} ELSE {})
        /\ UNCHANGED <<tables, count, removed>>

CheckMember(p) ==
    LET request == handler[p]
    IN  /\ request.at = "add_check"
        /\ IF RowsOf(request.org, request.user) # {}
           THEN Reply(p, "400") /\ UNCHANGED raced
           ELSE /\ Proceed(p, Insertion(request))
                /\ raced' = raced \union (IF Inserting(request.org, request.user)
                                          THEN {<<"member", request.org, request.user>>} ELSE {})
        /\ UNCHANGED <<tables, count, removed>>

(* A column is written only if it is set to another value than the session   *)
(* has read.  A row for no user is refused by its foreign key.               *)
InsertMember(p) ==
    LET request == handler[p]
    IN  /\ request.at = "add_member"
        /\ IF request.user \in users
           THEN /\ Committed(p, "add_member")
                /\ members' = members \union {[id |-> request.id, org |-> request.org, user |-> request.user,
                                               role |-> request.role]}
                /\ org_of' = IF request.seen = request.org THEN org_of
                             ELSE [org_of EXCEPT ![request.user] = request.org]
           ELSE Reply(p, "500") /\ UNCHANGED <<members, org_of>>
        /\ UNCHANGED <<users, owner, agents, flags, count, removed, raced>>

(* remove_member, by the owner only: one row goes, and nothing else changes. *)
RemoveMember(p, by, o, u) ==
    /\ Arrives(p) /\ by \in users
    /\ IF owner[o] # by THEN Reply(p, "403")
       ELSE IF RowsOf(o, u) = {} THEN Reply(p, "404")
       ELSE \E m \in RowsOf(o, u) : Proceed(p, [at |-> "remove_member", row |-> m])
    /\ UNCHANGED <<tables, removed, raced>>

DeleteMember(p) ==
    LET row == handler[p].row
    IN  /\ Committed(p, "remove_member")
        /\ members' = members \ {row}
        /\ removed' = removed \union {<<row.org, row.user>>}
        /\ UNCHANGED <<users, org_of, owner, agents, flags, count, raced>>

-----------------------------------------------------------------------------
(* create_agent: for the organization's owner, and for the users whose row   *)
(* names the organization.  get_agent tells its readers the same way.        *)
BelongsTo_Any(o, by) == owner[o] # None    \* mutant: the user's row is not looked at

BelongsTo(o, by) == owner[o] # None /\ (owner[o] = by \/ org_of[by] = o)

CreateAgent(p, by, o) ==
    /\ Arrives(p) /\ by \in users
    /\ IF BelongsTo(o, by)
       THEN Proceed(p, [at |-> "create_agent", id |-> count', org |-> o, user |-> by])
       ELSE Reply(p, "403")
    /\ UNCHANGED <<tables, removed, raced>>

InsertAgent(p) ==
    LET request == handler[p]
    IN  /\ Committed(p, "create_agent")
        /\ agents' = agents \union {[id |-> request.id, org |-> request.org, user |-> request.user]}
        /\ UNCHANGED <<users, org_of, owner, members, flags, count, removed, raced>>

-----------------------------------------------------------------------------
(* The handlers that leave these columns as they are.  Each is the set of    *)
(* what it may tell a user: a status ("400" for all that is wrong with what  *)
(* was sent), and the organization it shows data of.                         *)
Tells(status) == [status |-> status, of |-> None]
Shows(o)      == [status |-> "ok", of |-> o]

(* These two need no account: a refresh token outlives its user's row. *)
Login(u)        == {Tells("401")} \union (IF u \in users THEN {Tells("ok")} ELSE {})
RefreshToken(u) == {Tells("401"), Tells("ok")}

GetCurrentUserInfo(u) == {Tells("ok")}

(* Organizations. *)
GetMyOrganization(u) ==
    {IF org_of[u] = None THEN Tells("404") ELSE IF owner[org_of[u]] = None THEN Tells("404") ELSE Shows(org_of[u])}

UpdateOrganization(u) == {IF owner[o] = u THEN Shows(o) ELSE Tells("404") : o \in Orgs}

ListMembers(u) == {IF RowsOf(o, u) = {} THEN Tells("403") ELSE Shows(o) : o \in Orgs}

(* Agents. *)
GetAgent(u) ==
    {Tells("404")} \union {IF BelongsTo(a.org, u) THEN Shows(a.org) ELSE Tells("403") : a \in agents}

UpdateAgent(u) ==
    {Tells("404")} \union {IF owner[a.org] = u THEN Shows(a.org) ELSE Tells("403") : a \in agents}

(* These take the user for a dictionary before they read or write more than  *)
(* the agent, and end in an error.                                           *)
TakesUserForDictionary == {Tells("500")}

DeleteAgent(u) == {Tells("404")} \union {Tells("500") : a \in agents}

GetConversation(u)    == TakesUserForDictionary
UpdateConversation(u) == TakesUserForDictionary
DeleteConversation(u) == TakesUserForDictionary
SendMessage(u)        == TakesUserForDictionary
GetMessages(u)        == TakesUserForDictionary

(* The pages of one's own organization: its subscription, unless it is no    *)
(* longer active, its bills, its usage, its logs and their statistics.       *)
OwnPage(u) == {IF org_of[u] = None THEN Tells("400") ELSE Shows(org_of[u])}

GetCurrentSubscription(u) == OwnPage(u) \union {Tells("500")}
ChangeSubscription(u)     == OwnPage(u) \union {Tells("400"), Tells("500")}
BillingPortal(u)          == OwnPage(u) \union {Tells("400")}
GetPaymentMethods(u)      == OwnPage(u)
ListInvoices(u)           == OwnPage(u)
UpcomingInvoice(u)        == OwnPage(u)
UsagePages(u)             == OwnPage(u)
QuotaPages(u)             == OwnPage(u)
AnalyticsPages(u)         == OwnPage(u)
EvaluateText(u)           == OwnPage(u)
GetGovernanceLogs(u)      == OwnPage(u)
GetGovernanceStats(u)     == OwnPage(u)
GetRiskAssessments(u)     == OwnPage(u)
GetRiskStats(u)           == OwnPage(u)
GetHallucinationLogs(u)   == OwnPage(u)
GetHallucinationStats(u)  == OwnPage(u)

(* Its knowledge and its products: a user without an organization is not    *)
(* refused, but what is looked up for him is that of none.                  *)
OwnKnowledge(u) ==
    {Tells("400"), Tells("500")} \union {IF org_of[u] = None THEN Tells("ok") ELSE Shows(org_of[u])}

KnowledgePages(u) == OwnKnowledge(u)
ProductPages(u)   == OwnKnowledge(u)

(* Its files. *)
UploadFile(u) == IF org_of[u] = None THEN {Tells("403")} ELSE {Tells("400"), Shows(org_of[u])}
OwnFile(u)    == {Tells("404")} \union (IF org_of[u] = None THEN {} ELSE {Shows(org_of[u])})
GetFile(u)    == OwnFile(u)
DeleteFile(u) == OwnFile(u)

(* What the handlers tell that go by who the user is to an organization, *)
CheckedTo(u) ==
    UNION {GetCurrentUserInfo(u),
           GetMyOrganization(u), UpdateOrganization(u), ListMembers(u),
           GetAgent(u), UpdateAgent(u), DeleteAgent(u),
           GetConversation(u), UpdateConversation(u), DeleteConversation(u), SendMessage(u), GetMessages(u),
           GetCurrentSubscription(u), ChangeSubscription(u), BillingPortal(u), GetPaymentMethods(u),
           ListInvoices(u), UpcomingInvoice(u), UsagePages(u), QuotaPages(u), AnalyticsPages(u),
           EvaluateText(u), GetGovernanceLogs(u), GetGovernanceStats(u),
           GetRiskAssessments(u), GetRiskStats(u), GetHallucinationLogs(u), GetHallucinationStats(u),
           KnowledgePages(u), ProductPages(u), UploadFile(u), GetFile(u), DeleteFile(u)}

(* and those that do not: for any agent, its policies are shown,             *)
(* conversations begun, and the conversations with those one talked to       *)
(* counted; a crawl's result is shown to whoever knows its number; and the   *)
(* figures of retrieval are those of all organizations together.             *)
AnyAgent == {Tells("404"), Tells("500")} \union {Shows(a.org) : a \in agents}
AnyOrganization == {Shows(o) : o \in {o \in Orgs : owner[o] # None}}

GetAgentPolicies(u)   == AnyAgent
CreateConversation(u) == AnyAgent
AnalyticsOverview(u)  == OwnPage(u) \union {Shows(a.org) : a \in agents}
CrawlStatus(u)        == {Tells("ok")} \union AnyOrganization
RetrievalHealth(u)    == {Tells("ok")} \union AnyOrganization

(* These show data of no organization: transcription and speech, scores of   *)
(* a text, the clearing of the cache.                                        *)
Services(u) == {Tells("ok"), Tells("400"), Tells("500")}

OpenTo(u) ==
    UNION {GetAgentPolicies(u), CreateConversation(u), AnalyticsOverview(u), CrawlStatus(u),
           RetrievalHealth(u), Services(u)}

(* The platform's pages, for superusers: any organization's. *)
PlatformPages(u) ==
    IF u \notin Superusers THEN {Tells("403")} ELSE {Tells("ok"), Tells("404"), Tells("500")} \union AnyOrganization

ToldTo(u) == CheckedTo(u) \union OpenTo(u) \union PlatformPages(u)

(* The database may refuse each of them. *)
Consult(p, u) ==
    /\ Arrives(p)
    /\ \E told \in {Tells("500")} \union Login(u) \union RefreshToken(u)
                   \union (IF u \in users THEN ToldTo(u) ELSE {}) :
          Reply(p, told.status)
    /\ UNCHANGED <<tables, removed, raced>>

-----------------------------------------------------------------------------
(* set_override of a feature of an organization, by a superuser.             *)
InsertingFlag(o) == \E p \in Processes : handler[p].at = "insert_flag" /\ handler[p].org = o

SetFeatureFlag(p, o, on) ==
    /\ Arrives(p) /\ owner[o] # None /\ Superusers \intersect users # {}
    /\ IF RowsFor(o) = {}
       THEN /\ Proceed(p, [at |-> "insert_flag", id |-> count', org |-> o, on |-> on])
            /\ raced' = raced \union (IF InsertingFlag(o) THEN {<<"flag", o>>} ELSE {})
       ELSE /\ \E f \in RowsFor(o) :
                  Proceed(p, [at |-> "update_flag", row |-> f.id, seen |-> f.on, on |-> on])
            /\ UNCHANGED raced
    /\ UNCHANGED <<tables, removed>>

InsertFlag(p) ==
    LET request == handler[p]
    IN  /\ Committed(p, "insert_flag")
        /\ flags' = flags \union {[id |-> request.id, org |-> request.org, on |-> request.on]}
        /\ UNCHANGED <<users, org_of, owner, members, agents, count, removed, raced>>

UpdateFlag(p) ==
    LET request == handler[p]
    IN  /\ Committed(p, "update_flag")
        /\ flags' = {IF f.id = request.row /\ request.seen # request.on
                     THEN [f EXCEPT !.on = request.on] ELSE f : f \in flags}
        /\ UNCHANGED <<users, org_of, owner, members, agents, count, removed, raced>>

-----------------------------------------------------------------------------
(* The process dies, or the database refuses: the transaction is undone.     *)
Fail(p) ==
    /\ handler[p].at # "idle"
    /\ Reply(p, "500")
    /\ UNCHANGED <<tables, count, removed, raced>>

Asks(p) ==
    \/ \E u \in Users : Register(p, u) \/ CreateOrganization(p, u)
    \/ \E by, u \in Users, o \in Orgs, role \in Roles : AddMember(p, by, o, u, role)
    \/ \E by, u \in Users, o \in Orgs : RemoveMember(p, by, o, u)
    \/ \E by \in Users, o \in Orgs : CreateAgent(p, by, o)
    \/ \E u \in Users : Consult(p, u)
    \/ \E o \in Orgs, on \in BOOLEAN : SetFeatureFlag(p, o, on)

Answers(p) ==
    \/ InsertUser(p) \/ InsertOrganization(p) \/ CheckMember(p) \/ InsertMember(p)
    \/ DeleteMember(p) \/ InsertAgent(p) \/ InsertFlag(p) \/ UpdateFlag(p)
    \/ Fail(p)

Next == \E p \in Processes : Asks(p) \/ Answers(p)

Spec == Init /\ [][Next]_vars
=============================================================================
