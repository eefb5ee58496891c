---------------------------- MODULE AccountsProps ----------------------------
(***************************************************************************)
(* What the accounts tables hold whatever the requests that write them at  *)
(* the same time, stated over Accounts.                                    *)
(***************************************************************************)
EXTENDS Accounts

(* No two accounts have an e-mail or a username in common, however their    *)
(* registrations interleave, and who was registered stays so               *)
(* (auth.py:29-51, models/user.py:16-17).                                  *)
AccountsAreUnique ==
    /\ \A u, v \in users : u # v => <<u, v>> \notin Clash
    /\ Registered \subseteq users

(* A membership has one row, and so has an override: there are two only if  *)
(* two requests had both found none and were to insert one, which no        *)
(* constraint prevents (organizations.py:171-187, feature_flags/service.py: *)
(* 99-119).  Removals, requests that fail and later requests leave none     *)
(* behind.                                                                  *)
OneRowEach ==
    /\ \A m, n \in members :
          m # n /\ m.org = n.org /\ m.user = n.user => <<"member", m.org, m.user>> \in raced
    /\ \A f, g \in flags : f # g /\ f.org = g.org => <<"flag", f.org>> \in raced

(* The organization in a user's row, which is what most of the API goes by, *)
(* exists and is one the user was made a member of; a user with a            *)
(* membership has one, although each membership writes over that of another  *)
(* and the write is left out when the session's copy has the value already;  *)
(* and no membership is of an organization that does not exist               *)
(* (organizations.py:51-60, 161-193).                                        *)
RowsNameOrganizations ==
    /\ \A u \in Users :
          /\ org_of[u] # None =>
                owner[org_of[u]] # None /\ (RowsOf(org_of[u], u) # {} \/ <<org_of[u], u>> \in removed)
          /\ \A o \in Orgs : RowsOf(o, u) # {} => org_of[u] # None
    /\ \A m \in members : owner[m.org] # None

(* Who is in an organization, or was at some time, by the doing of someone   *)
(* in charge of it: remove_member leaves the user's own row as it is         *)
(* (organizations.py:198-221).                                               *)
Insider(o, u) == owner[o] = u \/ RowsOf(o, u) # {} \/ <<o, u>> \in removed

(* Only an insider makes an agent of an organization, and the handlers that  *)
(* ask who the user is show him data of one only if he owns it, is a member, *)
(* or was one and his row names it still.  Each of them goes by something    *)
(* else: the owner's column, the memberships, or the user's column, which    *)
(* each membership writes over that of another (agents.py:32-47, 101-112,    *)
(* organizations.py:80-85, 132-138).  The handlers of OpenTo ask nothing.    *)
InsidersOnly ==
    /\ \A a \in agents : Insider(a.org, a.user)
    /\ \A u \in users : \A told \in CheckedTo(u) :
          told.of # None =>
              \/ owner[told.of] = u
              \/ RowsOf(told.of, u) # {}
              \/ <<told.of, u>> \in removed /\ org_of[u] = told.of
=============================================================================
