----------------------------- MODULE Membership -----------------------------
(***************************************************************************)
(* The members of one organization and what their roles let them do: the   *)
(* routes of apps/api/src/auth.ts that authorize a request and then change *)
(* the organization in a transaction of their own.                         *)
(*                                                                         *)
(* A request is authorized by a read of its user's membership.  What it    *)
(* does is committed later; the role change reads the target's role and    *)
(* counts the owners first.  The transactions are READ COMMITTED, so every *)
(* statement sees what is committed when it runs, and each is one step.  A *)
(* commit makes the update and its audit event visible together.           *)
(*                                                                         *)
(* Sessions, CSRF and the age of an authentication are left out: they only *)
(* reject requests.  No route adds a member to an organization: members    *)
(* are inserted by whoever operates the database, here never as owners.    *)
(***************************************************************************)
EXTENDS Integers, FiniteSets, Sequences

CONSTANTS
    Users,
    Requests,               \* concurrent requests
    Administration,         \* audited actions of an owner: "policy.activated",
                            \* "integration.changed", "organization.pause.removed"
    MaxChanges              \* bound: role changes begun

ASSUME UsersAssumption == IsFiniteSet(Users)
ASSUME AdministrationAssumption ==
    Administration \subseteq
        {"policy.activated", "integration.changed", "organization.pause.removed"}
ASSUME MaxChangesAssumption == MaxChanges \in Nat

VARIABLES
    role,                   \* role[u]: the membership of u, "none" if there is none
    joined,                 \* joined[u]: the role u was inserted with
    creator,                \* who created the organization, {} before
    audit,                  \* audit[u]: the membership.role.changed events of u
    acts,                   \* the other security events, as <<action, actor>>
    requests,               \* requests[r]: where request r is
    changes                 \* role changes begun so far

members == <<role, joined, creator>>
vars == <<members, audit, acts, requests, changes>>

Roles == {"viewer", "operator", "approver", "owner"}

Actions == Administration \cup {"approval.decide"}

(* roleCapabilities, as far as these routes ask.  (Mutant: an approver     *)
(* may do all that an owner may.)                                          *)
CapabilitiesOfApprovers(r) ==
    CASE r \in {"owner", "approver"} -> {"approval:decide", "organization:administer"}
      [] OTHER -> {}

Capabilities(r) ==
    CASE r = "owner"    -> {"approval:decide", "organization:administer"}
      [] r = "approver" -> {"approval:decide"}
      [] OTHER          -> {}

CapabilityFor(action) ==
    IF action = "approval.decide" THEN "approval:decide" ELSE "organization:administer"

Change == [actor : Users, from : Roles, to : Roles]

(* `user` does `action`, or changes the role of `target`, which it found   *)
(* to be `previous`, to `to`; it counted `owners` owners, 0 if it did not. *)
Request ==
    [at : {"idle", "act", "find", "count", "set"}, user : SUBSET Users, action : Actions,
     target : SUBSET Users, to : Roles, previous : Roles, owners : Nat]

Idle ==
    [at |-> "idle", user |-> {}, action |-> "approval.decide",
     target |-> {}, to |-> "viewer", previous |-> "viewer", owners |-> 0]

Finish(r) == requests' = [requests EXCEPT ![r] = Idle]

Owners == {u \in Users : role[u] = "owner"}

-----------------------------------------------------------------------------

Init ==
    /\ role = [u \in Users |-> "none"]
    /\ joined = [u \in Users |-> "none"]
    /\ creator = {}
    /\ audit = [u \in Users |-> <<>>]
    /\ acts = {}
    /\ requests = [r \in Requests |-> Idle]
    /\ changes = 0

(* POST /organizations: organization, owner and audit event in one         *)
(* transaction.  Its id is new.                                            *)
CreateOrganization(u) ==
    /\ creator = {}
    /\ creator' = {u}
    /\ role' = [role EXCEPT ![u] = "owner"]
    /\ acts' = acts \cup {<<"organization.created", u>>}
    /\ UNCHANGED <<joined, audit, requests, changes>>

InsertMember(u, as) ==
    /\ creator # {} /\ role[u] = "none"
    /\ as # "owner"
    /\ role' = [role EXCEPT ![u] = as]
    /\ joined' = [joined EXCEPT ![u] = as]
    /\ UNCHANGED <<creator, audit, acts, requests, changes>>

(* authorize(): the membership of the user, now. *)
May(u, capability) == capability \in Capabilities(role[u])

(* A decision, a policy activation, an integration reference or the end of *)
(* a pause is authorized, *)
Authorize(r, u, action) ==
    /\ requests[r] = Idle
    /\ May(u, CapabilityFor(action))
    /\ requests' = [requests EXCEPT ![r].at = "act", ![r].user = {u}, ![r].action = action]
    /\ UNCHANGED <<members, audit, acts, changes>>

(* and committed with its audit event.                                     *)
Act(r) ==
    /\ requests[r].at = "act"
    /\ acts' = acts \cup {<<requests[r].action, u>> : u \in requests[r].user}
    /\ Finish(r)
    /\ UNCHANGED <<members, audit, changes>>

(* PATCH .../members/:userId/role: nobody changes their own role. *)
AuthorizeChange(r, u, target, to) ==
    /\ requests[r] = Idle
    /\ changes < MaxChanges
    /\ May(u, "organization:administer")
    /\ target # u
    /\ requests' = [requests EXCEPT ![r] =
        [Idle EXCEPT !.at = "find", !.user = {u}, !.target = {target}, !.to = to]]
    /\ changes' = changes + 1
    /\ UNCHANGED <<members, audit, acts>>

(* memberships.find: the target's role decides whether owners are counted. *)
FindPrevious(r) ==
    /\ requests[r].at = "find"
    /\ \E target \in requests[r].target :
        IF role[target] = "none"
        THEN Finish(r)
        ELSE requests' = [requests EXCEPT
                ![r].previous = role[target],
                ![r].at = IF role[target] = "owner" /\ requests[r].to # "owner"
                          THEN "count" ELSE "set"]
    /\ UNCHANGED <<members, audit, acts, changes>>

(* memberships.countOwners: the last owner stays (LAST_OWNER).  (Mutants:  *)
(* off by one; the event is recorded although the change is refused.)      *)
CountOwnersOffByOne(r) ==
    /\ requests[r].at = "count"
    /\ IF Cardinality(Owners) < 1
       THEN Finish(r)
       ELSE requests' = [requests EXCEPT ![r].at = "set", ![r].owners = Cardinality(Owners)]
    /\ UNCHANGED <<members, audit, acts, changes>>

CountOwners(r) ==
    /\ requests[r].at = "count"
    /\ IF Cardinality(Owners) <= 1
       THEN Finish(r)
       ELSE requests' = [requests EXCEPT ![r].at = "set", ![r].owners = Cardinality(Owners)]
    /\ UNCHANGED <<members, audit, acts, changes>>

(* memberships.setRole and recordSecurityEvent, `${previous.role} -> ${role}`. *)
(* (Mutant: the role is set only while the target still has the role that  *)
(* was found, and the event is recorded all the same.)                     *)
SetRoleIfUnchanged(r) ==
    /\ requests[r].at = "set"
    /\ \E u \in requests[r].user, target \in requests[r].target :
        /\ role' = [role EXCEPT ![target] = IF @ = requests[r].previous THEN requests[r].to ELSE @]
        /\ audit' = [audit EXCEPT ![target] = Append(@,
                [actor |-> u, from |-> requests[r].previous, to |-> requests[r].to])]
    /\ Finish(r)
    /\ UNCHANGED <<joined, creator, acts, changes>>

SetRole(r) ==
    /\ requests[r].at = "set"
    /\ \E u \in requests[r].user, target \in requests[r].target :
        /\ role' = [role EXCEPT ![target] = requests[r].to]
        /\ audit' = [audit EXCEPT ![target] = Append(@,
                [actor |-> u, from |-> requests[r].previous, to |-> requests[r].to])]
    /\ Finish(r)
    /\ UNCHANGED <<joined, creator, acts, changes>>

(* The transaction is rolled back or the process dies. *)
Abort(r) ==
    /\ requests[r] # Idle
    /\ Finish(r)
    /\ UNCHANGED <<members, audit, acts, changes>>

Next ==
    \/ \E u \in Users :
        \/ CreateOrganization(u)
        \/ \E as \in Roles : InsertMember(u, as)
    \/ \E r \in Requests :
        \/ \E u \in Users :
            \/ \E action \in Actions : Authorize(r, u, action)
            \/ \E target \in Users, to \in Roles : AuthorizeChange(r, u, target, to)
        \/ Act(r) \/ FindPrevious(r) \/ CountOwners(r) \/ SetRole(r) \/ Abort(r)

Spec == Init /\ [][Next]_vars

-----------------------------------------------------------------------------
(* Type correctness of memberships, events and requests. *)
TypeOK ==
    /\ role \in [Users -> Roles \cup {"none"}]
    /\ joined \in [Users -> Roles \cup {"none"}]
    /\ creator \subseteq Users
    /\ audit \in [Users -> Seq(Change)]
    /\ acts \subseteq (Actions \cup {"organization.created"}) \X Users
    /\ requests \in [Requests -> Request]
    /\ changes \in 0 .. MaxChanges

Changes == UNION {{[target |-> u, actor |-> audit[u][k].actor, to |-> audit[u][k].to]
                        : k \in DOMAIN audit[u]} : u \in Users}

(* All authority comes from the creator: whoever administered the          *)
(* organization was made an owner by somebody who was made an owner, and   *)
(* so on back to the creator, although requests are authorized long before *)
(* they commit and their users may have lost the role by then.  Every set  *)
(* of users that holds the creator and is closed under making owners holds *)
(* all who administered.                                                   *)
AuthorityFromCreator ==
    \A S \in SUBSET Users :
        (creator \subseteq S /\ \A c \in Changes : (c.actor \in S /\ c.to = "owner") => c.target \in S)
            => /\ \A c \in Changes : c.actor \in S
               /\ \A act \in acts : act[1] \in Administration => act[2] \in S

(* The role of a member can be read off the audit events: the last one     *)
(* tells it, however many role changes of that member overlap.             *)
AuditTellsRole ==
    \A u \in Users :
        role[u] = IF audit[u] # <<>> THEN audit[u][Len(audit[u])].to
                  ELSE IF u \in creator THEN "owner" ELSE joined[u]

(* An organization loses its last owner only by a demotion that another    *)
(* role change has overtaken: the target was no owner yet when its role    *)
(* was found, so nobody counted, or there were more owners when they were  *)
(* counted.  One change at a time, the check for the last owner suffices.  *)
LastOwnerLostOnlyInRace ==
    [][(Owners # {} /\ Owners' = {}) =>
        \E r \in Requests :
            /\ requests[r].at = "set" /\ requests'[r].at = "idle"
            /\ \/ \E target \in requests[r].target : role[target] # requests[r].previous
               \/ requests[r].owners > Cardinality(Owners)]_vars

=============================================================================
