-------------------------- MODULE MembershipProofs --------------------------
(***************************************************************************)
(* The authority of members and the sessions they act with, proved for any *)
(* number of people and of requests and for any bounds and lifetimes.      *)
(*                                                                         *)
(* Membership: type correctness, that the audit events tell every role,    *)
(* that an organization loses its last owner only in a race, and that all  *)
(* authority comes from the creator.                                       *)
(*                                                                         *)
(* Session: type correctness, that a sensitive action follows a recent     *)
(* authentication of the same person, that a CSRF token or a login is      *)
(* refused only where cookie changes overlapped, an answer was lost or     *)
(* time ran out, and that signing out is final.                            *)
(***************************************************************************)
EXTENDS Membership, Session, FiniteSetTheorems, SequenceTheorems, TLAPS

(* Nothing happens in an organization before it is created. *)
FoundedFirst ==
    creator = {} =>
        /\ \A u \in Users : audit[u] = <<>> /\ joined[u] = "none"
        /\ \A r \in Requests : requests[r] = Idle

(* A demotion of an owner that is about to be committed has counted others. *)
CountedBeforeDemoting ==
    \A r \in Requests :
        requests[r].at = "set" /\ requests[r].previous = "owner" /\ requests[r].to # "owner"
            => requests[r].owners > 1

MembershipInv == TypeOK /\ FoundedFirst /\ AuditTellsRole /\ CountedBeforeDemoting

(* S holds the creator and whoever a member of S made an owner. *)
Closed(S) ==
    /\ creator \subseteq S
    /\ \A c \in Changes : (c.actor \in S /\ c.to = "owner") => c.target \in S

Administers(r) ==
    \/ requests[r].at \in {"find", "count", "set"}
    \/ requests[r].at = "act" /\ requests[r].action \in Administration

(* S holds all owners, and all whose administrative requests were accepted, *)
(* in flight or committed.                                                  *)
HoldsAuthority(S) ==
    /\ Owners \subseteq S
    /\ \A r \in Requests : Administers(r) => requests[r].user \subseteq S
    /\ \A c \in Changes : c.actor \in S
    /\ \A act \in acts : act[1] \in Administration => act[2] \in S

AuthorityInv == \A S \in SUBSET Users : Closed(S) => HoldsAuthority(S)

-----------------------------------------------------------------------------
(* The idle request is a request. *)
LEMMA IdleType == Idle \in Request
  BY DEF Idle, Request, Actions, Roles

(* The owners can be counted. *)
LEMMA OwnersFinite == Cardinality(Owners) \in Nat
  BY UsersAssumption, FS_Subset, FS_CardinalityType DEF Owners

(* The invariant holds in a database without the organization. *)
LEMMA InitInv == Init => MembershipInv
<1> SUFFICES ASSUME Init PROVE MembershipInv
  OBVIOUS
<1>1. TypeOK
  BY IdleType, EmptySeq, MaxChangesAssumption DEF Init, TypeOK
<1>2. FoundedFirst /\ AuditTellsRole
  BY DEF Init, FoundedFirst, AuditTellsRole
<1>3. CountedBeforeDemoting
  BY DEF Init, CountedBeforeDemoting, Idle
<1> QED BY <1>1, <1>2, <1>3 DEF MembershipInv

(* The organization begins with its creator as the only member. *)
LEMMA CreateStep ==
  ASSUME MembershipInv, NEW u \in Users, CreateOrganization(u)
  PROVE  MembershipInv'
<1>1. TypeOK'
  BY DEF MembershipInv, TypeOK, CreateOrganization, Roles
<1>2. FoundedFirst'
  BY DEF CreateOrganization, FoundedFirst
<1>3. AuditTellsRole'
  BY DEF MembershipInv, TypeOK, FoundedFirst, AuditTellsRole, CreateOrganization
<1>4. CountedBeforeDemoting'
  BY DEF MembershipInv, CountedBeforeDemoting, CreateOrganization
<1> QED BY <1>1, <1>2, <1>3, <1>4 DEF MembershipInv

(* Whoever is inserted has no events yet: the last event would tell a role. *)
LEMMA InsertStep ==
  ASSUME MembershipInv, NEW u \in Users, NEW as \in Roles, InsertMember(u, as)
  PROVE  MembershipInv'
<1>1. TypeOK'
  BY DEF MembershipInv, TypeOK, InsertMember, Roles
<1>2. FoundedFirst'
  BY DEF InsertMember, FoundedFirst
<1>3. AuditTellsRole'
  <2>1. ASSUME audit[u] # <<>> PROVE audit[u][Len(audit[u])].to \in Roles
    <3>1. audit[u] \in Seq(Change)
      BY DEF MembershipInv, TypeOK
    <3>2. Len(audit[u]) \in 1 .. Len(audit[u])
      BY <2>1, <3>1
    <3>3. audit[u][Len(audit[u])] \in Change
      BY <3>1, <3>2, ElementOfSeq
    <3> QED BY <3>3 DEF Change
  <2>2. audit[u] = <<>> /\ u \notin creator
    BY <2>1 DEF MembershipInv, TypeOK, AuditTellsRole, InsertMember, Roles
  <2> QED BY <2>2 DEF MembershipInv, TypeOK, AuditTellsRole, InsertMember
<1>4. CountedBeforeDemoting'
  BY DEF MembershipInv, CountedBeforeDemoting, InsertMember
<1> QED BY <1>1, <1>2, <1>3, <1>4 DEF MembershipInv

(* Only members are authorized, so the organization has been created. *)
LEMMA AuthorizedIsFounded ==
  ASSUME MembershipInv, NEW u \in Users, NEW capability, May(u, capability)
  PROVE  creator # {} /\ role[u] # "none"
  BY DEF MembershipInv, FoundedFirst, AuditTellsRole, May, Capabilities

(* A request is authorized. *)
LEMMA AuthorizeStep ==
  ASSUME MembershipInv, NEW r \in Requests, NEW u \in Users,
         \/ \E action \in Actions : Authorize(r, u, action)
         \/ \E target \in Users, to \in Roles : AuthorizeChange(r, u, target, to)
  PROVE  MembershipInv'
<1>0. creator # {}
  BY AuthorizedIsFounded DEF Authorize, AuthorizeChange
<1>1. TypeOK'
  <2>1. UNCHANGED <<members, audit, acts>>
    BY DEF Authorize, AuthorizeChange
  <2>3. changes' = changes \/ (changes < MaxChanges /\ changes' = changes + 1)
    BY DEF Authorize, AuthorizeChange
  <2>4. changes' \in 0 .. MaxChanges
    BY <2>3, MaxChangesAssumption DEF MembershipInv, TypeOK
  <2>2. requests' \in [Requests -> Request]
    <3>1. CASE \E action \in Actions : Authorize(r, u, action)
      <4> PICK action \in Actions : Authorize(r, u, action)
        BY <3>1
      <4>1. requests' = [requests EXCEPT ![r] =
                [Idle EXCEPT !.at = "act", !.user = {u}, !.action = action]]
        BY DEF MembershipInv, TypeOK, Authorize
      <4>2. [Idle EXCEPT !.at = "act", !.user = {u}, !.action = action] \in Request
        BY DEF Idle, Request, Roles
      <4> QED BY <4>1, <4>2 DEF MembershipInv, TypeOK
    <3>2. CASE \E target \in Users, to \in Roles : AuthorizeChange(r, u, target, to)
      <4> PICK target \in Users, to \in Roles : AuthorizeChange(r, u, target, to)
        BY <3>2
      <4> DEFINE change ==
            [Idle EXCEPT !.at = "find", !.user = {u}, !.target = {target}, !.to = to]
      <4>1. requests' = [requests EXCEPT ![r] = change]
        BY DEF AuthorizeChange
      <4>2. change \in Request
        BY DEF Idle, Request, Roles, Actions
      <4> QED BY <4>1, <4>2 DEF MembershipInv, TypeOK
    <3> QED BY <3>1, <3>2
  <2> QED BY <2>1, <2>2, <2>4 DEF MembershipInv, TypeOK, members
<1>2. FoundedFirst'
  BY <1>0 DEF Authorize, AuthorizeChange, members, FoundedFirst
<1>3. AuditTellsRole'
  BY DEF MembershipInv, Authorize, AuthorizeChange, members, AuditTellsRole
<1>4. CountedBeforeDemoting'
  BY DEF MembershipInv, TypeOK, CountedBeforeDemoting, Authorize, AuthorizeChange, Idle
<1> QED BY <1>1, <1>2, <1>3, <1>4 DEF MembershipInv

(* What the two reads of a role change put into the request. *)
Found(r, target) ==
    /\ requests[r].at = "find" /\ role[target] # "none"
    /\ requests' = [requests EXCEPT ![r] = [requests[r] EXCEPT
            !.previous = role[target],
            !.at = IF role[target] = "owner" /\ requests[r].to # "owner"
                   THEN "count" ELSE "set"]]

Counted(r) ==
    /\ requests[r].at = "count" /\ Cardinality(Owners) > 1
    /\ requests' = [requests EXCEPT ![r] = [requests[r] EXCEPT
            !.at = "set", !.owners = Cardinality(Owners)]]

(* A step that changes no member ends the request or reads on. *)
LEMMA HowItReads ==
  ASSUME MembershipInv, NEW r \in Requests,
         Act(r) \/ FindPrevious(r) \/ CountOwners(r) \/ Abort(r)
  PROVE  \/ requests' = [requests EXCEPT ![r] = Idle]
         \/ \E target \in Users : Found(r, target)
         \/ Counted(r)
<1>1. requests \in [Requests -> Request] /\ requests[r] \in Request
  BY DEF MembershipInv, TypeOK
<1>2. CASE FindPrevious(r)
  <2>1. PICK target \in requests[r].target :
            IF role[target] = "none"
            THEN Finish(r)
            ELSE requests' = [requests EXCEPT
                    ![r].previous = role[target],
                    ![r].at = IF role[target] = "owner" /\ requests[r].to # "owner"
                              THEN "count" ELSE "set"]
    BY <1>2 DEF FindPrevious
  <2>2. target \in Users
    BY <1>1 DEF Request
  <2> QED BY <1>1, <1>2, <2>1, <2>2 DEF FindPrevious, Found, Finish
<1>3. CASE CountOwners(r)
  <2>1. CASE Cardinality(Owners) <= 1
    BY <1>3, <2>1 DEF CountOwners, Finish
  <2>2. CASE ~(Cardinality(Owners) <= 1)
    <3> DEFINE n == Cardinality(Owners)
    <3>1. n > 1
      BY <2>2, OwnersFinite
    <3>2. requests' = [requests EXCEPT ![r].at = "set", ![r].owners = n]
      BY <1>3, <2>2 DEF CountOwners
    <3> HIDE DEF n
    <3>3. requests' = [requests EXCEPT ![r] = [requests[r] EXCEPT !.at = "set", !.owners = n]]
      BY <1>1, <3>2
    <3> QED BY <1>3, <3>1, <3>3 DEF CountOwners, Counted, n
  <2> QED BY <2>1, <2>2
<1> QED BY <1>2, <1>3 DEF Act, Abort, Finish

(* A request reads, ends or is aborted: the members stay as they are. *)
LEMMA ReadStep ==
  ASSUME MembershipInv, NEW r \in Requests,
         Act(r) \/ FindPrevious(r) \/ CountOwners(r) \/ Abort(r)
  PROVE  MembershipInv'
<1>0. requests[r] # Idle /\ creator # {}
  BY DEF MembershipInv, FoundedFirst, Act, FindPrevious, CountOwners, Abort, Idle
<1>1. TypeOK'
  <2>1. UNCHANGED <<members, audit, changes>>
    BY DEF Act, FindPrevious, CountOwners, Abort
  <2>2. requests' \in [Requests -> Request]
    <3>1. CASE requests' = [requests EXCEPT ![r] = Idle]
      BY <3>1, IdleType DEF MembershipInv, TypeOK
    <3>2. CASE \E target \in Users : Found(r, target)
      <4> PICK target \in Users : Found(r, target)
        BY <3>2
      <4>1. role[target] \in Roles /\ requests[r] \in Request
        BY DEF MembershipInv, TypeOK, Found
      <4>2. [requests[r] EXCEPT
                !.previous = role[target],
                !.at = IF role[target] = "owner" /\ requests[r].to # "owner"
                       THEN "count" ELSE "set"] \in Request
        BY <4>1 DEF Request
      <4> QED BY <4>2 DEF MembershipInv, TypeOK, Found
    <3>3. CASE Counted(r)
      BY <3>3, OwnersFinite DEF MembershipInv, TypeOK, Counted, Request
    <3> QED BY <3>1, <3>2, <3>3, HowItReads
  <2>3. acts' \subseteq (Actions \cup {"organization.created"}) \X Users
    <3>1. requests[r].action \in Actions /\ requests[r].user \subseteq Users
      BY DEF MembershipInv, TypeOK, Request
    <3> QED BY <3>1 DEF MembershipInv, TypeOK, Act, FindPrevious, CountOwners, Abort
  <2> QED BY <2>1, <2>2, <2>3 DEF MembershipInv, TypeOK, members
<1>2. FoundedFirst'
  BY <1>0 DEF Act, FindPrevious, CountOwners, Abort, members, FoundedFirst
<1>3. AuditTellsRole'
  BY DEF MembershipInv, Act, FindPrevious, CountOwners, Abort, members, AuditTellsRole
<1>4. CountedBeforeDemoting'
  <2>1. CASE requests' = [requests EXCEPT ![r] = Idle]
    BY <2>1 DEF MembershipInv, TypeOK, CountedBeforeDemoting, Idle
  <2>2. CASE \E target \in Users : Found(r, target)
    BY <2>2 DEF MembershipInv, TypeOK, CountedBeforeDemoting, Found, Request
  <2>3. CASE Counted(r)
    BY <2>3, OwnersFinite DEF MembershipInv, TypeOK, CountedBeforeDemoting, Counted, Request
  <2> QED BY <2>1, <2>2, <2>3, HowItReads
<1> QED BY <1>1, <1>2, <1>3, <1>4 DEF MembershipInv

(* The role and the event that tells it change together. *)
LEMMA SetRoleStep ==
  ASSUME MembershipInv, NEW r \in Requests, SetRole(r)
  PROVE  MembershipInv'
<1>0. creator # {} /\ UNCHANGED <<joined, creator, acts, changes>>
  BY DEF MembershipInv, FoundedFirst, SetRole, Idle
<1> PICK u \in requests[r].user, target \in requests[r].target :
        /\ role' = [role EXCEPT ![target] = requests[r].to]
        /\ audit' = [audit EXCEPT ![target] = Append(@,
                [actor |-> u, from |-> requests[r].previous, to |-> requests[r].to])]
  BY DEF SetRole
<1> DEFINE event == [actor |-> u, from |-> requests[r].previous, to |-> requests[r].to]
<1>1. u \in Users /\ target \in Users /\ event \in Change /\ requests[r].to \in Roles
  BY DEF MembershipInv, TypeOK, Request, Change
<1>2. /\ audit[target] \in Seq(Change) /\ Append(audit[target], event) \in Seq(Change)
      /\ Append(audit[target], event) # <<>>
      /\ Append(audit[target], event)[Len(Append(audit[target], event))] = event
  <2>1. audit[target] \in Seq(Change)
    BY <1>1 DEF MembershipInv, TypeOK
  <2> HIDE DEF event
  <2> QED BY <1>1, <2>1
<1> HIDE DEF event
<1>3. TypeOK'
  BY <1>0, <1>1, <1>2, IdleType DEF MembershipInv, TypeOK, SetRole, Finish, event
<1>4. FoundedFirst'
  BY <1>0 DEF FoundedFirst
<1>5. AuditTellsRole'
  <2> SUFFICES ASSUME NEW v \in Users
               PROVE  role'[v] = IF audit'[v] # <<>> THEN audit'[v][Len(audit'[v])].to
                                 ELSE IF v \in creator THEN "owner" ELSE joined[v]
    BY <1>0 DEF AuditTellsRole
  <2>1. CASE v = target
    <3>1. audit'[v] = Append(audit[target], event) /\ role'[v] = requests[r].to
      BY <1>1, <2>1 DEF MembershipInv, TypeOK, event
    <3>2. event.to = requests[r].to
      BY DEF event
    <3>3. audit'[v] # <<>> /\ audit'[v][Len(audit'[v])] = event
      BY <1>2, <3>1
    <3>4. audit'[v][Len(audit'[v])].to = requests[r].to
      BY <3>2, <3>3
    <3> QED BY <3>1, <3>3, <3>4
  <2>2. CASE v # target
    <3>1. audit'[v] = audit[v] /\ role'[v] = role[v]
      BY <2>2 DEF MembershipInv, TypeOK
    <3> QED BY <3>1 DEF MembershipInv, AuditTellsRole
  <2> QED BY <2>1, <2>2
<1>6. CountedBeforeDemoting'
  BY DEF MembershipInv, TypeOK, CountedBeforeDemoting, SetRole, Finish, Idle
<1> QED BY <1>3, <1>4, <1>5, <1>6 DEF MembershipInv

(* Every step keeps the invariant. *)
LEMMA StepInv == MembershipInv /\ [Next]_vars => MembershipInv'
<1> SUFFICES ASSUME MembershipInv, [Next]_vars PROVE MembershipInv'
  OBVIOUS
<1>1. CASE UNCHANGED vars
  BY <1>1 DEF vars, members, MembershipInv, TypeOK, FoundedFirst, AuditTellsRole,
     CountedBeforeDemoting
<1>2. CASE Next
  BY <1>2, CreateStep, InsertStep, AuthorizeStep, ReadStep, SetRoleStep DEF Next
<1> QED BY <1>1, <1>2

(* Memberships, events and requests always have the types of the schema. *)
THEOREM TypeCorrect == Spec => []TypeOK
  BY InitInv, StepInv, PTL DEF Spec, MembershipInv

(* The last audit event of a member tells the role, however many role      *)
(* changes overlap.                                                        *)
THEOREM RoleIsAudited == Spec => []AuditTellsRole
  BY InitInv, StepInv, PTL DEF Spec, MembershipInv

-----------------------------------------------------------------------------
(* Only a demotion takes away an owner. *)
LEMMA OwnersOnlyLostBySetRole ==
  ASSUME MembershipInv, [Next]_vars, Owners # {}, Owners' = {}
  PROVE  \E r \in Requests : SetRole(r)
<1>1. ASSUME \A u \in Users : role[u] = "owner" => role'[u] = "owner" PROVE FALSE
  BY <1>1 DEF Owners
<1>2. ASSUME NEW u \in Users, CreateOrganization(u) PROVE FALSE
  BY <1>1, <1>2 DEF CreateOrganization, MembershipInv, TypeOK
<1>3. ASSUME NEW u \in Users, NEW as \in Roles, InsertMember(u, as) PROVE FALSE
  BY <1>1, <1>3 DEF InsertMember, MembershipInv, TypeOK
<1>4. role' # role
  BY DEF Owners
<1> QED BY <1>2, <1>3, <1>4
        DEF Next, vars, members, Authorize, AuthorizeChange, Act, FindPrevious, CountOwners, Abort

(* The last owner is demoted only by a change that found another role, or  *)
(* counted more owners than there are now.                                 *)
LEMMA LastOwnerStep ==
  ASSUME MembershipInv, [Next]_vars, Owners # {}, Owners' = {}
  PROVE  \E r \in Requests :
            /\ requests[r].at = "set" /\ requests'[r].at = "idle"
            /\ \/ \E target \in requests[r].target : role[target] # requests[r].previous
               \/ requests[r].owners > Cardinality(Owners)
<1> PICK r \in Requests : SetRole(r)
  BY OwnersOnlyLostBySetRole
<1> PICK u \in requests[r].user, target \in requests[r].target :
        role' = [role EXCEPT ![target] = requests[r].to]
  BY DEF SetRole
<1>1. requests[r].at = "set" /\ requests'[r].at = "idle"
  BY DEF SetRole, Finish, MembershipInv, TypeOK, Idle
<1>2. target \in Users
  BY DEF MembershipInv, TypeOK, Request
<1>3. Owners = {target} /\ requests[r].to # "owner"
  BY <1>2 DEF Owners, MembershipInv, TypeOK
<1>4. Cardinality(Owners) = 1
  BY <1>3, FS_Singleton
<1>5. CASE role[target] # requests[r].previous
  BY <1>1, <1>5
<1>6. CASE role[target] = requests[r].previous
  <2>1. requests[r].previous = "owner"
    BY <1>3, <1>6 DEF Owners
  <2> QED BY <1>1, <1>3, <1>4, <2>1 DEF MembershipInv, CountedBeforeDemoting
<1> QED BY <1>5, <1>6

(* An organization loses its last owner only to a role change that another *)
(* one has overtaken, however many users and requests there are.           *)
THEOREM LastOwnerOnlyLostInRace == Spec => LastOwnerLostOnlyInRace
<1>1. MembershipInv /\ [Next]_vars =>
        [(Owners # {} /\ Owners' = {}) =>
            \E r \in Requests :
                /\ requests[r].at = "set" /\ requests'[r].at = "idle"
                /\ \/ \E target \in requests[r].target : role[target] # requests[r].previous
                   \/ requests[r].owners > Cardinality(Owners)]_vars
  BY LastOwnerStep
<1> QED BY <1>1, InitInv, StepInv, PTL DEF Spec, LastOwnerLostOnlyInRace

-----------------------------------------------------------------------------
(* A commit of a role change adds that change to the audited ones. *)
LEMMA ChangesGrow ==
  ASSUME MembershipInv, NEW target \in Users, NEW event \in Change,
         audit' = [audit EXCEPT ![target] = Append(@, event)]
  PROVE  Changes' = Changes \cup {[target |-> target, actor |-> event.actor, to |-> event.to]}
<1> DEFINE Event(u, e) == [target |-> u, actor |-> e.actor, to |-> e.to]
<1>1. \A u \in Users : audit[u] \in Seq(Change)
  BY DEF MembershipInv, TypeOK
<1>2. /\ audit'[target] = Append(audit[target], event)
      /\ \A u \in Users \ {target} : audit'[u] = audit[u]
  BY DEF MembershipInv, TypeOK
<1>3. /\ DOMAIN audit'[target] = DOMAIN audit[target] \cup {Len(audit[target]) + 1}
      /\ \A k \in DOMAIN audit[target] : audit'[target][k] = audit[target][k]
      /\ audit'[target][Len(audit[target]) + 1] = event
  BY <1>1, <1>2, AppendProperties, LenProperties
<1>4. Changes = UNION {{Event(u, audit[u][k]) : k \in DOMAIN audit[u]} : u \in Users}
  BY DEF Changes
<1>5. Changes' = UNION {{Event(u, audit'[u][k]) : k \in DOMAIN audit'[u]} : u \in Users}
  BY DEF Changes
<1> HIDE DEF Event
<1>6. ASSUME NEW c \in Changes PROVE c \in Changes'
  <2> PICK u \in Users : \E k \in DOMAIN audit[u] : c = Event(u, audit[u][k])
    BY <1>4, <1>6
  <2> PICK k \in DOMAIN audit[u] : c = Event(u, audit[u][k])
    OBVIOUS
  <2>1. k \in DOMAIN audit'[u] /\ audit'[u][k] = audit[u][k]
    BY <1>2, <1>3
  <2> QED BY <1>5, <2>1
<1>7. Event(target, event) \in Changes'
  BY <1>3, <1>5
<1>8. ASSUME NEW c \in Changes', c # Event(target, event) PROVE c \in Changes
  <2> PICK u \in Users : \E k \in DOMAIN audit'[u] : c = Event(u, audit'[u][k])
    BY <1>5, <1>8
  <2> PICK k \in DOMAIN audit'[u] : c = Event(u, audit'[u][k])
    OBVIOUS
  <2>1. k \in DOMAIN audit[u] /\ audit'[u][k] = audit[u][k]
    BY <1>2, <1>3, <1>8
  <2> QED BY <1>4, <2>1
<1> QED BY <1>6, <1>7, <1>8 DEF Event

(* Nothing else changes what is audited of roles. *)
LEMMA ChangesStay == UNCHANGED audit => Changes' = Changes
  BY DEF Changes

(* Before the first step nobody has any authority. *)
LEMMA InitAuthority == Init => AuthorityInv
  BY DEF Init, AuthorityInv, HoldsAuthority, Owners, Changes, Administers, Idle

(* Members, requests and other events change, the audited roles do not.    *)
LEMMA AuthorityPreserved ==
  ASSUME AuthorityInv, UNCHANGED audit, creator \subseteq creator',
         \A S \in SUBSET Users : (HoldsAuthority(S) /\ creator' \subseteq S) =>
            /\ Owners' \subseteq S
            /\ \A r \in Requests : Administers(r)' => requests'[r].user \subseteq S
            /\ \A act \in acts' : act[1] \in Administration => act[2] \in S
  PROVE  AuthorityInv'
<1> SUFFICES ASSUME NEW S \in SUBSET Users, Closed(S)' PROVE HoldsAuthority(S)'
  BY DEF AuthorityInv
<1>1. Closed(S) /\ creator' \subseteq S /\ Changes' = Changes
  BY ChangesStay DEF Closed
<1>2. HoldsAuthority(S)
  BY <1>1 DEF AuthorityInv
<1> QED BY <1>1, <1>2 DEF HoldsAuthority

(* The creator is the first owner, and the only one by nobody's doing. *)
LEMMA MembersAuthority ==
  ASSUME MembershipInv, AuthorityInv, NEW u \in Users,
         \/ CreateOrganization(u)
         \/ \E as \in Roles : InsertMember(u, as)
  PROVE  AuthorityInv'
<1>1. CASE CreateOrganization(u)
  <2>1. "organization.created" \notin Administration
    BY AdministrationAssumption
  <2>2. creator' = {u} /\ Owners' \subseteq Owners \cup {u}
    BY <1>1 DEF CreateOrganization, Owners, MembershipInv, TypeOK
  <2>3. acts' = acts \cup {<<"organization.created", u>>}
    BY <1>1 DEF CreateOrganization
  <2>4. UNCHANGED <<audit, requests>> /\ creator = {}
    BY <1>1 DEF CreateOrganization
  <2> QED BY <2>1, <2>2, <2>3, <2>4, AuthorityPreserved DEF HoldsAuthority, Administers
<1>2. CASE \E as \in Roles : InsertMember(u, as)
  <2>1. Owners' \subseteq Owners /\ UNCHANGED <<creator, audit, acts, requests>>
    BY <1>2 DEF InsertMember, Owners, MembershipInv, TypeOK
  <2> QED BY <2>1, AuthorityPreserved DEF HoldsAuthority, Administers
<1> QED BY <1>1, <1>2

(* Only owners are authorized to administer. *)
LEMMA AuthorizeAuthority ==
  ASSUME MembershipInv, AuthorityInv, NEW r \in Requests, NEW u \in Users,
         \/ \E action \in Actions : Authorize(r, u, action)
         \/ \E target \in Users, to \in Roles : AuthorizeChange(r, u, target, to)
  PROVE  AuthorityInv'
<1>1. UNCHANGED <<role, creator, audit, acts>> /\ Owners' = Owners
  BY DEF Authorize, AuthorizeChange, members, Owners
<1>2. /\ requests'[r].user = {u}
      /\ \A s \in Requests \ {r} : requests'[s] = requests[s]
  <2>1. requests \in [Requests -> Request] /\ requests[r] = Idle
    BY DEF MembershipInv, TypeOK, Authorize, AuthorizeChange
  <2>2. CASE \E action \in Actions : Authorize(r, u, action)
    BY <2>1, <2>2 DEF Authorize, Idle
  <2>3. CASE \E target \in Users, to \in Roles : AuthorizeChange(r, u, target, to)
    BY <2>1, <2>3 DEF AuthorizeChange, Idle
  <2> QED BY <2>2, <2>3
<1>3. Administers(r)' => u \in Owners
  <2>1. CASE \E action \in Actions : Authorize(r, u, action)
    <3> PICK action \in Actions : Authorize(r, u, action)
      BY <2>1
    <3>1. requests'[r].at = "act" /\ requests'[r].action = action
      BY DEF Authorize, MembershipInv, TypeOK, Request
    <3>2. action \in Administration => action # "approval.decide"
      BY AdministrationAssumption
    <3> QED BY <3>1, <3>2 DEF Authorize, May, CapabilityFor, Capabilities, Administers, Owners
  <2>2. CASE \E target \in Users, to \in Roles : AuthorizeChange(r, u, target, to)
    BY <2>2 DEF AuthorizeChange, May, Capabilities, Owners
  <2> QED BY <2>1, <2>2
<1>4. \A s \in Requests \ {r} : Administers(s)' <=> Administers(s)
  BY <1>2 DEF Administers
<1> QED BY <1>1, <1>2, <1>3, <1>4, AuthorityPreserved DEF HoldsAuthority

(* A request that reads or ends keeps its user, and what it does is done   *)
(* by that user.                                                           *)
LEMMA ReadAuthority ==
  ASSUME MembershipInv, AuthorityInv, NEW r \in Requests,
         Act(r) \/ FindPrevious(r) \/ CountOwners(r) \/ Abort(r)
  PROVE  AuthorityInv'
<1>1. UNCHANGED <<role, creator, audit>> /\ Owners' = Owners
  BY DEF Act, FindPrevious, CountOwners, Abort, members, Owners
<1>2. /\ \A s \in Requests \ {r} : requests'[s] = requests[s]
      /\ \/ ~Administers(r)'
         \/ Administers(r) /\ requests'[r].user = requests[r].user
  <2>1. CASE requests' = [requests EXCEPT ![r] = Idle]
    BY <2>1 DEF MembershipInv, TypeOK, Administers, Idle
  <2>2. CASE \E target \in Users : Found(r, target)
    BY <2>2 DEF MembershipInv, TypeOK, Found, Administers, Request
  <2>3. CASE Counted(r)
    BY <2>3 DEF MembershipInv, TypeOK, Counted, Administers, Request
  <2> QED BY <2>1, <2>2, <2>3, HowItReads
<1>3. \A act \in acts' : act[1] \in Administration =>
            act \in acts \/ (Administers(r) /\ act[2] \in requests[r].user)
  BY DEF Act, FindPrevious, CountOwners, Abort, Administers
<1>4. \A s \in Requests \ {r} : Administers(s)' <=> Administers(s)
  BY <1>2 DEF Administers
<1> QED BY <1>1, <1>2, <1>3, <1>4, AuthorityPreserved DEF HoldsAuthority

(* Whoever is made an owner is made one by somebody with authority. *)
LEMMA SetRoleAuthority ==
  ASSUME MembershipInv, AuthorityInv, NEW r \in Requests, SetRole(r)
  PROVE  AuthorityInv'
<1> PICK u \in requests[r].user, target \in requests[r].target :
        /\ role' = [role EXCEPT ![target] = requests[r].to]
        /\ audit' = [audit EXCEPT ![target] = Append(@,
                [actor |-> u, from |-> requests[r].previous, to |-> requests[r].to])]
  BY DEF SetRole
<1>1. /\ u \in Users /\ target \in Users
      /\ [actor |-> u, from |-> requests[r].previous, to |-> requests[r].to] \in Change
  BY DEF MembershipInv, TypeOK, Request, Change
<1>2. Changes' = Changes \cup {[target |-> target, actor |-> u, to |-> requests[r].to]}
  BY <1>1, ChangesGrow
<1>3. /\ UNCHANGED <<creator, acts>>
      /\ \A s \in Requests : Administers(s)' =>
            Administers(s) /\ requests'[s].user = requests[s].user
  BY DEF SetRole, Finish, Administers, Idle, MembershipInv, TypeOK
<1> SUFFICES ASSUME NEW S \in SUBSET Users, Closed(S)' PROVE HoldsAuthority(S)'
  BY DEF AuthorityInv
<1>4. HoldsAuthority(S)
  <2>1. Closed(S)
    BY <1>2, <1>3 DEF Closed
  <2> QED BY <2>1 DEF AuthorityInv
<1>5. u \in S
  BY <1>4 DEF HoldsAuthority, Administers, SetRole
<1>6. requests[r].to = "owner" => target \in S
  <2> DEFINE change == [target |-> target, actor |-> u, to |-> requests[r].to]
  <2>1. change \in Changes' /\ change.actor = u /\ change.target = target
        /\ change.to = requests[r].to
    BY <1>2
  <2> HIDE DEF change
  <2> QED BY <1>5, <2>1 DEF Closed
<1>7. Owners' \subseteq S
  BY <1>1, <1>4, <1>6 DEF HoldsAuthority, Owners, MembershipInv, TypeOK
<1> QED BY <1>2, <1>3, <1>4, <1>5, <1>7 DEF HoldsAuthority

(* Every step keeps authority with those who were given it. *)
LEMMA StepAuthority ==
  ASSUME MembershipInv, AuthorityInv, [Next]_vars
  PROVE  AuthorityInv'
<1>1. CASE UNCHANGED vars
  BY <1>1, AuthorityPreserved DEF vars, members, HoldsAuthority, Owners, Administers
<1>2. CASE Next
  BY <1>2, MembersAuthority, AuthorizeAuthority, ReadAuthority, SetRoleAuthority DEF Next
<1> QED BY <1>1, <1>2

(* Whoever administered an organization got the right to, step by step,    *)
(* from its creator, although requests commit long after they are          *)
(* authorized.                                                             *)
THEOREM AllAuthorityFromCreator == Spec => []AuthorityFromCreator
<1>1. AuthorityInv => AuthorityFromCreator
  BY DEF AuthorityInv, Closed, HoldsAuthority, AuthorityFromCreator
<1>2. MembershipInv /\ AuthorityInv /\ [Next]_vars => AuthorityInv'
  BY StepAuthority
<1> QED BY <1>1, <1>2, InitInv, StepInv, InitAuthority, PTL DEF Spec

-----------------------------------------------------------------------------
(* Session: any people, any number of exchanges, any lifetimes.            *)

(* A login that has made its session, and one whose cookies were set.      *)
MadeSession(s) == exchanges[s].kind = "login" /\ exchanges[s].at \in {"answer", "done"}
SignedIn == {s \in Exchanges : exchanges[s].kind = "login" /\ exchanges[s].at = "done"}

(* How far an exchange of each kind gets, and what it carries.             *)
Orderly(q) ==
    /\ q.at = "begun" => q.kind = "login"
    /\ q.kind = "login" => q.at \in {"begun", "sent", "answer", "done"}
    /\ q.at = "answer" => q.kind # "sensitive"
    /\ (q.kind = "login" /\ q.at \in {"answer", "done"}) => q.token # {}
    /\ (q.kind = "reauthenticate" /\ q.at \in {"sent", "checked", "authorized", "answer"})
        => q.token # {}
    /\ q.token \subseteq issued /\ \A x, y \in q.token : x = y
    /\ q.session \subseteq SignedIn

ProgressInv ==
    /\ \A r \in Exchanges : Orderly(exchanges[r])
    /\ \A r \in Exchanges : sessions[r] # {} => (MadeSession(r) \/ exchanges[r].at = "rejected")
    /\ cookies.session \subseteq SignedIn

(* Where a time of authentication comes from: a token of the same person,  *)
(* or the sign-in itself.                                                  *)
Vouched(s, row, time) ==
    \/ \E token \in issued :
        token.subject = row.user /\ token.authTime # NoTime /\ token.authTime = time
    \/ /\ \E token \in exchanges[s].token : token.authTime = NoTime
       /\ time = row.expiresAt - SessionLifetime

VouchedInv ==
    /\ \A s \in Exchanges : MadeSession(s) =>
        \A row \in sessions[s] : Vouched(s, row, row.authenticatedAt)
    /\ \A r \in Exchanges :
        (exchanges[r].kind = "sensitive" /\ exchanges[r].at = "checked") =>
            \E s \in exchanges[r].session : \E row \in sessions[s] :
                Vouched(s, row, exchanges[r].seen)
    /\ \A r \in Exchanges :
        (exchanges[r].kind = "reauthenticate" /\ exchanges[r].at = "authorized") =>
            \A token \in exchanges[r].token :
                /\ token.authTime # NoTime
                /\ \A s \in exchanges[r].session : \A row \in sessions[s] :
                    token.subject = row.user

(* Of logins that overlap none is alone, and the one that is has its       *)
(* cookies.                                                                *)
LoginInv ==
    /\ \A r, o \in Exchanges :
        (r # o /\ LoginUnderway(r) /\ LoginUnderway(o)) => ~exchanges[r].alone
    /\ \A r \in Exchanges :
        (exchanges[r].at = "begun" /\ exchanges[r].alone) => cookies.login = {r}

(* A request that is alone carries the cookies of now, and no pending      *)
(* answer is to change them before it is answered.                         *)
Changer(r) == Pending(r) /\ ChangesCookies(exchanges[r].kind)

AloneInv ==
    \A r \in Exchanges :
        (Pending(r) /\ exchanges[r].kind # "login" /\ exchanges[r].alone) =>
            /\ \A o \in Exchanges \ {r} : ~Meet(exchanges[r].kind, o)
            /\ exchanges[r].session = cookies.session
            /\ exchanges[r].csrf = cookies.csrf

(* While nothing crosses, at most one cookie change is pending, it is of   *)
(* the browser's session, and the CSRF cookie is the session's, except     *)
(* between the commit of a reauthentication and its answer.                *)
Reauthenticated(c) == exchanges[c].at = "answer" /\ exchanges[c].kind = "reauthenticate"

OrderInv ==
    ~crossed =>
        /\ \A r, o \in Exchanges : (Changer(r) /\ Changer(o)) => r = o
        /\ \A r \in Exchanges :
            (Changer(r) /\ exchanges[r].kind # "login") =>
                exchanges[r].session = cookies.session

FreshInv ==
    \A r \in Exchanges :
        (exchanges[r].at = "answer" /\ exchanges[r].kind = "login") =>
            \A row \in sessions[r] : row.csrf = r

AgreeInv ==
    ~crossed =>
        \A s \in cookies.session : \A row \in sessions[s] :
            /\ \A c \in Exchanges : Reauthenticated(c) => row.csrf = c
            /\ (\A c \in Exchanges : ~Reauthenticated(c)) => cookies.csrf = {row.csrf}

CookieInv == AloneInv /\ OrderInv /\ FreshInv /\ AgreeInv

SessionInv == SessionTypeOK /\ ProgressInv /\ VouchedInv /\ LoginInv /\ CookieInv

-----------------------------------------------------------------------------
(* A step of exchange r: of the others, some are no longer alone.          *)
Same(p) ==
    /\ exchanges'[p].at = exchanges[p].at /\ exchanges'[p].kind = exchanges[p].kind
    /\ exchanges'[p].session = exchanges[p].session /\ exchanges'[p].csrf = exchanges[p].csrf
    /\ exchanges'[p].token = exchanges[p].token /\ exchanges'[p].seen = exchanges[p].seen
    /\ exchanges'[p].alone => exchanges[p].alone

StepOf(r) ==
    /\ exchanges[r].at # "done"
    /\ \A p \in Exchanges \ {r} : Same(p)

(* An exchange that is new or has ended is an exchange. *)
LEMMA NewType == New \in Exchange
BY DEF New, Exchange, Kinds

(* What End leaves of an exchange. *)
LEMMA EndEffect ==
  ASSUME SessionTypeOK, NEW r \in Exchanges,
         NEW at \in {"done", "rejected", "invalid_callback", "csrf_rejected"}, End(r, at)
  PROVE  /\ exchanges' \in [Exchanges -> Exchange]
         /\ \A p \in Exchanges \ {r} : exchanges'[p] = exchanges[p]
         /\ exchanges'[r].at = at /\ exchanges'[r].session = {}
         /\ at # "done" => exchanges'[r].kind = "sensitive" /\ exchanges'[r].token = {}
         /\ at = "done" =>
              /\ exchanges'[r].kind = exchanges[r].kind
              /\ exchanges[r].kind = "login" => exchanges'[r].token = exchanges[r].token
              /\ exchanges[r].kind # "login" => exchanges'[r].token = {}
<1> DEFINE q == [New EXCEPT
                    !.at = at,
                    !.kind = IF at = "done" THEN exchanges[r].kind ELSE "sensitive",
                    !.token = IF at = "done" /\ exchanges[r].kind = "login"
                              THEN exchanges[r].token ELSE {}]
<1>1. exchanges' = [exchanges EXCEPT ![r] = q]
  BY DEF End
<1>2. exchanges \in [Exchanges -> Exchange] /\ exchanges[r].kind \in Kinds
      /\ exchanges[r].token \in SUBSET IdToken
  BY DEF SessionTypeOK, Exchange
<1>3. q \in Exchange
  BY <1>2 DEF New, Exchange, Kinds
<1>4. /\ q.at = at /\ q.session = {}
      /\ q.kind = IF at = "done" THEN exchanges[r].kind ELSE "sensitive"
      /\ q.token = IF at = "done" /\ exchanges[r].kind = "login" THEN exchanges[r].token ELSE {}
  BY DEF New
<1> HIDE DEF q
<1>5. /\ exchanges' \in [Exchanges -> Exchange] /\ exchanges'[r] = q
      /\ \A p \in Exchanges \ {r} : exchanges'[p] = exchanges[p]
  BY <1>1, <1>2, <1>3
<1> QED BY <1>4, <1>5

(* What Advance leaves of an exchange. *)
LEMMA AdvanceEffect ==
  ASSUME SessionTypeOK, NEW r \in Exchanges, NEW at \in {"checked", "authorized", "answer"},
         Advance(r, at)
  PROVE  /\ exchanges' \in [Exchanges -> Exchange]
         /\ \A p \in Exchanges \ {r} : exchanges'[p] = exchanges[p]
         /\ exchanges'[r] = [exchanges[r] EXCEPT !.at = at]
         /\ exchanges'[r].at = at /\ exchanges'[r].kind = exchanges[r].kind
         /\ exchanges'[r].session = exchanges[r].session
         /\ exchanges'[r].csrf = exchanges[r].csrf
         /\ exchanges'[r].token = exchanges[r].token
         /\ exchanges'[r].seen = exchanges[r].seen
         /\ exchanges'[r].alone = exchanges[r].alone
<1>1. /\ exchanges \in [Exchanges -> Exchange]
      /\ exchanges' = [exchanges EXCEPT ![r] = [exchanges[r] EXCEPT !.at = at]]
  BY DEF SessionTypeOK, Advance
<1>2. [exchanges[r] EXCEPT !.at = at] \in Exchange
  BY <1>1 DEF Exchange
<1> QED BY <1>1, <1>2 DEF Exchange

-----------------------------------------------------------------------------
(* What a step of r has to show of each part of the invariant.             *)

(* A step of r takes nobody out of those who have signed in. *)
LEMMA SignedInGrows ==
  ASSUME NEW r \in Exchanges, StepOf(r)
  PROVE  SignedIn \subseteq SignedIn'
BY DEF SignedIn, StepOf, Same

(* Where the exchanges are: r must be in order itself, and its session its own. *)
LEMMA ProgressKeeps ==
  ASSUME ProgressInv, NEW r \in Exchanges, StepOf(r), issued \subseteq issued',
         Orderly(exchanges[r])',
         \A p \in Exchanges \ {r} : sessions'[p] # {} => sessions[p] # {},
         sessions'[r] # {} => (MadeSession(r)' \/ exchanges'[r].at = "rejected"),
         cookies'.session \subseteq SignedIn'
  PROVE  ProgressInv'
<1>1. SignedIn \subseteq SignedIn'
  BY SignedInGrows
<1>2. ASSUME NEW p \in Exchanges PROVE Orderly(exchanges[p])'
  <2>1. CASE p = r
    BY <2>1
  <2>2. CASE p # r
    <3>1. Same(p) /\ Orderly(exchanges[p])
      BY <2>2 DEF StepOf, ProgressInv
    <3> QED BY <1>1, <3>1 DEF Same, Orderly
  <2> QED BY <2>1, <2>2
<1>3. ASSUME NEW p \in Exchanges, sessions'[p] # {}
      PROVE  MadeSession(p)' \/ exchanges'[p].at = "rejected"
  <2>1. CASE p = r
    BY <1>3, <2>1
  <2>2. CASE p # r
    BY <1>3, <2>2 DEF ProgressInv, StepOf, Same, MadeSession
  <2> QED BY <2>1, <2>2
<1> QED BY <1>2, <1>3 DEF ProgressInv

(* Where times of authentication come from, if no row is written. *)
LEMMA VouchedKeeps ==
  ASSUME VouchedInv, NEW r \in Exchanges, StepOf(r), issued \subseteq issued',
         sessions' = sessions,
         MadeSession(r)' => MadeSession(r) /\ exchanges'[r].token = exchanges[r].token,
         ProgressInv,
         (exchanges'[r].kind = "sensitive" /\ exchanges'[r].at = "checked") =>
            \E s \in exchanges'[r].session : s \in SignedIn /\ s # r /\
                \E row \in sessions[s] : Vouched(s, row, exchanges'[r].seen),
         (exchanges'[r].kind = "reauthenticate" /\ exchanges'[r].at = "authorized") =>
            \A token \in exchanges'[r].token :
                /\ token.authTime # NoTime
                /\ \A s \in exchanges'[r].session : \A row \in sessions[s] :
                    token.subject = row.user
  PROVE  VouchedInv'
<1>1. ASSUME NEW s \in Exchanges, NEW row, NEW time, Vouched(s, row, time),
             exchanges'[s].token = exchanges[s].token
      PROVE  Vouched(s, row, time)'
  BY <1>1 DEF Vouched
<1>2. ASSUME NEW s \in Exchanges, MadeSession(s)', NEW row \in sessions'[s]
      PROVE  Vouched(s, row, row.authenticatedAt)'
  <2>1. MadeSession(s) /\ exchanges'[s].token = exchanges[s].token
    BY <1>2 DEF StepOf, Same, MadeSession
  <2>2. Vouched(s, row, row.authenticatedAt)
    BY <1>2, <2>1 DEF VouchedInv
  <2> QED BY <1>1, <2>1, <2>2
<1>3. ASSUME NEW p \in Exchanges, exchanges'[p].kind = "sensitive", exchanges'[p].at = "checked"
      PROVE  \E s \in exchanges'[p].session : \E row \in sessions'[s] :
                Vouched(s, row, exchanges[p].seen)'
  <2>1. CASE p = r
    <3>1. PICK s \in exchanges'[r].session :
            /\ s \in SignedIn /\ s # r
            /\ \E row \in sessions[s] : Vouched(s, row, exchanges'[r].seen)
      BY <1>3, <2>1
    <3>2. PICK row \in sessions[s] : Vouched(s, row, exchanges'[r].seen)
      BY <3>1
    <3>3. s \in Exchanges /\ exchanges'[s].token = exchanges[s].token
      BY <3>1 DEF SignedIn, StepOf, Same
    <3>4. Vouched(s, row, exchanges[r].seen)'
      BY <3>2, <3>3 DEF Vouched
    <3> QED BY <2>1, <3>1, <3>2, <3>4
  <2>2. CASE p # r
    <3>1. Same(p)
      BY <2>2 DEF StepOf
    <3>2. PICK s \in exchanges[p].session : \E row \in sessions[s] : Vouched(s, row, exchanges[p].seen)
      BY <1>3, <3>1 DEF Same, VouchedInv
    <3>3. PICK row \in sessions[s] : Vouched(s, row, exchanges[p].seen)
      BY <3>2
    <3>4. s \in SignedIn
      BY <3>2 DEF ProgressInv, Orderly
    <3>5. s \in Exchanges /\ exchanges'[s].token = exchanges[s].token
      BY <3>4 DEF SignedIn, StepOf, Same
    <3>6. Vouched(s, row, exchanges[p].seen)'
      BY <3>1, <3>3, <3>5 DEF Same, Vouched
    <3> QED BY <3>1, <3>2, <3>3, <3>6 DEF Same
  <2> QED BY <2>1, <2>2
<1>4. ASSUME NEW p \in Exchanges, exchanges'[p].kind = "reauthenticate",
             exchanges'[p].at = "authorized", NEW token \in exchanges'[p].token
      PROVE  /\ token.authTime # NoTime
             /\ \A s \in exchanges'[p].session : \A row \in sessions'[s] : token.subject = row.user
  <2>1. CASE p = r
    BY <1>4, <2>1
  <2>2. CASE p # r
    <3>1. Same(p)
      BY <2>2 DEF StepOf
    <3> QED BY <1>4, <3>1 DEF Same, VouchedInv
  <2> QED BY <2>1, <2>2
<1> QED BY <1>2, <1>3, <1>4 DEF VouchedInv

(* Logins that overlap, if the login cookies stay. *)
LEMMA LoginKeeps ==
  ASSUME LoginInv, NEW r \in Exchanges, StepOf(r), cookies'.login = cookies.login,
         exchanges'[r].at # "begun",
         LoginUnderway(r)' => LoginUnderway(r) /\ (exchanges'[r].alone => exchanges[r].alone)
  PROVE  LoginInv'
<1>1. ASSUME NEW p \in Exchanges, LoginUnderway(p)'
      PROVE  LoginUnderway(p) /\ (exchanges'[p].alone => exchanges[p].alone)
  BY <1>1 DEF StepOf, Same, LoginUnderway, Pending
<1>2. ASSUME NEW p \in Exchanges, NEW o \in Exchanges, p # o,
             LoginUnderway(p)', LoginUnderway(o)'
      PROVE  ~exchanges'[p].alone
  BY <1>1, <1>2 DEF LoginInv
<1>3. ASSUME NEW p \in Exchanges, exchanges'[p].at = "begun", exchanges'[p].alone
      PROVE  cookies'.login = {p}
  BY <1>3 DEF StepOf, Same, LoginInv
<1> QED BY <1>2, <1>3 DEF LoginInv

(* A step that changes no cookies of the session and no rows: what r is    *)
(* after it, it was before, or the cookies have crossed.                   *)
LEMMA CookieKeeps ==
  ASSUME CookieInv, NEW r \in Exchanges, StepOf(r),
         sessions' = sessions, crossed => crossed',
         cookies'.session = cookies.session, cookies'.csrf = cookies.csrf,
         Pending(r)' =>
            /\ Pending(r) /\ exchanges'[r].kind = exchanges[r].kind
            /\ exchanges'[r].session = exchanges[r].session
            /\ exchanges'[r].csrf = exchanges[r].csrf
            /\ exchanges'[r].alone => exchanges[r].alone,
         exchanges'[r].at # "answer",
         crossed' \/ ~Reauthenticated(r)
  PROVE  CookieInv'
<1>1. ASSUME NEW p \in Exchanges, Pending(p)'
      PROVE  /\ Pending(p) /\ exchanges'[p].kind = exchanges[p].kind
             /\ exchanges'[p].session = exchanges[p].session
             /\ exchanges'[p].csrf = exchanges[p].csrf
             /\ exchanges'[p].alone => exchanges[p].alone
  BY <1>1 DEF StepOf, Same, Pending
<1>2. AloneInv'
  BY <1>1 DEF CookieInv, AloneInv, Meet
<1>3. OrderInv'
  BY <1>1 DEF CookieInv, OrderInv, Changer
<1>4. FreshInv'
  BY DEF CookieInv, FreshInv, StepOf, Same
<1>5. ~crossed' => \A c \in Exchanges : Reauthenticated(c)' <=> Reauthenticated(c)
  BY DEF Reauthenticated, StepOf, Same
<1>6. AgreeInv'
  BY <1>5 DEF CookieInv, AgreeInv
<1> QED BY <1>2, <1>3, <1>4, <1>6 DEF CookieInv

-----------------------------------------------------------------------------
(* One lemma for each action.                                              *)

(* A browser without cookies. *)
LEMMA SessionInitInv == SessionInit => SessionInv
<1> SUFFICES ASSUME SessionInit PROVE SessionInv
  OBVIOUS
<1>1. \A r \in Exchanges : exchanges[r] = New /\ sessions[r] = {}
  BY DEF SessionInit
<1>2. New.at = "new" /\ New.kind = "sensitive" /\ New.session = {} /\ New.token = {}
  BY DEF New
<1>3. SessionTypeOK
  BY NewType DEF SessionInit, SessionTypeOK, Cookies
<1>4. ProgressInv
  BY <1>1, <1>2 DEF SessionInit, ProgressInv, Orderly
<1>5. VouchedInv
  BY <1>1, <1>2 DEF VouchedInv, MadeSession
<1>6. LoginInv
  BY <1>1, <1>2 DEF LoginInv, LoginUnderway
<1>7. CookieInv
  BY <1>1, <1>2 DEF SessionInit, CookieInv, AloneInv, OrderInv, FreshInv, AgreeInv, Changer, Pending
<1> QED BY <1>3, <1>4, <1>5, <1>6, <1>7 DEF SessionInv

(* Time passes, or the provider issues a token. *)
LEMMA QuietKeeps ==
  ASSUME SessionInv, now' \in Nat, issued \subseteq issued', issued' \subseteq IdToken,
         UNCHANGED <<sessions, cookies, exchanges, crossed>>
  PROVE  SessionInv'
<1>1. SessionTypeOK'
  BY DEF SessionInv, SessionTypeOK
<1>2. ProgressInv'
  BY DEF SessionInv, ProgressInv, Orderly, SignedIn, MadeSession
<1>3. VouchedInv'
  <2>1. \A s \in Exchanges : \A row, time : Vouched(s, row, time) => Vouched(s, row, time)'
    BY DEF Vouched
  <2>2. \A s \in Exchanges : MadeSession(s)' =>
            \A row \in sessions'[s] : Vouched(s, row, row.authenticatedAt)'
    BY <2>1 DEF SessionInv, VouchedInv, MadeSession
  <2>3. \A r \in Exchanges :
            (exchanges'[r].kind = "sensitive" /\ exchanges'[r].at = "checked") =>
                \E s \in exchanges'[r].session : \E row \in sessions'[s] :
                    Vouched(s, row, exchanges[r].seen)'
    BY DEF SessionInv, VouchedInv, Vouched
  <2> QED BY <2>2, <2>3 DEF SessionInv, VouchedInv
<1>4. LoginInv'
  BY DEF SessionInv, LoginInv, LoginUnderway, Pending
<1>5. CookieInv'
  BY DEF SessionInv, CookieInv, AloneInv, OrderInv, FreshInv, AgreeInv, Changer, Pending, Meet,
         Reauthenticated
<1> QED BY <1>1, <1>2, <1>3, <1>4, <1>5 DEF SessionInv

(* Time passes. *)
LEMMA TickKeeps ==
  ASSUME SessionInv, Tick
  PROVE  SessionInv'
<1>1. /\ now' \in Nat /\ issued \subseteq issued' /\ issued' \subseteq IdToken
      /\ UNCHANGED <<sessions, cookies, exchanges, crossed>>
  BY DEF Tick, SessionInv, SessionTypeOK
<1> QED BY <1>1, QuietKeeps

(* The provider issues a token. *)
LEMMA IssueKeeps ==
  ASSUME SessionInv, NEW u \in Subjects, NEW t \in {NoTime} \cup (now .. now + ClockSkew),
         Issue(u, t)
  PROVE  SessionInv'
<1>1. t \in Nat \cup {NoTime}
  BY LifetimesAssumption DEF SessionInv, SessionTypeOK
<1>2. /\ now' \in Nat /\ issued \subseteq issued' /\ issued' \subseteq IdToken
      /\ UNCHANGED <<sessions, cookies, exchanges, crossed>>
  BY <1>1 DEF Issue, SessionInv, SessionTypeOK, IdToken
<1> QED BY <1>2, QuietKeeps

(* A login begins: any other that is underway is no longer alone. *)
LEMMA BeginLoginKeeps ==
  ASSUME SessionInv, NEW r \in Exchanges, BeginLogin(r)
  PROVE  SessionInv'
<1> DEFINE q == [New EXCEPT !.at = "begun", !.kind = "login",
                            !.alone = \A o \in Exchanges : ~LoginUnderway(o)]
<1>1. q \in Exchange /\ q.at = "begun" /\ q.kind = "login" /\ q.session = {} /\ q.token = {}
      /\ (q.alone <=> \A o \in Exchanges : ~LoginUnderway(o))
  BY DEF New, Exchange, Kinds
<1>2. /\ exchanges[r].at = "new"
      /\ exchanges' = [p \in Exchanges |->
            CASE p = r -> q
              [] p # r /\ LoginUnderway(p) -> [exchanges[p] EXCEPT !.alone = FALSE]
              [] OTHER -> exchanges[p]]
      /\ cookies' = [cookies EXCEPT !.login = {r}, !.loginExpires = now + LoginLifetime]
      /\ UNCHANGED <<now, issued, sessions, crossed>>
  BY DEF BeginLogin
<1> HIDE DEF q
<1>3. exchanges'[r] = q
  BY <1>2
<1>4. ASSUME NEW p \in Exchanges \ {r}
      PROVE  /\ exchanges'[p] \in Exchange /\ Same(p)
             /\ LoginUnderway(p) => ~exchanges'[p].alone
  <2>1. exchanges[p] \in Exchange
    BY DEF SessionInv, SessionTypeOK
  <2>2. CASE LoginUnderway(p)
    <3>1. exchanges'[p] = [exchanges[p] EXCEPT !.alone = FALSE]
      BY <1>2, <2>2
    <3> QED BY <2>1, <3>1 DEF Exchange, Same
  <2>3. CASE ~LoginUnderway(p)
    <3>1. exchanges'[p] = exchanges[p]
      BY <1>2, <2>3
    <3> QED BY <2>1, <2>3, <3>1 DEF Same
  <2> QED BY <2>2, <2>3
<1>5. StepOf(r)
  BY <1>2, <1>4 DEF StepOf
<1>6. SessionTypeOK'
  <2>1. exchanges' \in [Exchanges -> Exchange]
    BY <1>1, <1>2, <1>3, <1>4
  <2>2. cookies' \in Cookies
    <3>1. now + LoginLifetime \in Nat
      BY LifetimesAssumption DEF SessionInv, SessionTypeOK
    <3>2. {r} \in SUBSET Exchanges /\ cookies \in Cookies
      BY DEF SessionInv, SessionTypeOK
    <3> QED BY <1>2, <3>1, <3>2 DEF Cookies
  <2> QED BY <1>2, <2>1, <2>2 DEF SessionInv, SessionTypeOK
<1>7. ProgressInv'
  <2>1. sessions[r] = {}
    BY <1>2 DEF SessionInv, ProgressInv, MadeSession
  <2>2. cookies'.session = cookies.session
    BY <1>2 DEF SessionInv, SessionTypeOK, Cookies
  <2>3. cookies'.session \subseteq SignedIn'
    BY <1>5, <2>2, SignedInGrows DEF SessionInv, ProgressInv
  <2>4. Orderly(exchanges[r])'
    BY <1>1, <1>3 DEF Orderly
  <2> QED BY <1>2, <1>5, <2>1, <2>3, <2>4, ProgressKeeps DEF SessionInv
<1>8. VouchedInv'
  BY <1>1, <1>2, <1>3, <1>5, VouchedKeeps DEF SessionInv, MadeSession
<1>9. LoginInv'
  <2>1. cookies'.login = {r}
    BY <1>2 DEF SessionInv, SessionTypeOK, Cookies
  <2>2. \A p \in Exchanges \ {r} : LoginUnderway(p)' => LoginUnderway(p) /\ ~exchanges'[p].alone
    BY <1>4 DEF LoginUnderway, Pending, Same
  <2>3. \A p \in Exchanges \ {r} : exchanges'[p].at = "begun" => LoginUnderway(p)'
    BY <1>4 DEF LoginUnderway, Same, SessionInv, ProgressInv, Orderly
  <2>4. (\E p \in Exchanges \ {r} : LoginUnderway(p)') => ~exchanges'[r].alone
    BY <1>1, <1>3, <2>2
  <2> QED BY <2>1, <2>2, <2>3, <2>4 DEF LoginInv
<1>10. CookieInv'
  <2>1. cookies'.session = cookies.session /\ cookies'.csrf = cookies.csrf
    BY <1>2 DEF SessionInv, SessionTypeOK, Cookies
  <2>2. ~Pending(r)' /\ exchanges'[r].at # "answer" /\ ~Reauthenticated(r)
    BY <1>1, <1>2, <1>3 DEF Pending, Reauthenticated
  <2> QED BY <1>2, <1>5, <2>1, <2>2, CookieKeeps DEF SessionInv
<1> QED BY <1>6, <1>7, <1>8, <1>9, <1>10 DEF SessionInv

(* An exchange ends without having changed anything. *)
LEMMA EndKeeps ==
  ASSUME SessionInv, NEW r \in Exchanges,
         NEW at \in {"done", "rejected", "invalid_callback", "csrf_rejected"}, End(r, at),
         at = "done" => exchanges[r].kind = "sensitive",
         sessions[r] # {} => at = "rejected",
         exchanges[r].at # "done",
         crossed' \in BOOLEAN, crossed => crossed', crossed' \/ ~Reauthenticated(r),
         UNCHANGED <<now, issued, sessions, cookies>>
  PROVE  SessionInv'
<1>1. /\ exchanges' \in [Exchanges -> Exchange]
      /\ \A p \in Exchanges \ {r} : exchanges'[p] = exchanges[p]
      /\ exchanges'[r].at = at /\ exchanges'[r].session = {}
      /\ exchanges'[r].kind = "sensitive" /\ exchanges'[r].token = {}
  BY EndEffect DEF SessionInv
<1>2. StepOf(r)
  BY <1>1 DEF StepOf, Same
<1>3. SessionTypeOK'
  BY <1>1 DEF SessionInv, SessionTypeOK
<1>4. ProgressInv'
  <2>1. cookies'.session \subseteq SignedIn'
    BY <1>2, SignedInGrows DEF SessionInv, ProgressInv
  <2>2. Orderly(exchanges[r])'
    BY <1>1 DEF Orderly
  <2> QED BY <1>1, <1>2, <2>1, <2>2, ProgressKeeps DEF SessionInv
<1>5. VouchedInv'
  BY <1>1, <1>2, VouchedKeeps DEF SessionInv, MadeSession
<1>6. LoginInv'
  BY <1>1, <1>2, LoginKeeps DEF SessionInv, LoginUnderway, Pending
<1>7. CookieInv'
  <2>1. ~Pending(r)' /\ exchanges'[r].at # "answer"
    BY <1>1 DEF Pending
  <2> QED BY <1>2, <2>1, CookieKeeps DEF SessionInv
<1> QED BY <1>3, <1>4, <1>5, <1>6, <1>7 DEF SessionInv

(* A request fails, or its answer is lost. *)
LEMMA FailKeeps ==
  ASSUME SessionInv, NEW r \in Exchanges, Fail(r)
  PROVE  SessionInv'
<1>1. crossed' \/ ~Reauthenticated(r)
  BY DEF Fail, Reauthenticated, ChangesCookies
<1>2. exchanges[r].at # "done" /\ crossed' \in BOOLEAN /\ (crossed => crossed')
  BY DEF Fail, Pending, SessionInv, SessionTypeOK
<1>3. End(r, "rejected") /\ UNCHANGED <<now, issued, sessions, cookies>>
  BY DEF Fail
<1> QED BY <1>1, <1>2, <1>3, EndKeeps

(* What sending r as q leaves: who meets it and is no login is not alone,  *)
(* nor is it.                                                              *)
LEMMA SendAsEffect ==
  ASSUME SessionTypeOK, NEW r \in Exchanges, NEW q \in Exchange, SendAs(r, q)
  PROVE  /\ exchanges' \in [Exchanges -> Exchange]
         /\ \A p \in Exchanges \ {r} :
              /\ Same(p)
              /\ (Meet(q.kind, p) /\ exchanges[p].kind # "login") => ~exchanges'[p].alone
         /\ exchanges'[r].at = q.at /\ exchanges'[r].kind = q.kind
         /\ exchanges'[r].session = q.session /\ exchanges'[r].csrf = q.csrf
         /\ exchanges'[r].token = q.token
         /\ q.kind = "login" => exchanges'[r].alone = q.alone
         /\ q.kind # "login" =>
              (exchanges'[r].alone <=> \A o \in Exchanges \ {r} : ~Meet(q.kind, o))
<1> DEFINE mine == [q EXCEPT !.alone = \A o \in Exchanges \ {r} : ~Meet(q.kind, o)]
<1>1. exchanges' = [p \in Exchanges |->
            CASE p = r /\ q.kind # "login" -> mine
              [] p = r /\ q.kind = "login" -> q
              [] p # r /\ Meet(q.kind, p) /\ exchanges[p].kind # "login" ->
                    [exchanges[p] EXCEPT !.alone = FALSE]
              [] OTHER -> exchanges[p]]
  BY DEF SendAs
<1>2. /\ mine \in Exchange /\ mine.at = q.at /\ mine.kind = q.kind /\ mine.session = q.session
      /\ mine.csrf = q.csrf /\ mine.token = q.token
      /\ (mine.alone <=> \A o \in Exchanges \ {r} : ~Meet(q.kind, o))
  BY DEF Exchange
<1> HIDE DEF mine
<1>3. /\ q.kind # "login" => exchanges'[r] = mine
      /\ q.kind = "login" => exchanges'[r] = q
  BY <1>1
<1>4. ASSUME NEW p \in Exchanges \ {r}
      PROVE  /\ exchanges'[p] \in Exchange /\ Same(p)
             /\ (Meet(q.kind, p) /\ exchanges[p].kind # "login") => ~exchanges'[p].alone
  <2>1. exchanges[p] \in Exchange
    BY DEF SessionTypeOK
  <2>2. CASE Meet(q.kind, p) /\ exchanges[p].kind # "login"
    <3>1. exchanges'[p] = [exchanges[p] EXCEPT !.alone = FALSE]
      BY <1>1, <2>2
    <3> QED BY <2>1, <3>1 DEF Exchange, Same
  <2>3. CASE ~(Meet(q.kind, p) /\ exchanges[p].kind # "login")
    <3>1. exchanges'[p] = exchanges[p]
      BY <1>1, <2>3
    <3> QED BY <2>1, <2>3, <3>1 DEF Same
  <2> QED BY <2>2, <2>3
<1>5. exchanges'[r] \in Exchange
  BY <1>2, <1>3
<1>6. exchanges' \in [Exchanges -> Exchange]
  <2>1. exchanges' = [p \in Exchanges |-> exchanges'[p]]
    BY <1>1
  <2> QED BY <1>4, <1>5, <2>1
<1> QED BY <1>2, <1>3, <1>4, <1>6

(* A request goes out with the cookies of now. *)
LEMMA SendAsKeepsCookies ==
  ASSUME SessionInv, NEW r \in Exchanges, NEW q \in Exchange, SendAs(r, q),
         exchanges[r].at \in {"new", "begun"}, q.at = "sent",
         q.kind # "login" => q.session = cookies.session /\ q.csrf = cookies.csrf,
         UNCHANGED <<cookies, sessions>>
  PROVE  CookieInv'
<1>1. /\ \A p \in Exchanges \ {r} :
            /\ Same(p)
            /\ (Meet(q.kind, p) /\ exchanges[p].kind # "login") => ~exchanges'[p].alone
      /\ exchanges'[r].at = "sent" /\ exchanges'[r].kind = q.kind
      /\ exchanges'[r].session = q.session /\ exchanges'[r].csrf = q.csrf
      /\ q.kind # "login" =>
            (exchanges'[r].alone <=> \A o \in Exchanges \ {r} : ~Meet(q.kind, o))
  BY SendAsEffect DEF SessionInv
<1>2. \A p \in Exchanges \ {r} :
        /\ Pending(p)' <=> Pending(p)
        /\ exchanges'[p].kind = exchanges[p].kind
        /\ exchanges'[p].session = exchanges[p].session
        /\ exchanges'[p].csrf = exchanges[p].csrf
        /\ exchanges'[p].alone => exchanges[p].alone
  BY <1>1 DEF Same, Pending
<1>3. AloneInv'
  <2> SUFFICES ASSUME NEW p \in Exchanges, Pending(p)', exchanges'[p].kind # "login",
                      exchanges'[p].alone
               PROVE  /\ \A o \in Exchanges \ {p} : ~Meet(exchanges[p].kind, o)'
                      /\ exchanges'[p].session = cookies.session
                      /\ exchanges'[p].csrf = cookies.csrf
    BY DEF AloneInv
  <2>1. CASE p = r
    <3>1. \A o \in Exchanges \ {r} : ~Meet(q.kind, o)
      BY <1>1, <2>1
    <3>2. \A o \in Exchanges \ {r} : ~Meet(exchanges[r].kind, o)'
      BY <1>1, <1>2, <3>1 DEF Meet
    <3> QED BY <1>1, <2>1, <3>2
  <2>2. CASE p # r
    <3>1. /\ Pending(p) /\ exchanges[p].kind # "login" /\ exchanges[p].alone
          /\ exchanges'[p].kind = exchanges[p].kind
      BY <1>2, <2>2
    <3>2. /\ \A o \in Exchanges \ {p} : ~Meet(exchanges[p].kind, o)
          /\ exchanges[p].session = cookies.session /\ exchanges[p].csrf = cookies.csrf
      BY <3>1 DEF SessionInv, CookieInv, AloneInv
    <3>3. \A o \in Exchanges \ {p, r} : ~Meet(exchanges[p].kind, o)'
      BY <1>2, <3>1, <3>2 DEF Meet
    <3>4. ~Meet(exchanges[p].kind, r)'
      BY <1>1, <2>2, <3>1 DEF Meet
    <3> QED BY <1>2, <2>2, <3>2, <3>3, <3>4
  <2> QED BY <2>1, <2>2
<1>4. crossed' <=> (crossed \/ (ChangesCookies(q.kind) /\ ~NoChangeBut(r)))
  BY DEF SendAs, SessionInv, SessionTypeOK
<1>5. OrderInv'
  <2> SUFFICES ASSUME ~crossed'
               PROVE  /\ \A p, o \in Exchanges : (Changer(p)' /\ Changer(o)') => p = o
                      /\ \A p \in Exchanges :
                          (Changer(p)' /\ exchanges'[p].kind # "login") =>
                              exchanges'[p].session = cookies'.session
    BY DEF OrderInv
  <2>1. ~crossed /\ (ChangesCookies(q.kind) => NoChangeBut(r))
    BY <1>4
  <2>2. \A p \in Exchanges \ {r} : Changer(p)' <=> Changer(p)
    BY <1>2 DEF Changer
  <2>3. Changer(r)' => \A p \in Exchanges \ {r} : ~Changer(p)
    BY <1>1, <2>1 DEF Changer, NoChangeBut
  <2>4. \A p, o \in Exchanges : (Changer(p)' /\ Changer(o)') => p = o
    BY <2>1, <2>2, <2>3 DEF SessionInv, CookieInv, OrderInv
  <2>5. \A p \in Exchanges :
            (Changer(p)' /\ exchanges'[p].kind # "login") =>
                exchanges'[p].session = cookies'.session
    BY <1>1, <1>2, <2>1, <2>2 DEF SessionInv, CookieInv, OrderInv
  <2> QED BY <2>4, <2>5
<1>6. FreshInv'
  BY <1>1 DEF SessionInv, CookieInv, FreshInv, Same
<1>7. AgreeInv'
  <2>1. \A c \in Exchanges : Reauthenticated(c)' <=> Reauthenticated(c)
    BY <1>1 DEF Reauthenticated, Same
  <2> QED BY <1>4, <2>1 DEF SessionInv, CookieInv, AgreeInv
<1> QED BY <1>3, <1>5, <1>6, <1>7 DEF CookieInv

(* A login comes back, to its own cookies or not. *)
LEMMA CallbackKeeps ==
  ASSUME SessionInv, NEW r \in Exchanges, Callback(r)
  PROVE  SessionInv'
<1>1. /\ exchanges[r].at = "begun" /\ exchanges[r].kind = "login"
      /\ UNCHANGED <<now, issued, sessions, cookies>>
  BY DEF Callback, SessionInv, ProgressInv, Orderly
<1>2. sessions[r] = {}
  BY <1>1 DEF SessionInv, ProgressInv, MadeSession
<1>3. CASE LoginCookie = {r}
  <2> DEFINE q == [exchanges[r] EXCEPT !.at = "sent"]
  <2>1. exchanges[r] \in Exchange
    BY DEF SessionInv, SessionTypeOK
  <2>2. /\ q \in Exchange /\ q.at = "sent" /\ q.kind = "login"
        /\ q.session = exchanges[r].session /\ q.token = exchanges[r].token
        /\ q.alone = exchanges[r].alone
    BY <1>1, <2>1 DEF Exchange
  <2>3. SendAs(r, q)
    BY <1>3 DEF Callback
  <2> HIDE DEF q
  <2>4. /\ exchanges' \in [Exchanges -> Exchange]
        /\ \A p \in Exchanges \ {r} : Same(p)
        /\ exchanges'[r].at = "sent" /\ exchanges'[r].kind = "login"
        /\ exchanges'[r].session = exchanges[r].session
        /\ exchanges'[r].token = exchanges[r].token
        /\ exchanges'[r].alone = exchanges[r].alone
    BY <2>2, <2>3, SendAsEffect DEF SessionInv
  <2>5. StepOf(r)
    BY <1>1, <2>4 DEF StepOf
  <2>6. SessionTypeOK'
    <3>1. crossed' \in BOOLEAN
      BY <2>3 DEF SendAs, SessionInv, SessionTypeOK
    <3> QED BY <1>1, <2>4, <3>1 DEF SessionInv, SessionTypeOK
  <2>7. ProgressInv'
    <3>1. cookies'.session \subseteq SignedIn' /\ SignedIn \subseteq SignedIn'
      BY <1>1, <2>5, SignedInGrows DEF SessionInv, ProgressInv
    <3>2. Orderly(exchanges[r])'
      BY <1>1, <2>4, <3>1 DEF Orderly, SessionInv, ProgressInv
    <3> QED BY <1>1, <1>2, <2>5, <3>1, <3>2, ProgressKeeps DEF SessionInv
  <2>8. VouchedInv'
    BY <1>1, <2>4, <2>5, VouchedKeeps DEF SessionInv, MadeSession
  <2>9. LoginInv'
    BY <1>1, <2>4, <2>5, LoginKeeps DEF SessionInv, LoginUnderway
  <2>10. CookieInv'
    BY <1>1, <2>2, <2>3, SendAsKeepsCookies
  <2> QED BY <2>6, <2>7, <2>8, <2>9, <2>10 DEF SessionInv
<1>4. CASE LoginCookie # {r}
  <2>1. End(r, "invalid_callback") /\ UNCHANGED crossed
    BY <1>4 DEF Callback
  <2>2. crossed' \in BOOLEAN /\ ~Reauthenticated(r)
    BY <1>1, <2>1 DEF SessionInv, SessionTypeOK, Reauthenticated
  <2> QED BY <1>1, <1>2, <2>1, <2>2, EndKeeps
<1> QED BY <1>3, <1>4

(* A request goes out. *)
LEMMA SendKeepsSession ==
  ASSUME SessionInv, NEW r \in Exchanges, NEW kind \in Kinds,
         NEW token \in {{}} \cup {{t} : t \in issued}, Send(r, kind, token)
  PROVE  SessionInv'
<1> DEFINE q == [New EXCEPT !.at = "sent", !.kind = kind, !.token = token,
                            !.session = cookies.session, !.csrf = cookies.csrf]
<1>1. /\ exchanges[r].at = "new" /\ kind # "login"
      /\ (token # {}) = (kind = "reauthenticate")
      /\ SendAs(r, q)
      /\ UNCHANGED <<now, issued, sessions, cookies>>
  BY DEF Send
<1>2. cookies \in Cookies /\ token \in SUBSET IdToken /\ token \subseteq issued
  BY DEF SessionInv, SessionTypeOK
<1>3. /\ q \in Exchange /\ q.at = "sent" /\ q.kind = kind /\ q.token = token
      /\ q.session = cookies.session /\ q.csrf = cookies.csrf
  BY <1>2 DEF New, Exchange, Cookies
<1> HIDE DEF q
<1>4. /\ exchanges' \in [Exchanges -> Exchange]
      /\ \A p \in Exchanges \ {r} : Same(p)
      /\ exchanges'[r].at = "sent" /\ exchanges'[r].kind = kind
      /\ exchanges'[r].session = cookies.session
      /\ exchanges'[r].token = token
  BY <1>1, <1>3, SendAsEffect DEF SessionInv
<1>5. StepOf(r)
  BY <1>1, <1>4 DEF StepOf
<1>6. SessionTypeOK'
  <2>1. crossed' \in BOOLEAN
    BY <1>1 DEF SendAs, SessionInv, SessionTypeOK
  <2> QED BY <1>1, <1>4, <2>1 DEF SessionInv, SessionTypeOK
<1>7. ProgressInv'
  <2>1. cookies'.session \subseteq SignedIn' /\ cookies.session \subseteq SignedIn'
    BY <1>1, <1>5, SignedInGrows DEF SessionInv, ProgressInv
  <2>2. Orderly(exchanges[r])'
    BY <1>1, <1>2, <1>4, <2>1 DEF Orderly
  <2>3. sessions'[r] = {}
    BY <1>1 DEF SessionInv, ProgressInv, MadeSession
  <2> QED BY <1>1, <1>5, <2>1, <2>2, <2>3, ProgressKeeps DEF SessionInv
<1>8. VouchedInv'
  BY <1>1, <1>4, <1>5, VouchedKeeps DEF SessionInv, MadeSession
<1>9. LoginInv'
  BY <1>1, <1>4, <1>5, LoginKeeps DEF SessionInv, LoginUnderway
<1>10. CookieInv'
  BY <1>1, <1>3, SendAsKeepsCookies
<1> QED BY <1>6, <1>7, <1>8, <1>9, <1>10 DEF SessionInv

(* The session is made: a row where there was none, which no cookie names. *)
LEMMA SignInKeeps ==
  ASSUME SessionInv, NEW r \in Exchanges, NEW token \in issued, SignIn(r, token)
  PROVE  SessionInv'
<1> DEFINE row == [user |-> token.subject, csrf |-> r,
                   authenticatedAt |-> IF token.authTime = NoTime THEN now ELSE token.authTime,
                   expiresAt |-> now + SessionLifetime, revoked |-> FALSE]
           q == [exchanges[r] EXCEPT !.at = "answer", !.token = {token}]
<1>1. /\ exchanges[r].at = "sent" /\ exchanges[r].kind = "login"
      /\ UNCHANGED <<now, issued, cookies, crossed>>
  BY DEF SignIn
<1>2. /\ token \in IdToken /\ exchanges[r] \in Exchange /\ now \in Nat
      /\ sessions \in [Exchanges -> SUBSET Row] /\ exchanges \in [Exchanges -> Exchange]
  BY DEF SessionInv, SessionTypeOK
<1>3. /\ q \in Exchange /\ q.at = "answer" /\ q.token = {token}
      /\ q.kind = exchanges[r].kind /\ q.session = exchanges[r].session
      /\ q.alone = exchanges[r].alone /\ q.csrf = exchanges[r].csrf
  BY <1>2 DEF Exchange
<1>4. row \in Row
  BY <1>2, LifetimesAssumption DEF Row, IdToken
<1>5. /\ row.csrf = r /\ row.user = token.subject /\ row.expiresAt = now + SessionLifetime
      /\ row.authenticatedAt = IF token.authTime = NoTime THEN now ELSE token.authTime
  OBVIOUS
<1>6. exchanges' = [exchanges EXCEPT ![r] = q] /\ sessions' = [sessions EXCEPT ![r] = {row}]
  BY <1>2 DEF SignIn
<1> HIDE DEF row, q
<1>7. /\ exchanges'[r] = q /\ sessions'[r] = {row}
      /\ \A p \in Exchanges \ {r} : exchanges'[p] = exchanges[p] /\ sessions'[p] = sessions[p]
  BY <1>2, <1>6
<1>8. StepOf(r)
  BY <1>1, <1>7 DEF StepOf, Same
<1>9. SessionTypeOK'
  <2>1. exchanges' \in [Exchanges -> Exchange] /\ sessions' \in [Exchanges -> SUBSET Row]
    BY <1>2, <1>3, <1>4, <1>6
  <2> QED BY <1>1, <1>7, <2>1 DEF SessionInv, SessionTypeOK
<1>10. ProgressInv'
  <2>1. cookies'.session \subseteq SignedIn' /\ SignedIn \subseteq SignedIn'
    BY <1>1, <1>8, SignedInGrows DEF SessionInv, ProgressInv
  <2>2. Orderly(exchanges[r])'
    BY <1>1, <1>3, <1>7, <2>1 DEF Orderly, SessionInv, ProgressInv
  <2>3. MadeSession(r)'
    BY <1>1, <1>3, <1>7 DEF MadeSession
  <2> QED BY <1>1, <1>7, <1>8, <2>1, <2>2, <2>3, ProgressKeeps DEF SessionInv
<1>11. r \notin SignedIn
  BY <1>1 DEF SignedIn
<1>12. VouchedInv'
  <2>1. ASSUME NEW s \in Exchanges, MadeSession(s)', NEW x \in sessions'[s]
        PROVE  Vouched(s, x, x.authenticatedAt)'
    <3>1. CASE s = r
      <4>1. x = row /\ exchanges'[s].token = {token} /\ token \in issued'
        BY <1>1, <1>3, <1>7, <2>1, <3>1
      <4>2. CASE token.authTime = NoTime
        <5>1. x.authenticatedAt = x.expiresAt - SessionLifetime
          BY <1>2, <1>5, <4>1, <4>2, LifetimesAssumption
        <5> QED BY <4>1, <4>2, <5>1 DEF Vouched
      <4>3. CASE token.authTime # NoTime
        BY <1>5, <4>1, <4>3 DEF Vouched
      <4> QED BY <4>2, <4>3
    <3>2. CASE s # r
      <4>1. MadeSession(s) /\ x \in sessions[s]
        BY <1>7, <2>1, <3>2 DEF MadeSession
      <4> QED BY <1>1, <1>7, <3>2, <4>1 DEF SessionInv, VouchedInv, Vouched
    <3> QED BY <3>1, <3>2
  <2>2. \A p \in Exchanges : exchanges[p].session \subseteq SignedIn
    BY DEF SessionInv, ProgressInv, Orderly
  <2>3. ASSUME NEW p \in Exchanges, exchanges'[p].kind = "sensitive", exchanges'[p].at = "checked"
        PROVE  \E s \in exchanges'[p].session : \E x \in sessions'[s] :
                  Vouched(s, x, exchanges[p].seen)'
    <3>1. p # r /\ exchanges'[p] = exchanges[p]
      BY <1>3, <1>7, <2>3
    <3>2. PICK s \in exchanges[p].session : \E x \in sessions[s] : Vouched(s, x, exchanges[p].seen)
      BY <2>3, <3>1 DEF SessionInv, VouchedInv
    <3>3. PICK x \in sessions[s] : Vouched(s, x, exchanges[p].seen)
      BY <3>2
    <3>4. s \in Exchanges \ {r}
      BY <1>11, <2>2, <3>2 DEF SignedIn
    <3>5. Vouched(s, x, exchanges[p].seen)'
      BY <1>1, <1>7, <3>1, <3>3, <3>4 DEF Vouched
    <3> QED BY <1>7, <3>1, <3>2, <3>3, <3>4, <3>5
  <2>4. ASSUME NEW p \in Exchanges, exchanges'[p].kind = "reauthenticate",
               exchanges'[p].at = "authorized", NEW t \in exchanges'[p].token
        PROVE  /\ t.authTime # NoTime
               /\ \A s \in exchanges'[p].session : \A x \in sessions'[s] : t.subject = x.user
    <3>1. p # r /\ exchanges'[p] = exchanges[p]
      BY <1>3, <1>7, <2>4
    <3>2. \A s \in exchanges[p].session : s \in Exchanges \ {r}
      BY <1>11, <2>2 DEF SignedIn
    <3> QED BY <1>7, <2>4, <3>1, <3>2 DEF SessionInv, VouchedInv
  <2> QED BY <2>1, <2>3, <2>4 DEF VouchedInv
<1>13. LoginInv'
  BY <1>1, <1>3, <1>7, <1>8, LoginKeeps DEF SessionInv, LoginUnderway, Pending
<1>14. CookieInv'
  <2>1. \A p \in Exchanges :
          /\ Pending(p)' <=> Pending(p)
          /\ exchanges'[p].kind = exchanges[p].kind /\ exchanges'[p].session = exchanges[p].session
          /\ exchanges'[p].csrf = exchanges[p].csrf /\ exchanges'[p].alone = exchanges[p].alone
          /\ Reauthenticated(p)' <=> Reauthenticated(p)
    BY <1>1, <1>3, <1>7 DEF Pending, Reauthenticated
  <2>2. AloneInv'
    BY <1>1, <2>1 DEF SessionInv, CookieInv, AloneInv, Meet
  <2>3. OrderInv'
    BY <1>1, <2>1 DEF SessionInv, CookieInv, OrderInv, Changer
  <2>4. FreshInv'
    BY <1>5, <1>7, <2>1 DEF SessionInv, CookieInv, FreshInv
  <2>5. \A s \in cookies.session : s \in Exchanges \ {r}
    BY <1>11 DEF SessionInv, ProgressInv, SignedIn
  <2>6. AgreeInv'
    BY <1>1, <1>7, <2>1, <2>5 DEF SessionInv, CookieInv, AgreeInv
  <2> QED BY <2>2, <2>3, <2>4, <2>6 DEF CookieInv
<1> QED BY <1>9, <1>10, <1>12, <1>13, <1>14 DEF SessionInv

(* A request goes on: only how far it is, and what it has seen, changes. *)
LEMMA GoesOnKeeps ==
  ASSUME SessionInv, NEW r \in Exchanges, NEW q \in Exchange,
         exchanges' = [exchanges EXCEPT ![r] = q],
         Pending(r), exchanges[r].kind # "login", q.at \in {"checked", "authorized"},
         ~Reauthenticated(r),
         q.kind = exchanges[r].kind, q.session = exchanges[r].session,
         q.csrf = exchanges[r].csrf, q.token = exchanges[r].token, q.alone = exchanges[r].alone,
         (q.kind = "sensitive" /\ q.at = "checked") =>
            \E s \in q.session : \E row \in sessions[s] : Vouched(s, row, q.seen),
         (q.kind = "reauthenticate" /\ q.at = "authorized") =>
            \A token \in q.token :
                /\ token.authTime # NoTime
                /\ \A s \in q.session : \A row \in sessions[s] : token.subject = row.user,
         UNCHANGED <<now, issued, sessions, cookies, crossed>>
  PROVE  SessionInv'
<1>1. exchanges \in [Exchanges -> Exchange]
  BY DEF SessionInv, SessionTypeOK
<1>2. /\ exchanges' \in [Exchanges -> Exchange] /\ exchanges'[r] = q
      /\ \A p \in Exchanges \ {r} : exchanges'[p] = exchanges[p]
  BY <1>1
<1>3. StepOf(r)
  BY <1>2 DEF StepOf, Same, Pending
<1>4. SessionTypeOK'
  BY <1>2 DEF SessionInv, SessionTypeOK
<1>5. ProgressInv'
  <2>1. cookies'.session \subseteq SignedIn' /\ SignedIn \subseteq SignedIn'
    BY <1>3, SignedInGrows DEF SessionInv, ProgressInv
  <2>2. Orderly(exchanges[r])'
    BY <1>2, <2>1 DEF Orderly, SessionInv, ProgressInv, Pending
  <2>3. sessions[r] = {}
    BY DEF SessionInv, ProgressInv, MadeSession, Pending
  <2> QED BY <1>3, <2>1, <2>2, <2>3, ProgressKeeps DEF SessionInv
<1>6. VouchedInv'
  <2>1. \A s \in q.session : s \in SignedIn /\ s # r
    BY DEF SessionInv, ProgressInv, Orderly, SignedIn
  <2> QED BY <1>2, <1>3, <2>1, VouchedKeeps DEF SessionInv, MadeSession
<1>7. LoginInv'
  BY <1>2, <1>3, LoginKeeps DEF SessionInv, LoginUnderway
<1>8. CookieInv'
  BY <1>2, <1>3, CookieKeeps DEF SessionInv
<1> QED BY <1>4, <1>5, <1>6, <1>7, <1>8 DEF SessionInv

(* The session is read, and the CSRF cookie compared with it. *)
LEMMA AuthenticateKeeps ==
  ASSUME SessionInv, NEW r \in Exchanges, Authenticate(r)
  PROVE  SessionInv'
<1>1. /\ exchanges[r].at = "sent" /\ exchanges[r].kind # "login" /\ Pending(r)
      /\ UNCHANGED <<now, issued, sessions, cookies, crossed>>
  BY DEF Authenticate, Pending
<1>2. sessions[r] = {} /\ ~Reauthenticated(r) /\ crossed' \in BOOLEAN
  BY <1>1 DEF SessionInv, SessionTypeOK, ProgressInv, MadeSession, Reauthenticated
<1>3. PICK s \in exchanges[r].session :
        LET found == {row \in sessions[s] : ActiveRow(row)}
        IN  IF found = {} THEN End(r, "rejected")
            ELSE \E row \in found :
                IF exchanges[r].csrf # {row.csrf} THEN End(r, "csrf_rejected")
                ELSE exchanges' = [exchanges EXCEPT
                        ![r].at = "checked",
                        ![r].seen = IF exchanges[r].kind = "sensitive"
                                    THEN row.authenticatedAt ELSE 0]
  BY DEF Authenticate
<1>4. CASE End(r, "rejected")
  BY <1>1, <1>2, <1>4, EndKeeps
<1>5. CASE End(r, "csrf_rejected")
  BY <1>1, <1>2, <1>5, EndKeeps
<1>6. ASSUME NEW row \in sessions[s],
             exchanges' = [exchanges EXCEPT
                        ![r].at = "checked",
                        ![r].seen = IF exchanges[r].kind = "sensitive"
                                    THEN row.authenticatedAt ELSE 0]
      PROVE  SessionInv'
  <2> DEFINE q == [exchanges[r] EXCEPT
                    !.at = "checked",
                    !.seen = IF exchanges[r].kind = "sensitive" THEN row.authenticatedAt ELSE 0]
  <2>1. /\ exchanges \in [Exchanges -> Exchange] /\ exchanges[r] \in Exchange
        /\ s \in Exchanges /\ s \in SignedIn
    BY DEF SessionInv, SessionTypeOK, ProgressInv, Orderly, SignedIn
  <2>2. row.authenticatedAt \in Nat
    BY <2>1 DEF SessionInv, SessionTypeOK, Row
  <2>3. /\ q \in Exchange /\ q.at = "checked" /\ q.kind = exchanges[r].kind
        /\ q.session = exchanges[r].session /\ q.csrf = exchanges[r].csrf
        /\ q.token = exchanges[r].token /\ q.alone = exchanges[r].alone
        /\ q.kind = "sensitive" => q.seen = row.authenticatedAt
    BY <2>1, <2>2 DEF Exchange
  <2>4. exchanges' = [exchanges EXCEPT ![r] = q]
    BY <1>6, <2>1
  <2> HIDE DEF q
  <2>5. Vouched(s, row, row.authenticatedAt)
    BY <2>1 DEF SessionInv, VouchedInv, SignedIn, MadeSession
  <2> QED BY <1>1, <1>2, <1>3, <2>3, <2>4, <2>5, GoesOnKeeps
<1> QED BY <1>3, <1>4, <1>5, <1>6

(* What the request asks for is allowed, or not. *)
LEMMA CheckKeeps ==
  ASSUME SessionInv, NEW r \in Exchanges, Check(r)
  PROVE  SessionInv'
<1>1. /\ exchanges[r].at = "checked" /\ exchanges[r].kind # "login" /\ Pending(r)
      /\ UNCHANGED <<now, issued, sessions, cookies, crossed>>
  BY DEF Check, Pending, SessionInv, ProgressInv, Orderly
<1>2. sessions[r] = {} /\ ~Reauthenticated(r) /\ crossed' \in BOOLEAN
  BY <1>1 DEF SessionInv, SessionTypeOK, ProgressInv, MadeSession, Reauthenticated
<1>3. CASE Accepted(r)
  <2> DEFINE q == [exchanges[r] EXCEPT !.at = "authorized"]
  <2>1. exchanges \in [Exchanges -> Exchange] /\ exchanges[r] \in Exchange
    BY DEF SessionInv, SessionTypeOK
  <2>2. /\ q \in Exchange /\ q.at = "authorized" /\ q.kind = exchanges[r].kind
        /\ q.session = exchanges[r].session /\ q.csrf = exchanges[r].csrf
        /\ q.token = exchanges[r].token /\ q.alone = exchanges[r].alone
    BY <2>1 DEF Exchange
  <2>3. exchanges' = [exchanges EXCEPT ![r] = q]
    BY <1>3, <2>1 DEF Check, Advance
  <2> HIDE DEF q
  <2>4. q.kind = "reauthenticate" =>
            \A token \in q.token :
                /\ token.authTime # NoTime
                /\ \A s \in q.session : \A row \in sessions[s] : token.subject = row.user
    BY <1>3, <2>2 DEF Accepted
  <2> QED BY <1>1, <1>2, <2>2, <2>3, <2>4, GoesOnKeeps
<1>4. CASE ~Accepted(r)
  <2>1. End(r, "rejected")
    BY <1>4 DEF Check
  <2> QED BY <1>1, <1>2, <2>1, EndKeeps
<1> QED BY <1>3, <1>4

(* Writing to a session keeps its row's person and its end. *)
RowsKept ==
    \A s \in Exchanges :
        /\ \A y \in sessions'[s] : \E x \in sessions[s] :
            y.user = x.user /\ y.expiresAt = x.expiresAt
        /\ \A x \in sessions[s] : \E y \in sessions'[s] :
            y.user = x.user /\ y.expiresAt = x.expiresAt

(* A request writes to its session and awaits its answer. *)
LEMMA WriteKeeps ==
  ASSUME SessionInv, NEW r \in Exchanges, Advance(r, "answer"),
         exchanges[r].at = "authorized", exchanges[r].kind \in {"reauthenticate", "signout"},
         sessions' \in [Exchanges -> SUBSET Row], RowsKept,
         \A s \in Exchanges : \A x, y \in sessions'[s] : x = y,
         \A s \in Exchanges \ exchanges[r].session : sessions'[s] = sessions[s],
         \A s \in Exchanges : \A y \in sessions'[s] :
            \/ \E x \in sessions[s] :
                    y.user = x.user /\ y.expiresAt = x.expiresAt
                    /\ y.authenticatedAt = x.authenticatedAt
            \/ \E token \in issued :
                    /\ token.subject = y.user /\ token.authTime # NoTime
                    /\ token.authTime = y.authenticatedAt,
         exchanges[r].kind = "reauthenticate" =>
            \A s \in exchanges[r].session : \A y \in sessions'[s] : y.csrf = r,
         exchanges[r].kind = "signout" =>
            \A s \in Exchanges : \A y \in sessions'[s] : \E x \in sessions[s] : y.csrf = x.csrf,
         UNCHANGED <<now, issued, cookies, crossed>>
  PROVE  SessionInv'
<1>1. /\ exchanges' \in [Exchanges -> Exchange]
      /\ \A p \in Exchanges \ {r} : exchanges'[p] = exchanges[p]
      /\ exchanges'[r].at = "answer" /\ exchanges'[r].kind = exchanges[r].kind
      /\ exchanges'[r].session = exchanges[r].session /\ exchanges'[r].csrf = exchanges[r].csrf
      /\ exchanges'[r].token = exchanges[r].token /\ exchanges'[r].alone = exchanges[r].alone
  BY AdvanceEffect DEF SessionInv
<1>2. StepOf(r)
  BY <1>1 DEF StepOf, Same
<1>3. SessionTypeOK'
  BY <1>1 DEF SessionInv, SessionTypeOK
<1>4. \A s \in exchanges[r].session : s \in SignedIn
  BY DEF SessionInv, ProgressInv, Orderly
<1>5. sessions[r] = {} /\ r \notin exchanges[r].session
  BY <1>4 DEF SessionInv, ProgressInv, MadeSession, SignedIn
<1>6. ProgressInv'
  <2>1. cookies'.session \subseteq SignedIn' /\ SignedIn \subseteq SignedIn'
    BY <1>2, SignedInGrows DEF SessionInv, ProgressInv
  <2>2. Orderly(exchanges[r])'
    BY <1>1, <2>1 DEF Orderly, SessionInv, ProgressInv
  <2>3. \A s \in Exchanges : sessions'[s] # {} => sessions[s] # {}
    BY DEF RowsKept
  <2> QED BY <1>2, <1>5, <2>1, <2>2, <2>3, ProgressKeeps DEF SessionInv
<1>7. VouchedInv'
  <2>1. ASSUME NEW s \in Exchanges, MadeSession(s)', NEW y \in sessions'[s]
        PROVE  Vouched(s, y, y.authenticatedAt)'
    <3>1. MadeSession(s) /\ exchanges'[s].token = exchanges[s].token
      BY <1>1, <2>1 DEF MadeSession
    <3>2. CASE \E x \in sessions[s] :
                    y.user = x.user /\ y.expiresAt = x.expiresAt
                    /\ y.authenticatedAt = x.authenticatedAt
      <4>1. PICK x \in sessions[s] :
                    y.user = x.user /\ y.expiresAt = x.expiresAt
                    /\ y.authenticatedAt = x.authenticatedAt
        BY <3>2
      <4>2. Vouched(s, x, x.authenticatedAt)
        BY <3>1 DEF SessionInv, VouchedInv
      <4> QED BY <3>1, <4>1, <4>2 DEF Vouched
    <3>3. CASE \E token \in issued :
                    /\ token.subject = y.user /\ token.authTime # NoTime
                    /\ token.authTime = y.authenticatedAt
      BY <3>3 DEF Vouched
    <3> QED BY <2>1, <3>2, <3>3
  <2>2. ASSUME NEW p \in Exchanges, exchanges'[p].kind = "sensitive", exchanges'[p].at = "checked"
        PROVE  \E s \in exchanges'[p].session : \E y \in sessions'[s] :
                  Vouched(s, y, exchanges[p].seen)'
    <3>1. p # r /\ exchanges'[p] = exchanges[p]
      BY <1>1, <2>2
    <3>2. PICK s \in exchanges[p].session : \E x \in sessions[s] : Vouched(s, x, exchanges[p].seen)
      BY <2>2, <3>1 DEF SessionInv, VouchedInv
    <3>3. PICK x \in sessions[s] : Vouched(s, x, exchanges[p].seen)
      BY <3>2
    <3>4. s \in Exchanges /\ s # r
      BY <3>2 DEF SessionInv, ProgressInv, Orderly, SignedIn
    <3>5. PICK y \in sessions'[s] : y.user = x.user /\ y.expiresAt = x.expiresAt
      BY <3>4 DEF RowsKept
    <3>6. Vouched(s, y, exchanges[p].seen)'
      BY <1>1, <3>1, <3>3, <3>4, <3>5 DEF Vouched
    <3> QED BY <3>1, <3>2, <3>5, <3>6
  <2>3. ASSUME NEW p \in Exchanges, exchanges'[p].kind = "reauthenticate",
               exchanges'[p].at = "authorized", NEW t \in exchanges'[p].token
        PROVE  /\ t.authTime # NoTime
               /\ \A s \in exchanges'[p].session : \A y \in sessions'[s] : t.subject = y.user
    <3>1. p # r /\ exchanges'[p] = exchanges[p]
      BY <1>1, <2>3
    <3>2. \A s \in exchanges[p].session : s \in Exchanges
      BY DEF SessionInv, ProgressInv, Orderly, SignedIn
    <3>3. /\ t.authTime # NoTime
          /\ \A s \in exchanges[p].session : \A x \in sessions[s] : t.subject = x.user
      BY <2>3, <3>1 DEF SessionInv, VouchedInv
    <3> QED BY <3>1, <3>2, <3>3 DEF RowsKept
  <2> QED BY <2>1, <2>2, <2>3 DEF VouchedInv
<1>8. LoginInv'
  BY <1>1, <1>2, LoginKeeps DEF SessionInv, LoginUnderway
<1>9. /\ \A p \in Exchanges :
          /\ Pending(p)' <=> Pending(p)
          /\ exchanges'[p].kind = exchanges[p].kind /\ exchanges'[p].session = exchanges[p].session
          /\ exchanges'[p].csrf = exchanges[p].csrf /\ exchanges'[p].alone = exchanges[p].alone
      /\ \A p \in Exchanges \ {r} : Reauthenticated(p)' <=> Reauthenticated(p)
      /\ Reauthenticated(r)' <=> exchanges[r].kind = "reauthenticate"
      /\ ~Reauthenticated(r)
  BY <1>1 DEF Pending, Reauthenticated
<1>10. AloneInv'
  BY <1>9 DEF SessionInv, CookieInv, AloneInv, Meet
<1>11. OrderInv'
  BY <1>9 DEF SessionInv, CookieInv, OrderInv, Changer
<1>12. FreshInv'
  <2> SUFFICES ASSUME NEW p \in Exchanges, exchanges'[p].at = "answer",
                      exchanges'[p].kind = "login"
               PROVE  \A y \in sessions'[p] : y.csrf = p
    BY DEF FreshInv
  <2>1. p # r /\ exchanges'[p] = exchanges[p]
    BY <1>1
  <2>2. p \notin exchanges[r].session
    BY <1>4, <2>1 DEF SignedIn
  <2> QED BY <2>1, <2>2 DEF SessionInv, CookieInv, FreshInv
<1>13. AgreeInv'
  <2> SUFFICES ASSUME ~crossed, NEW s \in cookies.session, NEW y \in sessions'[s]
               PROVE  /\ \A c \in Exchanges : Reauthenticated(c)' => y.csrf = c
                      /\ (\A c \in Exchanges : ~Reauthenticated(c)') => cookies.csrf = {y.csrf}
    BY DEF AgreeInv
  <2>1. Changer(r) /\ exchanges[r].session = cookies.session
    BY DEF SessionInv, CookieInv, OrderInv, Changer, Pending, ChangesCookies
  <2>2. s \in Exchanges
    BY DEF SessionInv, ProgressInv, SignedIn
  <2>3. CASE exchanges[r].kind = "reauthenticate"
    <3>1. y.csrf = r
      BY <2>1, <2>3
    <3>2. ASSUME NEW c \in Exchanges, Reauthenticated(c)' PROVE c = r
      <4>1. Changer(c)
        BY <1>9, <2>1, <3>2 DEF Changer, Pending, Reauthenticated, ChangesCookies
      <4> QED BY <2>1, <4>1 DEF SessionInv, CookieInv, OrderInv
    <3> QED BY <1>9, <2>3, <3>1, <3>2
  <2>4. CASE exchanges[r].kind = "signout"
    <3>1. PICK x \in sessions[s] : y.csrf = x.csrf
      BY <2>2, <2>4
    <3>2. \A c \in Exchanges : Reauthenticated(c)' <=> Reauthenticated(c)
      BY <1>9, <2>4
    <3> QED BY <3>1, <3>2 DEF SessionInv, CookieInv, AgreeInv
  <2> QED BY <2>3, <2>4
<1> QED BY <1>3, <1>6, <1>7, <1>8, <1>10, <1>11, <1>12, <1>13 DEF SessionInv, CookieInv

(* What was asked for is done. *)
LEMMA CommitKeeps ==
  ASSUME SessionInv, NEW r \in Exchanges, Commit(r)
  PROVE  SessionInv'
<1>1. /\ exchanges[r].at = "authorized" /\ exchanges[r].kind # "login"
      /\ UNCHANGED <<now, issued, cookies, crossed>>
  BY DEF Commit, SessionInv, ProgressInv, Orderly
<1>2. /\ exchanges[r].kind \in Kinds /\ sessions \in [Exchanges -> SUBSET Row]
      /\ \A s \in Exchanges : \A x, y \in sessions[s] : x = y
      /\ exchanges[r].token \subseteq issued /\ \A x, y \in exchanges[r].token : x = y
      /\ exchanges[r].token \in SUBSET IdToken
  BY DEF SessionInv, SessionTypeOK, Exchange, ProgressInv, Orderly
<1>3. CASE exchanges[r].kind = "sensitive"
  <2>1. \A s \in Exchanges : sessions'[s] = sessions[s]
    BY <1>3 DEF Commit
  <2>2. sessions' = sessions
    BY <1>2, <2>1 DEF Commit
  <2>3. End(r, "done")
    BY <1>3 DEF Commit, ChangesCookies
  <2>4. sessions[r] = {} /\ ~Reauthenticated(r) /\ crossed' \in BOOLEAN
    BY <1>1 DEF SessionInv, SessionTypeOK, ProgressInv, MadeSession, Reauthenticated
  <2> QED BY <1>1, <1>3, <2>2, <2>3, <2>4, EndKeeps
<1>4. CASE exchanges[r].kind = "signout"
  <2>1. Advance(r, "answer")
    BY <1>4 DEF Commit, ChangesCookies
  <2>2. /\ DOMAIN sessions' = Exchanges
        /\ \A s \in Exchanges \ exchanges[r].session : sessions'[s] = sessions[s]
        /\ \A s \in exchanges[r].session : s \in Exchanges =>
             sessions'[s] = {[x EXCEPT !.revoked = TRUE] : x \in sessions[s]}
        /\ sessions' = [s \in Exchanges |-> sessions'[s]]
    BY <1>4 DEF Commit
  <2>3. \A x \in Row : LET y == [x EXCEPT !.revoked = TRUE]
                       IN  /\ y \in Row /\ y.user = x.user /\ y.expiresAt = x.expiresAt
                           /\ y.authenticatedAt = x.authenticatedAt /\ y.csrf = x.csrf
    BY DEF Row
  <2>4. ASSUME NEW s \in Exchanges, NEW y \in sessions'[s]
        PROVE  /\ y \in Row
               /\ \E x \in sessions[s] : y.user = x.user /\ y.expiresAt = x.expiresAt
                    /\ y.authenticatedAt = x.authenticatedAt /\ y.csrf = x.csrf
    <3>1. CASE s \in exchanges[r].session
      <4>1. PICK x \in sessions[s] : y = [x EXCEPT !.revoked = TRUE]
        BY <2>2, <2>4, <3>1
      <4>2. x \in Row
        BY <1>2
      <4> QED BY <2>3, <4>1, <4>2
    <3>2. CASE s \notin exchanges[r].session
      BY <1>2, <2>2, <2>4, <3>2
    <3> QED BY <3>1, <3>2
  <2>5. ASSUME NEW s \in Exchanges, NEW x \in sessions[s]
        PROVE  \E y \in sessions'[s] : y.user = x.user /\ y.expiresAt = x.expiresAt
    <3>1. CASE s \in exchanges[r].session
      <4>1. [x EXCEPT !.revoked = TRUE] \in sessions'[s] /\ x \in Row
        BY <1>2, <2>2, <3>1
      <4> QED BY <2>3, <4>1
    <3>2. CASE s \notin exchanges[r].session
      BY <2>2, <3>2
    <3> QED BY <3>1, <3>2
  <2>6. RowsKept
    BY <2>4, <2>5 DEF RowsKept
  <2>7. ASSUME NEW s \in Exchanges PROVE \A x, y \in sessions'[s] : x = y
    <3>1. CASE s \in exchanges[r].session
      <4>1. sessions'[s] = {[x EXCEPT !.revoked = TRUE] : x \in sessions[s]}
        BY <2>2, <3>1
      <4> QED BY <1>2, <4>1
    <3>2. CASE s \notin exchanges[r].session
      BY <1>2, <2>2, <3>2
    <3> QED BY <3>1, <3>2
  <2>8. sessions' \in [Exchanges -> SUBSET Row]
    BY <2>2, <2>4
  <2> QED BY <1>1, <1>4, <2>1, <2>2, <2>4, <2>6, <2>7, <2>8, WriteKeeps
<1>5. CASE exchanges[r].kind = "reauthenticate"
  <2>1. Advance(r, "answer")
    BY <1>5 DEF Commit, ChangesCookies
  <2>2. /\ \A s \in Exchanges \ exchanges[r].session : sessions'[s] = sessions[s]
        /\ \A s \in exchanges[r].session : s \in Exchanges =>
             sessions'[s] = {MarkReauthenticated(x, r, t) :
                                x \in sessions[s], t \in exchanges[r].token}
        /\ sessions' = [s \in Exchanges |-> sessions'[s]]
    BY <1>5 DEF Commit
  <2>3. PICK token \in exchanges[r].token : TRUE
    BY <1>1, <1>5 DEF SessionInv, ProgressInv, Orderly
  <2>4. /\ token \in issued /\ token.authTime # NoTime /\ token.authTime \in Nat
        /\ \A s \in exchanges[r].session : \A x \in sessions[s] : token.subject = x.user
    BY <1>1, <1>2, <1>5 DEF SessionInv, VouchedInv, IdToken
  <2>5. ASSUME NEW s \in exchanges[r].session, s \in Exchanges
        PROVE  sessions'[s] = {MarkReauthenticated(x, r, token) : x \in sessions[s]}
    BY <1>2, <2>2, <2>5
  <2>6. ASSUME NEW x \in Row
        PROVE  LET y == MarkReauthenticated(x, r, token)
               IN  /\ y \in Row /\ y.user = x.user /\ y.expiresAt = x.expiresAt
                   /\ y.authenticatedAt = token.authTime /\ y.csrf = r
    BY <2>4 DEF Row, MarkReauthenticated
  <2>7. ASSUME NEW s \in exchanges[r].session, s \in Exchanges, NEW y \in sessions'[s]
        PROVE  /\ y \in Row /\ y.csrf = r
               /\ y.authenticatedAt = token.authTime /\ token.subject = y.user
               /\ \E x \in sessions[s] : y.user = x.user /\ y.expiresAt = x.expiresAt
    <3>1. PICK x \in sessions[s] : y = MarkReauthenticated(x, r, token)
      BY <2>5, <2>7
    <3>2. x \in Row
      BY <1>2, <2>7
    <3> QED BY <2>4, <2>6, <3>1, <3>2
  <2>8. ASSUME NEW s \in Exchanges, NEW x \in sessions[s]
        PROVE  \E y \in sessions'[s] : y.user = x.user /\ y.expiresAt = x.expiresAt
    <3>1. CASE s \in exchanges[r].session
      <4>1. MarkReauthenticated(x, r, token) \in sessions'[s] /\ x \in Row
        BY <1>2, <2>5, <3>1
      <4> QED BY <2>6, <4>1
    <3>2. CASE s \notin exchanges[r].session
      BY <2>2, <3>2
    <3> QED BY <3>1, <3>2
  <2>9. RowsKept
    BY <2>2, <2>7, <2>8 DEF RowsKept
  <2>10. \A s \in Exchanges : \A x, y \in sessions'[s] : x = y
    BY <1>2, <2>2, <2>5
  <2>11. ASSUME NEW s \in Exchanges PROVE sessions'[s] \in SUBSET Row
    BY <1>2, <2>2, <2>7
  <2>12. sessions' \in [Exchanges -> SUBSET Row]
    BY <2>2, <2>11
  <2>13. ASSUME NEW s \in Exchanges, NEW y \in sessions'[s]
         PROVE  \/ \E x \in sessions[s] :
                      y.user = x.user /\ y.expiresAt = x.expiresAt
                      /\ y.authenticatedAt = x.authenticatedAt
                \/ \E t \in issued :
                      /\ t.subject = y.user /\ t.authTime # NoTime
                      /\ t.authTime = y.authenticatedAt
    <3>1. CASE s \in exchanges[r].session
      BY <2>4, <2>7, <2>13, <3>1
    <3>2. CASE s \notin exchanges[r].session
      BY <2>2, <2>13, <3>2
    <3> QED BY <3>1, <3>2
  <2>14. \A s \in exchanges[r].session : \A y \in sessions'[s] : y.csrf = r
    BY <2>7 DEF SessionInv, ProgressInv, Orderly, SignedIn
  <2> QED BY <1>1, <1>5, <2>1, <2>2, <2>9, <2>10, <2>12, <2>13, <2>14, WriteKeeps
<1> QED BY <1>1, <1>2, <1>3, <1>4, <1>5 DEF Kinds

(* An answer that changes cookies meets everything that is pending, and    *)
(* where nothing has crossed it is the only one under way.                 *)
LEMMA AnswerKeeps ==
  ASSUME SessionInv, NEW r \in Exchanges, Answer(r)
  PROVE  SessionInv'
<1>1. /\ exchanges[r].at = "answer" /\ exchanges[r].kind # "sensitive"
      /\ exchanges[r].kind \in Kinds /\ Changer(r)
      /\ UNCHANGED <<now, issued, sessions>>
      /\ End(r, "done") /\ cookies' = SetCookies(r)
      /\ crossed' = (crossed /\ ~(exchanges[r].kind = "login" /\ NoChangeBut(r)))
  BY DEF Answer, SessionInv, SessionTypeOK, Exchange, ProgressInv, Orderly, Changer, Pending,
         ChangesCookies
<1>2. /\ exchanges' \in [Exchanges -> Exchange]
      /\ \A p \in Exchanges \ {r} : exchanges'[p] = exchanges[p]
      /\ exchanges'[r].at = "done" /\ exchanges'[r].session = {}
      /\ exchanges'[r].kind = exchanges[r].kind
      /\ exchanges[r].kind = "login" => exchanges'[r].token = exchanges[r].token
      /\ exchanges[r].kind # "login" => exchanges'[r].token = {}
  BY <1>1, EndEffect DEF SessionInv
<1>3. /\ cookies \in Cookies /\ cookies' \in Cookies
      /\ exchanges[r].kind = "login" =>
            cookies'.session = {r} /\ cookies'.csrf = {r} /\ cookies'.login = {}
      /\ exchanges[r].kind = "reauthenticate" =>
            /\ cookies'.session = cookies.session /\ cookies'.csrf = {r}
            /\ cookies'.login = cookies.login
      /\ exchanges[r].kind = "signout" =>
            cookies'.session = {} /\ cookies'.login = cookies.login
  BY <1>1 DEF SessionInv, SessionTypeOK, Cookies, SetCookies, Kinds
<1>4. StepOf(r)
  BY <1>1, <1>2 DEF StepOf, Same
<1>5. SessionTypeOK'
  BY <1>1, <1>2, <1>3 DEF SessionInv, SessionTypeOK
<1>6. SignedIn \subseteq SignedIn'
  BY <1>4, SignedInGrows
<1>7. ProgressInv'
  <2>1. cookies'.session \subseteq SignedIn'
    BY <1>1, <1>2, <1>3, <1>6 DEF SessionInv, ProgressInv, SignedIn, Kinds
  <2>2. Orderly(exchanges[r])'
    BY <1>1, <1>2, <1>6 DEF Orderly, SessionInv, ProgressInv
  <2>3. sessions[r] # {} => MadeSession(r)'
    BY <1>1, <1>2 DEF SessionInv, ProgressInv, MadeSession
  <2> QED BY <1>1, <1>4, <2>1, <2>2, <2>3, ProgressKeeps DEF SessionInv
<1>8. VouchedInv'
  BY <1>1, <1>2, <1>4, VouchedKeeps DEF SessionInv, MadeSession
<1>9. LoginInv'
  <2>1. CASE exchanges[r].kind = "login"
    <3>1. \A p \in Exchanges : LoginUnderway(p)' => p # r /\ LoginUnderway(p)
      BY <1>2 DEF LoginUnderway, Pending
    <3>2. \A p, o \in Exchanges :
            (p # o /\ LoginUnderway(p)' /\ LoginUnderway(o)') => ~exchanges'[p].alone
      BY <1>2, <3>1 DEF SessionInv, LoginInv
    <3>3. ASSUME NEW p \in Exchanges, exchanges'[p].at = "begun" PROVE ~exchanges'[p].alone
      <4>1. p # r /\ exchanges'[p] = exchanges[p]
        BY <1>2, <3>3
      <4>2. LoginUnderway(p) /\ LoginUnderway(r)
        BY <1>1, <2>1, <3>3, <4>1
           DEF LoginUnderway, Changer, SessionInv, ProgressInv, Orderly
      <4> QED BY <4>1, <4>2 DEF SessionInv, LoginInv
    <3> QED BY <3>2, <3>3 DEF LoginInv
  <2>2. CASE exchanges[r].kind # "login"
    <3>1. cookies'.login = cookies.login
      BY <1>1, <1>3, <2>2 DEF Kinds
    <3> QED BY <1>2, <1>4, <2>2, <3>1, LoginKeeps DEF SessionInv, LoginUnderway
  <2> QED BY <2>1, <2>2
<1>10. AloneInv'
  <2> SUFFICES ASSUME NEW p \in Exchanges, Pending(p)', exchanges'[p].kind # "login",
                      exchanges'[p].alone
               PROVE  FALSE
    BY DEF AloneInv
  <2>1. p # r /\ exchanges'[p] = exchanges[p]
    BY <1>2 DEF Pending
  <2>2. Pending(p)
    BY <2>1 DEF Pending
  <2>3. Meet(exchanges[p].kind, r)
    BY <1>1 DEF Meet, Changer
  <2> QED BY <2>1, <2>2, <2>3 DEF SessionInv, CookieInv, AloneInv
<1>11. ASSUME ~crossed', NEW p \in Exchanges PROVE ~Changer(p)'
  <2>1. CASE p = r
    BY <1>2, <2>1 DEF Changer, Pending
  <2>2. CASE p # r
    <3>1. Changer(p)' <=> Changer(p)
      BY <1>2, <2>2 DEF Changer, Pending
    <3>2. CASE ~crossed
      BY <1>1, <2>2, <3>1, <3>2 DEF SessionInv, CookieInv, OrderInv
    <3>3. CASE NoChangeBut(r)
      BY <2>2, <3>1, <3>3 DEF NoChangeBut, Changer
    <3> QED BY <1>1, <1>11, <3>2, <3>3
  <2> QED BY <2>1, <2>2
<1>12. OrderInv'
  BY <1>11 DEF OrderInv
<1>13. FreshInv'
  BY <1>1, <1>2 DEF SessionInv, CookieInv, FreshInv
<1>14. AgreeInv'
  <2> SUFFICES ASSUME ~crossed', NEW s \in cookies'.session, NEW row \in sessions[s]
               PROVE  /\ \A c \in Exchanges : ~Reauthenticated(c)'
                      /\ cookies'.csrf = {row.csrf}
    BY <1>1 DEF AgreeInv
  <2>1. \A c \in Exchanges : ~Reauthenticated(c)'
    BY <1>11 DEF Reauthenticated, Changer, Pending, ChangesCookies
  <2>2. cookies'.csrf = {row.csrf}
    <3>1. CASE exchanges[r].kind = "login"
      BY <1>1, <1>3, <3>1 DEF SessionInv, CookieInv, FreshInv
    <3>2. CASE exchanges[r].kind = "reauthenticate"
      <4>1. ~crossed /\ Reauthenticated(r)
        BY <1>1, <3>2 DEF Reauthenticated
      <4> QED BY <1>3, <3>2, <4>1 DEF SessionInv, CookieInv, AgreeInv
    <3>3. CASE exchanges[r].kind = "signout"
      BY <1>3, <3>3
    <3> QED BY <1>1, <3>1, <3>2, <3>3 DEF Kinds
  <2> QED BY <2>1, <2>2
<1> QED BY <1>5, <1>7, <1>8, <1>9, <1>10, <1>12, <1>13, <1>14 DEF SessionInv, CookieInv

(* What one exchange does. *)
Moves(r) ==
    \/ BeginLogin(r) \/ Callback(r)
    \/ \E token \in issued : SignIn(r, token)
    \/ \E kind \in Kinds, token \in {{}} \cup {{t} : t \in issued} : Send(r, kind, token)
    \/ Authenticate(r) \/ Check(r) \/ Commit(r) \/ Answer(r) \/ Fail(r)

(* Every step keeps the invariant. *)
LEMMA SessionStep ==
  ASSUME SessionInv, [SessionNext]_sessionVars
  PROVE  SessionInv'
<1>1. CASE SessionNext
  <2>1. CASE Tick
    BY <2>1, TickKeeps
  <2>2. CASE \E u \in Subjects, t \in {NoTime} \cup (now .. now + ClockSkew) : Issue(u, t)
    BY <2>2, IssueKeeps
  <2>3. ASSUME NEW r \in Exchanges, Moves(r) PROVE SessionInv'
    BY <2>3, BeginLoginKeeps, CallbackKeeps, SignInKeeps, SendKeepsSession, AuthenticateKeeps,
       CheckKeeps, CommitKeeps, AnswerKeeps, FailKeeps DEF Moves
  <2> QED BY <1>1, <2>1, <2>2, <2>3 DEF SessionNext, Moves
<1>2. CASE UNCHANGED sessionVars
  <2>1. now' \in Nat /\ issued \subseteq issued' /\ issued' \subseteq IdToken
        /\ UNCHANGED <<sessions, cookies, exchanges, crossed>>
    BY <1>2 DEF sessionVars, SessionInv, SessionTypeOK
  <2> QED BY <2>1, QuietKeeps
<1> QED BY <1>1, <1>2

(* Sessions, cookies and requests keep their invariant.                    *)
THEOREM SessionSafety == SessionSpec => []SessionInv
BY SessionInitInv, SessionStep, PTL DEF SessionSpec

(* Sessions, cookies and requests keep their types, and no session has two *)
(* rows.                                                                   *)
THEOREM SessionTypes == SessionSpec => []SessionTypeOK
<1>1. SessionInv => SessionTypeOK
  BY DEF SessionInv
<1> QED BY <1>1, SessionSafety, PTL

(* The other exchanges stay where they are, and only a check authorizes,   *)
(* only authentication refuses a CSRF token, only a callback a login.      *)
LEMMA WhereTo ==
  ASSUME SessionInv, NEW r \in Exchanges, Moves(r)
  PROVE  /\ \A p \in Exchanges \ {r} : exchanges'[p].at = exchanges[p].at
         /\ exchanges'[r].at = "authorized" => Check(r) /\ Accepted(r)
         /\ exchanges'[r].at = "csrf_rejected" => Authenticate(r)
         /\ exchanges'[r].at = "invalid_callback" => Callback(r) /\ LoginCookie # {r}
<1> DEFINE Told == /\ \A p \in Exchanges \ {r} : exchanges'[p].at = exchanges[p].at
                   /\ exchanges'[r].at = "authorized" => Check(r) /\ Accepted(r)
                   /\ exchanges'[r].at = "csrf_rejected" => Authenticate(r)
                   /\ exchanges'[r].at = "invalid_callback" => Callback(r) /\ LoginCookie # {r}
<1>1. exchanges \in [Exchanges -> Exchange] /\ exchanges[r] \in Exchange /\ SessionTypeOK
  BY DEF SessionInv, SessionTypeOK
<1>2. ASSUME NEW at \in {"done", "rejected", "csrf_rejected", "invalid_callback"}, End(r, at)
      PROVE  /\ \A p \in Exchanges \ {r} : exchanges'[p] = exchanges[p]
             /\ exchanges'[r].at = at
  BY <1>1, <1>2, EndEffect
<1>3. CASE BeginLogin(r)
  <2>1. /\ exchanges'[r].at = "begun"
        /\ \A p \in Exchanges \ {r} :
             \/ exchanges'[p] = exchanges[p]
             \/ exchanges'[p] = [exchanges[p] EXCEPT !.alone = FALSE]
    BY <1>3 DEF BeginLogin, New
  <2>2. \A p \in Exchanges : [exchanges[p] EXCEPT !.alone = FALSE].at = exchanges[p].at
    BY <1>1 DEF Exchange
  <2> QED BY <2>1, <2>2
<1>4. CASE Callback(r)
  <2>1. CASE LoginCookie = {r}
    <3>1. SendAs(r, [exchanges[r] EXCEPT !.at = "sent"])
      BY <1>4, <2>1 DEF Callback
    <3> DEFINE q == [exchanges[r] EXCEPT !.at = "sent"]
    <3>2. q \in Exchange /\ q.at = "sent" /\ SendAs(r, q)
      BY <1>1, <3>1 DEF Exchange
    <3> HIDE DEF q
    <3> QED BY <1>1, <3>2, SendAsEffect DEF Same
  <2>2. CASE LoginCookie # {r}
    <3>1. End(r, "invalid_callback")
      BY <1>4, <2>2 DEF Callback
    <3> QED BY <1>2, <1>4, <2>2, <3>1
  <2> QED BY <2>1, <2>2
<1>5. CASE \E token \in issued : SignIn(r, token)
  BY <1>1, <1>5 DEF SignIn, Exchange
<1>6. ASSUME NEW kind \in Kinds, NEW token \in {{}} \cup {{t} : t \in issued},
             Send(r, kind, token)
      PROVE  Told
  <2> DEFINE q == [New EXCEPT !.at = "sent", !.kind = kind, !.token = token,
                              !.session = cookies.session, !.csrf = cookies.csrf]
  <2>1. cookies \in Cookies /\ token \in SUBSET IdToken
    BY <1>1 DEF SessionTypeOK
  <2>2. q \in Exchange /\ q.at = "sent"
    BY <2>1 DEF New, Exchange, Cookies
  <2>3. SendAs(r, q)
    BY <1>6 DEF Send
  <2> HIDE DEF q
  <2> QED BY <1>1, <2>2, <2>3, SendAsEffect DEF Same
<1>7. CASE Authenticate(r)
  <2>1. PICK s \in exchanges[r].session :
          \/ End(r, "rejected") \/ End(r, "csrf_rejected")
          \/ \E seen : exchanges' = [exchanges EXCEPT ![r].at = "checked", ![r].seen = seen]
    BY <1>7 DEF Authenticate
  <2>2. CASE \E seen : exchanges' = [exchanges EXCEPT ![r].at = "checked", ![r].seen = seen]
    BY <1>1, <2>2 DEF Exchange
  <2> QED BY <1>2, <1>7, <2>1, <2>2
<1>8. CASE Check(r)
  <2>1. (Accepted(r) /\ Advance(r, "authorized")) \/ End(r, "rejected")
    BY <1>8 DEF Check
  <2> QED BY <1>1, <1>2, <1>8, <2>1, AdvanceEffect
<1>9. CASE Commit(r)
  <2>1. Advance(r, "answer") \/ End(r, "done")
    BY <1>9 DEF Commit
  <2> QED BY <1>1, <1>2, <2>1, AdvanceEffect
<1>10. CASE Answer(r)
  BY <1>2, <1>10 DEF Answer
<1>11. CASE Fail(r)
  BY <1>2, <1>11 DEF Fail
<1> HIDE DEF Told
<1>12. Told
  <2>1. (\E kind \in Kinds, token \in {{}} \cup {{t} : t \in issued} : Send(r, kind, token))
          => Told
    BY <1>6
  <2> QED BY <1>3, <1>4, <1>5, <1>7, <1>8, <1>9, <1>10, <1>11, <2>1 DEF Moves, Told
<1> QED BY <1>12 DEF Told

(* An exchange that gets somewhere is the one that acts. *)
LEMMA Mover ==
  ASSUME SessionInv, [SessionNext]_sessionVars, NEW r \in Exchanges,
         exchanges'[r].at # exchanges[r].at
  PROVE  Moves(r)
<1>1. SessionNext
  BY DEF sessionVars
<1>2. ~Tick /\ \A u \in Subjects, t \in {NoTime} \cup (now .. now + ClockSkew) : ~Issue(u, t)
  BY DEF Tick, Issue
<1>3. PICK p \in Exchanges : Moves(p)
  BY <1>1, <1>2 DEF SessionNext, Moves
<1> QED BY <1>3, WhereTo

(* A sensitive action is authorized only while an authentication of the    *)
(* session's own user is recent: authorize() of auth.ts, whatever          *)
(* markReauthenticated has written since the session was read.             *)
THEOREM SensitiveAuthorizedRecently == SessionSpec => SensitiveIsRecent
<1>1. ASSUME SessionInv, [SessionNext]_sessionVars, NEW r \in Exchanges,
             exchanges[r].kind = "sensitive", exchanges[r].at # "authorized",
             exchanges'[r].at = "authorized"
      PROVE  \E s \in exchanges[r].session : \E row \in sessions[s] :
                \/ \E token \in issued :
                    /\ token.subject = row.user
                    /\ token.authTime # NoTime /\ IsRecent(token.authTime)
                \/ SignInCounts(s, row)
  <2>1. Check(r) /\ Accepted(r)
    BY <1>1, Mover, WhereTo
  <2>2. IsRecent(exchanges[r].seen) /\ exchanges[r].at = "checked"
    BY <1>1, <2>1 DEF Check, Accepted
  <2>3. PICK s \in exchanges[r].session :
            \E row \in sessions[s] : Vouched(s, row, exchanges[r].seen)
    BY <1>1, <2>2 DEF SessionInv, VouchedInv
  <2>4. PICK row \in sessions[s] : Vouched(s, row, exchanges[r].seen)
    BY <2>3
  <2>5. CASE \E token \in issued :
                token.subject = row.user /\ token.authTime # NoTime
                /\ token.authTime = exchanges[r].seen
    BY <2>2, <2>3, <2>4, <2>5
  <2>6. CASE /\ \E token \in exchanges[s].token : token.authTime = NoTime
             /\ exchanges[r].seen = row.expiresAt - SessionLifetime
    <3>1. now \in Nat /\ exchanges[r].seen \in Nat /\ row.expiresAt \in Nat
      <4>1. s \in Exchanges
        BY <1>1 DEF SessionInv, ProgressInv, Orderly, SignedIn
      <4>2. row \in Row /\ exchanges[r] \in Exchange
        BY <1>1, <4>1 DEF SessionInv, SessionTypeOK
      <4> QED BY <1>1, <4>2 DEF Row, Exchange, SessionInv, SessionTypeOK
    <3>2. now - exchanges[r].seen <= RecentWindow
      BY <2>2 DEF IsRecent
    <3>3. now <= row.expiresAt - SessionLifetime + RecentWindow
      BY <2>6, <3>1, <3>2, LifetimesAssumption
    <3> QED BY <2>3, <2>4, <2>6, <3>3 DEF SignInCounts
  <2> QED BY <2>4, <2>5, <2>6 DEF Vouched
<1>2. SessionSpec => []SessionInv
  BY SessionSafety
<1>3. SessionInv /\ [SessionNext]_sessionVars =>
        [\A r \in Exchanges :
            (exchanges[r].kind = "sensitive" /\ exchanges[r].at # "authorized"
                                            /\ exchanges'[r].at = "authorized") =>
                \E s \in exchanges[r].session : \E row \in sessions[s] :
                    \/ \E token \in issued :
                        /\ token.subject = row.user
                        /\ token.authTime # NoTime /\ IsRecent(token.authTime)
                    \/ SignInCounts(s, row)]_sessionVars
  BY <1>1
<1> QED BY <1>2, <1>3, PTL DEF SessionSpec, SensitiveIsRecent

(* requireCsrf() refuses the browser's token only if cookie changes have   *)
(* overlapped, or an answer with cookies was lost.                         *)
THEOREM CsrfAgrees == SessionSpec => CsrfRejectedOnlyIfCrossed
<1>1. ASSUME SessionInv, [SessionNext]_sessionVars, NEW r \in Exchanges,
             exchanges[r].at = "sent", exchanges'[r].at = "csrf_rejected",
             ~crossed, exchanges[r].alone
      PROVE  FALSE
  <2>1. Authenticate(r)
    BY <1>1, Mover, WhereTo
  <2>2. Pending(r) /\ exchanges[r].kind # "login" /\ ~Reauthenticated(r)
    BY <1>1, <2>1 DEF Authenticate, Pending, Reauthenticated
  <2>3. /\ \A o \in Exchanges \ {r} : ~Meet(exchanges[r].kind, o)
        /\ exchanges[r].session = cookies.session /\ exchanges[r].csrf = cookies.csrf
    BY <1>1, <2>2 DEF SessionInv, CookieInv, AloneInv
  <2>4. \A c \in Exchanges : ~Reauthenticated(c)
    BY <2>2, <2>3 DEF Reauthenticated, Meet, Pending, ChangesCookies
  <2>5. \A s \in exchanges[r].session : \A row \in sessions[s] : exchanges[r].csrf = {row.csrf}
    BY <1>1, <2>3, <2>4 DEF SessionInv, CookieInv, AgreeInv
  <2>6. PICK s \in exchanges[r].session :
          LET found == {row \in sessions[s] : ActiveRow(row)}
          IN  IF found = {} THEN End(r, "rejected")
              ELSE \E row \in found :
                  IF exchanges[r].csrf # {row.csrf} THEN End(r, "csrf_rejected")
                  ELSE exchanges' = [exchanges EXCEPT
                          ![r].at = "checked",
                          ![r].seen = IF exchanges[r].kind = "sensitive"
                                      THEN row.authenticatedAt ELSE 0]
    BY <2>1 DEF Authenticate
  <2>7. \/ End(r, "rejected")
        \/ \E seen : exchanges' = [exchanges EXCEPT ![r].at = "checked", ![r].seen = seen]
    BY <2>5, <2>6
  <2>8. exchanges'[r].at \in {"rejected", "checked"}
    BY <1>1, <2>7, EndEffect DEF SessionInv, SessionTypeOK, Exchange
  <2> QED BY <1>1, <2>8
<1>2. SessionSpec => []SessionInv
  BY SessionSafety
<1>3. SessionInv /\ [SessionNext]_sessionVars =>
        [\A r \in Exchanges :
            (exchanges[r].at = "sent" /\ exchanges'[r].at = "csrf_rejected") =>
                crossed \/ ~exchanges[r].alone]_sessionVars
  BY <1>1
<1> QED BY <1>2, <1>3, PTL DEF SessionSpec, CsrfRejectedOnlyIfCrossed

(* The callback route turns a login away only if another login of the      *)
(* browser overlapped it or its cookies had run out.                       *)
THEOREM LoginComesBack == SessionSpec => LoginRejectedOnlyIfOverlapping
<1>1. ASSUME SessionInv, [SessionNext]_sessionVars, NEW r \in Exchanges,
             exchanges[r].at = "begun", exchanges'[r].at = "invalid_callback"
      PROVE  ~exchanges[r].alone \/ now >= cookies.loginExpires
  <2>1. LoginCookie # {r}
    BY <1>1, Mover, WhereTo
  <2>2. exchanges[r].alone => cookies.login = {r}
    BY <1>1 DEF SessionInv, LoginInv
  <2>3. now \in Nat /\ cookies.loginExpires \in Nat
    BY <1>1 DEF SessionInv, SessionTypeOK, Cookies
  <2> QED BY <2>1, <2>2, <2>3 DEF LoginCookie
<1>2. SessionSpec => []SessionInv
  BY SessionSafety
<1>3. SessionInv /\ [SessionNext]_sessionVars =>
        [\A r \in Exchanges :
            (exchanges[r].at = "begun" /\ exchanges'[r].at = "invalid_callback") =>
                ~exchanges[r].alone \/ now >= cookies.loginExpires]_sessionVars
  BY <1>1
<1> QED BY <1>2, <1>3, PTL DEF SessionSpec, LoginRejectedOnlyIfOverlapping

(* No write to a session takes back that it was signed out, not even a     *)
(* reauthentication that read it before.                                   *)
THEOREM SignOutIsFinal == SessionSpec => SignedOutStays
<1>1. ASSUME SessionInv, [SessionNext]_sessionVars, NEW r \in Exchanges,
             NEW row \in sessions[r], row.revoked
      PROVE  \E after \in sessions'[r] : after.revoked
  <2>1. CASE sessions'[r] = sessions[r]
    BY <1>1, <2>1
  <2>2. ASSUME NEW p \in Exchanges, NEW token \in issued, SignIn(p, token)
        PROVE  sessions'[r] = sessions[r]
    <3>1. sessions[p] = {}
      BY <1>1, <2>2 DEF SignIn, SessionInv, ProgressInv, MadeSession
    <3> QED BY <1>1, <2>2, <3>1 DEF SignIn, SessionInv, SessionTypeOK
  <2>3. ASSUME NEW p \in Exchanges, Commit(p), r \in exchanges[p].session,
               exchanges[p].kind = "signout"
        PROVE  \E after \in sessions'[r] : after.revoked
    <3>1. sessions'[r] = {[x EXCEPT !.revoked = TRUE] : x \in sessions[r]}
      BY <2>3 DEF Commit
    <3>2. [row EXCEPT !.revoked = TRUE] \in sessions'[r] /\ row \in Row
      BY <1>1, <3>1 DEF SessionInv, SessionTypeOK
    <3>3. [row EXCEPT !.revoked = TRUE].revoked
      BY <3>2 DEF Row
    <3> QED BY <3>2, <3>3
  <2>4. ASSUME NEW p \in Exchanges, Commit(p), r \in exchanges[p].session,
               exchanges[p].kind = "reauthenticate"
        PROVE  \E after \in sessions'[r] : after.revoked
    <3>1. sessions'[r] = {MarkReauthenticated(x, p, token) :
                            x \in sessions[r], token \in exchanges[p].token}
      BY <2>4 DEF Commit
    <3>2. PICK token \in exchanges[p].token : TRUE
      BY <1>1, <2>4 DEF Commit, SessionInv, ProgressInv, Orderly
    <3>3. MarkReauthenticated(row, p, token) \in sessions'[r] /\ row \in Row
      BY <1>1, <3>1 DEF SessionInv, SessionTypeOK
    <3>4. MarkReauthenticated(row, p, token).revoked
      BY <1>1, <3>3 DEF Row, MarkReauthenticated
    <3> QED BY <3>3, <3>4
  <2>5. ASSUME NEW p \in Exchanges, Commit(p) PROVE \E after \in sessions'[r] : after.revoked
    <3>1. (r \notin exchanges[p].session
              \/ exchanges[p].kind \notin {"signout", "reauthenticate"})
            => sessions'[r] = sessions[r]
      BY <2>5 DEF Commit
    <3> QED BY <2>1, <2>3, <2>4, <2>5, <3>1
  <2>6. ASSUME NEW p \in Exchanges, Moves(p) PROVE \E after \in sessions'[r] : after.revoked
    <3>1. \/ sessions' = sessions
          \/ \E token \in issued : SignIn(p, token)
          \/ Commit(p)
      BY <2>6 DEF Moves, BeginLogin, Callback, Send, Authenticate, Check, Answer, Fail
    <3> QED BY <2>1, <2>2, <2>5, <3>1
  <2>7. CASE SessionNext
    <3>1. (Tick \/ \E u \in Subjects, t \in {NoTime} \cup (now .. now + ClockSkew) : Issue(u, t))
            => sessions' = sessions
      BY DEF Tick, Issue
    <3> QED BY <2>1, <2>6, <2>7, <3>1 DEF SessionNext, Moves
  <2>8. CASE UNCHANGED sessionVars
    BY <2>1, <2>8 DEF sessionVars
  <2> QED BY <1>1, <2>7, <2>8
<1>2. SessionSpec => []SessionInv
  BY SessionSafety
<1>3. SessionInv /\ [SessionNext]_sessionVars =>
        [\A r \in Exchanges :
            (\E row \in sessions[r] : row.revoked)
                => (\E row \in sessions'[r] : row.revoked)]_sessionVars
  BY <1>1
<1> QED BY <1>2, <1>3, PTL DEF SessionSpec, SignedOutStays

=============================================================================
