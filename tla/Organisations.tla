---------------------------- MODULE Organisations ----------------------------
(***************************************************************************)
(* Users, organisations, memberships and invites, as the handlers of the   *)
(* API change them.  A handler is a few statements of its own, each in a   *)
(* transaction of its own, so that several requests interleave between     *)
(* what one checks and what it writes.                                     *)
(***************************************************************************)
EXTENDS Integers, FiniteSets

CONSTANTS
    OrUsers, OrOrgs, OrInvites,
    OrCalls,         \* requests that are served at a time
    OrMaxCalls       \* bound: requests other than to register and to revoke

VARIABLES
    orActive,   \* per user: active_organisation_id; no users row: OrNone
    orRole,     \* per organisation and user: the membership
    orNamed,    \* organisations named after the e-mail domain all users share
    orInvite,   \* per invite: its row
    orCall,     \* per request: where it is and what it has read
    orRaced,    \* history: a member changed between a handler's check and its write
    orDemoted,  \* history: an admin accepted an invite to be a member
    orServed    \* requests so far (bound)

orgVars == <<orActive, orRole, orNamed, orInvite, orCall, orRaced, orDemoted, orServed>>

-----------------------------------------------------------------------------

OrNone == "none"

ASSUME OrAssumption == OrNone \notin OrUsers \cup OrOrgs /\ OrMaxCalls \in Nat

OrIdle == [at |-> "idle", by |-> OrNone, org |-> OrNone, target |-> OrNone, role |-> OrNone]

OrNoInvite == [org |-> OrNone, user |-> OrNone, role |-> OrNone,
               accepted |-> 0, revoked |-> FALSE, expired |-> FALSE]

OrganisationsInit ==
    /\ orActive = [u \in OrUsers |-> OrNone]
    /\ orRole = [o \in OrOrgs |-> [u \in OrUsers |-> OrNone]]
    /\ orNamed = {}
    /\ orInvite = [i \in OrInvites |-> OrNoInvite]
    /\ orCall = [c \in OrCalls |-> OrIdle]
    /\ orRaced = FALSE /\ orDemoted = FALSE /\ orServed = 0

OrMembers(o) == {u \in OrUsers : orRole[o][u] # OrNone}
OrAdmins(o)  == {u \in OrUsers : orRole[o][u] = "admin"}

\* The next organisation: they are never deleted, and alike, so that one without
\* members is one to come.
OrUnborn ==
    LET free == {o \in OrOrgs : OrMembers(o) = {}}
    IN  {o \in free : o = CHOOSE p \in free : TRUE}

OrServed == orServed < OrMaxCalls /\ orServed' = orServed + 1

\* A request comes in and is where call says; requests are alike.
OrBegins(c, call) ==
    /\ orCall[c] = OrIdle /\ c = CHOOSE d \in OrCalls : orCall[d] = OrIdle
    /\ IF call.at = "registers" THEN UNCHANGED orServed ELSE OrServed
    /\ orCall' = [orCall EXCEPT ![c] = call]

OrGoes(c, to) == orCall' = [orCall EXCEPT ![c].at = to] /\ UNCHANGED orServed

OrEnds(c) == orCall' = [orCall EXCEPT ![c] = OrIdle] /\ UNCHANGED orServed

OrSetRole(o, u, role) == orRole' = [orRole EXCEPT ![o][u] = role]

-----------------------------------------------------------------------------
(* GetOrCreateUser, CreateUser and CreateOrganisationForUser *)

\* CreateUser finds no such user.  A business e-mail joins the organisation of the
\* domain's name, if there is one; the role keeps whether the e-mail is one.
OrLookUp(c, u, business) ==
    /\ orActive[u] = OrNone
    /\ \E found \in IF business /\ orNamed # {} THEN orNamed ELSE {OrNone} :
          OrBegins(c, [at |-> "registers", by |-> u, org |-> found, target |-> OrNone,
                       role |-> IF business THEN "member" ELSE "admin"])
    /\ UNCHANGED <<orActive, orRole, orNamed, orInvite, orRaced, orDemoted>>

\* The rows are inserted in one transaction, which the key of users fails if the
\* user has registered by now.  The creator of an organisation is its admin.
OrRegister(c) ==
    LET u == orCall[c].by
        Joins(o, role) == /\ orActive' = [orActive EXCEPT ![u] = o]
                          /\ OrSetRole(o, u, role)
    IN  /\ orCall[c].at = "registers" /\ orActive[u] = OrNone
        /\ \/ /\ orCall[c].org # OrNone /\ Joins(orCall[c].org, "member")
              /\ UNCHANGED orNamed
           \/ \E o \in OrUnborn :
                 /\ orCall[c].org = OrNone /\ Joins(o, "admin")
                 /\ orNamed' = IF orCall[c].role = "member" THEN orNamed \cup {o} ELSE orNamed
        /\ OrEnds(c)
        /\ UNCHANGED <<orInvite, orRaced, orDemoted>>

OrRegisterFails(c) ==
    /\ orCall[c].at = "registers" /\ orActive[orCall[c].by] # OrNone
    /\ OrEnds(c)
    /\ UNCHANGED <<orActive, orRole, orNamed, orInvite, orRaced, orDemoted>>

\* CreateOrganisationForUser is one transaction under a lock on the users row; it
\* refuses a name the user's organisations have already.
OrCreateOrganisation(u, named) ==
    /\ orActive[u] # OrNone /\ OrServed
    /\ named => \A o \in orNamed : orRole[o][u] = OrNone
    /\ \E o \in OrUnborn :
          /\ OrSetRole(o, u, "admin")
          /\ orActive' = [orActive EXCEPT ![u] = o]
          /\ orNamed' = IF named THEN orNamed \cup {o} ELSE orNamed
    /\ UNCHANGED <<orInvite, orCall, orRaced, orDemoted>>

-----------------------------------------------------------------------------
(* SetActiveOrganisation, and switchOrganisation which calls it *)

OrSwitch(c, u, o) ==
    /\ orRole[o][u] # OrNone /\ orActive[u] # o
    /\ OrBegins(c, [OrIdle EXCEPT !.at = "activates", !.by = u, !.org = o])
    /\ UNCHANGED <<orActive, orRole, orNamed, orInvite, orRaced, orDemoted>>

\* The membership is validated ...
OrValidate(c) ==
    /\ orCall[c].at = "activates"
    /\ IF orRole[orCall[c].org][orCall[c].by] # OrNone THEN OrGoes(c, "sets") ELSE OrEnds(c)
    /\ UNCHANGED <<orActive, orRole, orNamed, orInvite, orRaced, orDemoted>>

\* ... and the users row updated after it.
OrSetActive(c) ==
    /\ orCall[c].at = "sets"
    /\ orActive' = [orActive EXCEPT ![orCall[c].by] = orCall[c].org]
    /\ OrEnds(c)
    /\ UNCHANGED <<orRole, orNamed, orInvite, orRaced, orDemoted>>

\* The update fails: the handler ends, or a goroutine it leaves behind tries again.
OrSetActiveFails(c) ==
    /\ orCall[c].at = "sets"
    /\ OrEnds(c) \/ OrGoes(c, "activates")
    /\ UNCHANGED <<orActive, orRole, orNamed, orInvite, orRaced, orDemoted>>

-----------------------------------------------------------------------------
(* deleteOrganisationMember and updateOrganisationMemberRole *)

\* requireOrganisationAdmin, on the caller's active organisation.  A role of
\* "none" is the removal; nobody changes the role of their own.
OrAdmit(c, u, target, role) ==
    LET o == orActive[u]
    IN  /\ o # OrNone /\ orRole[o][u] = "admin"
        /\ role # OrNone => target # u
        /\ OrBegins(c, [at |-> "admitted", by |-> u, org |-> o, target |-> target, role |-> role])
        /\ UNCHANGED <<orActive, orRole, orNamed, orInvite, orRaced, orDemoted>>

\* Mutant: the handler does not count the admins.
OrLastAdminNever(c) == FALSE

\* GetOrganisationMemberRole and CountOrganisationAdmins: the last admin stays.
OrLastAdmin(c) ==
    LET o == orCall[c].org
    IN  /\ orRole[o][orCall[c].target] = "admin" /\ orCall[c].role # "admin"
        /\ Cardinality(OrAdmins(o)) =< 1

OrCheck(c) ==
    LET o == orCall[c].org
    IN  /\ orCall[c].at = "admitted"
        /\ IF orRole[o][orCall[c].target] = OrNone \/ OrLastAdmin(c) THEN OrEnds(c)
           ELSE OrGoes(c, "checked")
        /\ UNCHANGED <<orActive, orRole, orNamed, orInvite, orRaced, orDemoted>>

\* The row is deleted or updated; it is an error if it is gone.  Others that have
\* checked this organisation checked what is no longer so.
OrChange(c) ==
    LET o == orCall[c].org
        t == orCall[c].target
        Others == {d \in OrCalls \ {c} : orCall[d].at = "checked" /\ orCall[d].org = o}
    IN  /\ orCall[c].at = "checked"
        /\ IF orRole[o][t] = OrNone THEN UNCHANGED orRole ELSE OrSetRole(o, t, orCall[c].role)
        /\ orRaced' = (orRaced \/ Others # {})
        /\ OrEnds(c)
        /\ UNCHANGED <<orActive, orNamed, orInvite, orDemoted>>

-----------------------------------------------------------------------------
(* Invites *)

\* Neither accepted nor revoked, which is what the unique index is about: an
\* invite that has expired keeps its place.
OrOpen(i) == orInvite[i].org # OrNone /\ orInvite[i].accepted = 0 /\ ~orInvite[i].revoked

\* Mutant: AcceptOrganisationInvite reads the invite without FOR UPDATE.
OrLockedNever(i) == FALSE

\* AcceptOrganisationInvite holds the invite's row.
OrLocked(i) == \E c \in OrCalls : orCall[c].at = "accepts" /\ orCall[c].target = i

\* createOrganisationInvite.  The e-mail of a member is refused; a user who joins
\* between that check and the insert is one who joins right after it.
OrCreateInvite(i, u, target, role) ==
    LET o == orActive[u]
    IN  /\ o # OrNone /\ orRole[o][u] = "admin" /\ orRole[o][target] = OrNone
        /\ orInvite[i] = OrNoInvite /\ OrServed
        /\ \A j \in OrInvites : ~(OrOpen(j) /\ orInvite[j].org = o /\ orInvite[j].user = target)
        /\ orInvite' = [orInvite EXCEPT ![i] = [OrNoInvite EXCEPT !.org = o, !.user = target, !.role = role]]
        /\ UNCHANGED <<orActive, orRole, orNamed, orCall, orRaced, orDemoted>>

OrExpire(i) ==
    /\ OrOpen(i) /\ ~orInvite[i].expired
    /\ orInvite' = [orInvite EXCEPT ![i].expired = TRUE]
    /\ UNCHANGED <<orActive, orRole, orNamed, orCall, orRaced, orDemoted, orServed>>

\* RevokeOrganisationInvite is one statement, which waits for the row.
OrRevoke(i, u) ==
    /\ OrOpen(i) /\ ~OrLocked(i)
    /\ orActive[u] = orInvite[i].org /\ orRole[orInvite[i].org][u] = "admin"
    /\ orInvite' = [orInvite EXCEPT ![i].revoked = TRUE]
    /\ UNCHANGED <<orActive, orRole, orNamed, orCall, orRaced, orDemoted, orServed>>

\* AcceptOrganisationInvite locks the invite and looks at it ...
OrAccept(c, i) ==
    LET u == orInvite[i].user
    IN  /\ OrOpen(i) /\ ~orInvite[i].expired /\ ~OrLocked(i)
        /\ orActive[u] # OrNone
        /\ OrBegins(c, [at |-> "accepts", by |-> u, org |-> orInvite[i].org, target |-> i,
                        role |-> orInvite[i].role])
        /\ UNCHANGED <<orActive, orRole, orNamed, orInvite, orRaced, orDemoted>>

\* ... and writes the membership over any there is.  The handler goes on to set
\* the active organisation.
OrAcceptCommit(c) ==
    LET o == orCall[c].org
        u == orCall[c].by
        Others == {d \in OrCalls : orCall[d].at = "checked" /\ orCall[d].org = o}
    IN  /\ orCall[c].at = "accepts"
        /\ orInvite' = [orInvite EXCEPT ![orCall[c].target].accepted = @ + 1]
        /\ OrSetRole(o, u, orCall[c].role)
        /\ orDemoted' = (orDemoted \/ (orRole[o][u] = "admin" /\ orCall[c].role = "member"))
        /\ orRaced' = (orRaced \/ Others # {})
        /\ orCall' = [orCall EXCEPT ![c] = [OrIdle EXCEPT !.at = "activates", !.by = u, !.org = o]]
        /\ UNCHANGED <<orActive, orNamed, orServed>>

\* A statement or the COMMIT fails, and the lock goes.
OrAcceptFails(c) ==
    /\ orCall[c].at = "accepts"
    /\ OrEnds(c)
    /\ UNCHANGED <<orActive, orRole, orNamed, orInvite, orRaced, orDemoted>>

-----------------------------------------------------------------------------

OrStep(c) == \/ OrRegister(c) \/ OrRegisterFails(c) \/ OrValidate(c) \/ OrSetActive(c)
             \/ OrSetActiveFails(c) \/ OrCheck(c) \/ OrChange(c) \/ OrAcceptCommit(c)
             \/ OrAcceptFails(c)

OrganisationsNext ==
    \/ \E c \in OrCalls : OrStep(c)
    \/ \E c \in OrCalls, u \in OrUsers :
          \/ \E business \in BOOLEAN : OrLookUp(c, u, business)
          \/ \E o \in OrOrgs : OrSwitch(c, u, o)
          \/ \E target \in OrUsers, role \in {OrNone, "member", "admin"} : OrAdmit(c, u, target, role)
    \/ \E u \in OrUsers, named \in BOOLEAN : OrCreateOrganisation(u, named)
    \/ \E i \in OrInvites :
          \/ \E u, target \in OrUsers, role \in {"member", "admin"} : OrCreateInvite(i, u, target, role)
          \/ \E u \in OrUsers : OrRevoke(i, u)
          \/ \E c \in OrCalls : OrAccept(c, i)
          \/ OrExpire(i)

OrganisationsSpec == OrganisationsInit /\ [][OrganisationsNext]_orgVars

-----------------------------------------------------------------------------
(* Properties *)

\* What a request in each of its places has read, and what a row of an invite holds.
OrCallRows ==
    [at : {"registers"}, by : OrUsers, org : OrOrgs \cup {OrNone}, target : {OrNone},
     role : {"member", "admin"}]
    \cup [at : {"activates", "sets"}, by : OrUsers, org : OrOrgs, target : {OrNone}, role : {OrNone}]
    \cup [at : {"admitted", "checked"}, by : OrUsers, org : OrOrgs, target : OrUsers,
          role : {OrNone, "member", "admin"}]
    \cup [at : {"accepts"}, by : OrUsers, org : OrOrgs, target : OrInvites, role : {"member", "admin"}]

OrInviteRows == [org : OrOrgs, user : OrUsers, role : {"member", "admin"},
                 accepted : Nat, revoked : BOOLEAN, expired : BOOLEAN]

\* Every variable of the organisations stays within its type.
OrganisationsTypeOK ==
    /\ orActive \in [OrUsers -> OrOrgs \cup {OrNone}]
    /\ orRole \in [OrOrgs -> [OrUsers -> {OrNone, "member", "admin"}]]
    /\ orNamed \subseteq OrOrgs
    /\ orInvite \in [OrInvites -> OrInviteRows \cup {OrNoInvite}]
    /\ orCall \in [OrCalls -> OrCallRows \cup {OrIdle}]
    /\ orRaced \in BOOLEAN /\ orDemoted \in BOOLEAN /\ orServed \in 0 .. OrMaxCalls

\* "Organisation must have at least one admin": an organisation with members has
\* one, as long as no member changed between the check of a handler and its write,
\* and no admin accepted an invite that was written before they became one.
AdminRemains ==
    ~orRaced /\ ~orDemoted => \A o \in OrOrgs : OrMembers(o) # {} => OrAdmins(o) # {}

\* An invite has one fate: it is accepted once, or it is revoked.
InviteOneFate ==
    \A i \in OrInvites : orInvite[i].accepted + (IF orInvite[i].revoked THEN 1 ELSE 0) =< 1
=============================================================================
