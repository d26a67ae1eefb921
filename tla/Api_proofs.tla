---------------------------- MODULE Api_proofs -----------------------------
(***************************************************************************)
(* Proofs about the API processes: organisations and their members,        *)
(* schedules and webhooks, and the notifications they sweep, for any number *)
(* of users, organisations, processes and requests served at a time.       *)
(*                                                                         *)
(* AdminRemains holds as long as no two requests overlap on an organisation *)
(* and no admin takes an invite to be a member.  It is not inductive: a user *)
(* joins an organisation found by name, or by an invite, long after the    *)
(* admin that made it joinable was seen, and a request writes after it     *)
(* counted.  AdminsKept says what each of them may still rely on.          *)
(***************************************************************************)
EXTENDS Organisations, Schedules, Notifications, FiniteSetTheorems,
        SequenceTheorems, WellFoundedInduction, TLAPS

-----------------------------------------------------------------------------
(* Organisations: the invariant *)

\* Who has a role, or is about to get one by an invite, has registered.
RolesRegistered ==
    /\ \A o \in OrOrgs, u \in OrUsers : orRole[o][u] # OrNone => orActive[u] # OrNone
    /\ \A c \in OrCalls : orCall[c].at = "accepts" => orActive[orCall[c].by] # OrNone

\* An invite that is being accepted is open, and by one request.
InvitesHeld ==
    /\ InviteOneFate
    /\ \A c \in OrCalls : orCall[c].at = "accepts" => OrOpen(orCall[c].target)
    /\ \A c, d \in OrCalls :
           orCall[c].at = "accepts" /\ orCall[d].at = "accepts"
           /\ orCall[c].target = orCall[d].target => c = d

\* Organisations that somebody is in, is about to join, or may be invited to.
Joinable ==
    {o \in OrOrgs :
        \/ OrMembers(o) # {} \/ o \in orNamed
        \/ \E i \in OrInvites : orInvite[i].org = o
        \/ \E c \in OrCalls : orCall[c].at \in {"registers", "accepts"} /\ orCall[c].org = o}

\* The request c may write its role: another admin is left, if it takes one away.
LeavesAdmin(c) ==
    LET o == orCall[c].org
        t == orCall[c].target
    IN  /\ orRole[o][t] # OrNone
        /\ orRole[o][t] = "admin" /\ orCall[c].role # "admin" => \E a \in OrAdmins(o) : a # t

AdminsKept ==
    ~orRaced /\ ~orDemoted =>
        /\ \A o \in Joinable : OrAdmins(o) # {}
        /\ \A c \in OrCalls : orCall[c].at = "checked" => LeavesAdmin(c)

OrgInv == OrganisationsTypeOK /\ RolesRegistered /\ InvitesHeld /\ AdminsKept

-----------------------------------------------------------------------------
(* Organisations: requests *)

\* The rows of requests by their place.
LEMMA CallTypes ==
    ASSUME OrganisationsTypeOK, NEW c \in OrCalls
    PROVE  /\ orCall[c].at = "registers" =>
                 orCall[c] \in [at : {"registers"}, by : OrUsers, org : OrOrgs \cup {OrNone},
                                target : {OrNone}, role : {"member", "admin"}]
           /\ orCall[c].at \in {"activates", "sets"} =>
                 orCall[c] \in [at : {"activates", "sets"}, by : OrUsers, org : OrOrgs,
                                target : {OrNone}, role : {OrNone}]
           /\ orCall[c].at \in {"admitted", "checked"} =>
                 orCall[c] \in [at : {"admitted", "checked"}, by : OrUsers, org : OrOrgs,
                                target : OrUsers, role : {OrNone, "member", "admin"}]
           /\ orCall[c].at = "accepts" =>
                 orCall[c] \in [at : {"accepts"}, by : OrUsers, org : OrOrgs,
                                target : OrInvites, role : {"member", "admin"}]
<1>1. orCall[c] \in OrCallRows \cup {OrIdle}
  BY DEF OrganisationsTypeOK
<1> QED BY <1>1 DEF OrCallRows, OrIdle

\* A request that moves on keeps what it has read.
LEMMA GoesType ==
    ASSUME OrganisationsTypeOK, NEW c \in OrCalls, NEW to, OrGoes(c, to),
           \/ orCall[c].at \in {"activates", "sets"} /\ to \in {"activates", "sets"}
           \/ orCall[c].at \in {"admitted", "checked"} /\ to \in {"admitted", "checked"}
    PROVE  /\ orCall' \in [OrCalls -> OrCallRows \cup {OrIdle}] /\ orServed' \in 0 .. OrMaxCalls
           /\ \A d \in OrCalls \ {c} : orCall'[d] = orCall[d]
           /\ orCall'[c] = [orCall[c] EXCEPT !.at = to] /\ orCall'[c].at = to
<1>1. orCall' = [orCall EXCEPT ![c] = [orCall[c] EXCEPT !.at = to]]
  BY DEF OrGoes, OrganisationsTypeOK
<1>2. [orCall[c] EXCEPT !.at = to] \in OrCallRows
  BY CallTypes DEF OrCallRows
<1>3. [orCall[c] EXCEPT !.at = to].at = to
  BY <1>2, CallTypes
<1> QED BY <1>1, <1>2, <1>3 DEF OrganisationsTypeOK, OrGoes

\* The end of a handler keeps the types of its call.
LEMMA EndsType ==
    ASSUME OrganisationsTypeOK, NEW c \in OrCalls, OrEnds(c)
    PROVE  /\ orCall' \in [OrCalls -> OrCallRows \cup {OrIdle}] /\ orServed' \in 0 .. OrMaxCalls
           /\ \A d \in OrCalls \ {c} : orCall'[d] = orCall[d]
           /\ orCall'[c] = OrIdle /\ orCall'[c].at = "idle"
BY DEF OrganisationsTypeOK, OrEnds, OrIdle

\* A request that begins is a well-typed call.
LEMMA BeginsType ==
    ASSUME OrganisationsTypeOK, NEW c \in OrCalls, NEW call \in OrCallRows, OrBegins(c, call)
    PROVE  orCall' \in [OrCalls -> OrCallRows \cup {OrIdle}] /\ orServed' \in 0 .. OrMaxCalls
BY OrAssumption DEF OrganisationsTypeOK, OrBegins, OrServed

\* Setting a role keeps the members' table well typed.
LEMMA SetRoleType ==
    ASSUME OrganisationsTypeOK, NEW o \in OrOrgs, NEW u \in OrUsers,
           NEW role \in {OrNone, "member", "admin"}, OrSetRole(o, u, role)
    PROVE  /\ orRole' \in [OrOrgs -> [OrUsers -> {OrNone, "member", "admin"}]]
           /\ \A p \in OrOrgs, v \in OrUsers :
                  orRole'[p][v] = IF p = o /\ v = u THEN role ELSE orRole[p][v]
BY DEF OrganisationsTypeOK, OrSetRole

\* An invite that is open has a row.
LEMMA OpenRow ==
    ASSUME OrganisationsTypeOK, NEW i \in OrInvites, OrOpen(i)
    PROVE  orInvite[i] \in OrInviteRows
BY DEF OrganisationsTypeOK, OrOpen, OrNoInvite

-----------------------------------------------------------------------------
(* Organisations: types *)

\* The initial states satisfy the invariant.
LEMMA InitOrg == OrganisationsInit => OrgInv
<1> SUFFICES ASSUME OrganisationsInit PROVE OrgInv
  OBVIOUS
<1>1. orRaced \in BOOLEAN /\ orDemoted \in BOOLEAN
  BY Zenon DEF OrganisationsInit
<1>2. OrganisationsTypeOK
  BY <1>1, OrAssumption DEF OrganisationsInit, OrganisationsTypeOK
<1>3. RolesRegistered
  BY DEF OrganisationsInit, RolesRegistered, OrIdle
<1>4. InvitesHeld
  BY DEF OrganisationsInit, InvitesHeld, InviteOneFate, OrNoInvite, OrIdle
<1>5. AdminsKept
  <2>1. Joinable = {}
    BY OrAssumption DEF OrganisationsInit, Joinable, OrMembers, OrNoInvite, OrIdle
  <2>2. \A c \in OrCalls : orCall[c].at # "checked"
    BY DEF OrganisationsInit, OrIdle
  <2> QED BY <2>1, <2>2 DEF AdminsKept
<1> QED BY <1>2, <1>3, <1>4, <1>5 DEF OrgInv

\* Every step keeps the two flags Boolean.
LEMMA FlagsType == OrganisationsTypeOK /\ [OrganisationsNext]_orgVars
                       => orRaced' \in BOOLEAN /\ orDemoted' \in BOOLEAN
<1> SUFFICES ASSUME OrganisationsTypeOK, [OrganisationsNext]_orgVars
             PROVE  orRaced' \in BOOLEAN /\ orDemoted' \in BOOLEAN
  OBVIOUS
<1>1. orRaced \in BOOLEAN /\ orDemoted \in BOOLEAN
  BY DEF OrganisationsTypeOK
<1>2. CASE UNCHANGED <<orRaced, orDemoted>>
  BY <1>1, <1>2
<1>3. ASSUME NEW c \in OrCalls, OrChange(c)
      PROVE  orRaced' \in BOOLEAN /\ orDemoted' \in BOOLEAN
  BY <1>1, <1>3, Zenon DEF OrChange
<1>4. ASSUME NEW c \in OrCalls, OrAcceptCommit(c)
      PROVE  orRaced' \in BOOLEAN /\ orDemoted' \in BOOLEAN
  BY <1>1, <1>4, Zenon DEF OrAcceptCommit
<1>5. ASSUME NEW c \in OrCalls, OrStep(c), ~OrChange(c), ~OrAcceptCommit(c)
      PROVE  UNCHANGED <<orRaced, orDemoted>>
  BY <1>5 DEF OrStep, OrRegister, OrRegisterFails, OrValidate, OrSetActive, OrSetActiveFails,
     OrCheck, OrAcceptFails
<1>6. ASSUME OrganisationsNext, ~ \E c \in OrCalls : OrStep(c)
      PROVE  UNCHANGED <<orRaced, orDemoted>>
  BY <1>6 DEF OrganisationsNext, OrLookUp, OrSwitch, OrAdmit, OrCreateOrganisation,
     OrCreateInvite, OrRevoke, OrAccept, OrExpire
<1>7. UNCHANGED orgVars => UNCHANGED <<orRaced, orDemoted>>
  BY DEF orgVars
<1> QED BY <1>2, <1>3, <1>4, <1>5, <1>6, <1>7

\* The types but those of the flags.
OrRowTypes ==
    /\ orActive \in [OrUsers -> OrOrgs \cup {OrNone}]
    /\ orRole \in [OrOrgs -> [OrUsers -> {OrNone, "member", "admin"}]]
    /\ orNamed \subseteq OrOrgs
    /\ orInvite \in [OrInvites -> OrInviteRows \cup {OrNoInvite}]
    /\ orCall \in [OrCalls -> OrCallRows \cup {OrIdle}]
    /\ orServed \in 0 .. OrMaxCalls

\* Steps of a request that is being served keep the types, and roles to the registered.
LEMMA RequestType ==
    ASSUME OrganisationsTypeOK, RolesRegistered, InvitesHeld, NEW c \in OrCalls, OrStep(c)
    PROVE  OrRowTypes' /\ RolesRegistered'
<1> USE DEF OrganisationsTypeOK, OrRowTypes, RolesRegistered
<1>1. CASE OrRegister(c)
  <2> DEFINE u == orCall[c].by
  <2>1. u \in OrUsers /\ orCall[c].org \in OrOrgs \cup {OrNone} /\ orActive[u] = OrNone
    BY <1>1, CallTypes DEF OrRegister
  <2>2. PICK o \in OrOrgs, role \in {"member", "admin"} :
             /\ orActive' = [orActive EXCEPT ![u] = o] /\ OrSetRole(o, u, role)
             /\ orNamed' \subseteq OrOrgs
    <3>1. \A o \in OrUnborn : o \in OrOrgs
      BY DEF OrUnborn
    <3> QED BY <1>1, <2>1, <3>1 DEF OrRegister
  <2>3. OrEnds(c) /\ UNCHANGED orInvite
    BY <1>1 DEF OrRegister
  <2>4. o # OrNone
    BY OrAssumption
  <2>5. /\ orRole' \in [OrOrgs -> [OrUsers -> {OrNone, "member", "admin"}]]
        /\ \A p \in OrOrgs, v \in OrUsers :
               orRole'[p][v] = IF p = o /\ v = u THEN role ELSE orRole[p][v]
    BY <2>1, <2>2, SetRoleType
  <2>6. /\ orActive' \in [OrUsers -> OrOrgs \cup {OrNone}]
        /\ \A v \in OrUsers : orActive'[v] = IF v = u THEN o ELSE orActive[v]
    BY <2>1, <2>2
  <2>7. RolesRegistered'
    <3>1. \A d \in OrCalls \ {c} : orCall'[d] = orCall[d]
      BY <2>3, EndsType
    <3>2. orCall'[c].at = "idle"
      BY <2>3, EndsType
    <3>3. \A d \in OrCalls : orCall'[d].at = "accepts" => orCall'[d].by = orCall[d].by /\ orCall[d].at = "accepts"
      BY <3>1, <3>2
    <3>4. \A d \in OrCalls : orCall[d].at = "accepts" => orCall[d].by \in OrUsers
      BY CallTypes
    <3> QED BY <2>4, <2>5, <2>6, <3>3, <3>4
  <2> QED BY <2>2, <2>3, <2>5, <2>6, <2>7, EndsType
<1>2. CASE OrRegisterFails(c) \/ OrAcceptFails(c)
  BY <1>2, EndsType DEF OrRegisterFails, OrAcceptFails
<1>g. ASSUME OrEnds(c) \/ \E to \in {"activates", "sets", "checked"} :
                 /\ OrGoes(c, to)
                 /\ \/ orCall[c].at \in {"activates", "sets"} /\ to \in {"activates", "sets"}
                    \/ orCall[c].at \in {"admitted", "checked"} /\ to \in {"admitted", "checked"},
             UNCHANGED <<orActive, orRole, orNamed, orInvite>>
      PROVE  OrRowTypes' /\ RolesRegistered'
  <2>1. /\ orCall' \in [OrCalls -> OrCallRows \cup {OrIdle}] /\ orServed' \in 0 .. OrMaxCalls
        /\ \A d \in OrCalls \ {c} : orCall'[d] = orCall[d]
        /\ orCall'[c].at # "accepts"
    <3>1. CASE OrEnds(c)
      BY <3>1, EndsType
    <3>2. ASSUME NEW to \in {"activates", "sets", "checked"}, OrGoes(c, to),
                 \/ orCall[c].at \in {"activates", "sets"} /\ to \in {"activates", "sets"}
                 \/ orCall[c].at \in {"admitted", "checked"} /\ to \in {"admitted", "checked"}
          PROVE  /\ orCall' \in [OrCalls -> OrCallRows \cup {OrIdle}] /\ orServed' \in 0 .. OrMaxCalls
                 /\ \A d \in OrCalls \ {c} : orCall'[d] = orCall[d]
                 /\ orCall'[c].at # "accepts"
      BY <3>2, GoesType
    <3> QED BY <1>g, <3>1, <3>2
  <2> QED BY <1>g, <2>1
<1>3. CASE OrValidate(c)
  BY <1>3, <1>g DEF OrValidate
<1>4. CASE OrSetActive(c)
  <2>1. orCall[c].by \in OrUsers /\ orCall[c].org \in OrOrgs
    BY <1>4, CallTypes DEF OrSetActive
  <2> QED BY <1>4, <2>1, EndsType, OrAssumption DEF OrSetActive
<1>5. CASE OrSetActiveFails(c)
  BY <1>5, <1>g DEF OrSetActiveFails
<1>6. CASE OrCheck(c)
  BY <1>6, <1>g DEF OrCheck
<1>7. CASE OrChange(c)
  <2>1. /\ orCall[c].org \in OrOrgs /\ orCall[c].target \in OrUsers
        /\ orCall[c].role \in {OrNone, "member", "admin"}
    BY <1>7, CallTypes DEF OrChange
  <2>2. CASE UNCHANGED orRole
    BY <1>7, <2>2, EndsType DEF OrChange
  <2>3. CASE /\ orRole[orCall[c].org][orCall[c].target] # OrNone
             /\ OrSetRole(orCall[c].org, orCall[c].target, orCall[c].role)
    <3>1. OrEnds(c) /\ UNCHANGED <<orActive, orNamed, orInvite>>
      BY <1>7 DEF OrChange
    <3>2. /\ orCall' \in [OrCalls -> OrCallRows \cup {OrIdle}] /\ orServed' \in 0 .. OrMaxCalls
          /\ \A d \in OrCalls : orCall'[d].at = "accepts" => orCall'[d] = orCall[d]
      <4>1. \A d \in OrCalls : d = c \/ orCall'[d] = orCall[d]
        BY <3>1, EndsType
      <4> QED BY <3>1, <4>1, EndsType
    <3>3. /\ orRole' \in [OrOrgs -> [OrUsers -> {OrNone, "member", "admin"}]]
          /\ \A p \in OrOrgs, v \in OrUsers :
                 orRole'[p][v] = orRole[p][v] \/ orRole[p][v] # OrNone
      BY <2>1, <2>3, SetRoleType
    <3>4. RolesRegistered'
      BY <3>1, <3>2, <3>3
    <3> QED BY <3>1, <3>2, <3>3, <3>4
  <2> QED BY <1>7, <2>2, <2>3 DEF OrChange
<1>8. CASE OrAcceptCommit(c)
  <2> DEFINE call == [OrIdle EXCEPT !.at = "activates", !.by = orCall[c].by, !.org = orCall[c].org]
  <2>1. /\ orCall[c].org \in OrOrgs /\ orCall[c].by \in OrUsers /\ orCall[c].target \in OrInvites
        /\ orCall[c].role \in {"member", "admin"}
    BY <1>8, CallTypes DEF OrAcceptCommit
  <2>2. call \in OrCallRows /\ call.at # "accepts"
    BY <2>1 DEF OrIdle, OrCallRows
  <2>3. orCall' = [orCall EXCEPT ![c] = call] /\ UNCHANGED <<orActive, orNamed, orServed>>
    BY <1>8 DEF OrAcceptCommit
  <2>4. orInvite[orCall[c].target] \in OrInviteRows
    BY <1>8, <2>1, OpenRow DEF OrAcceptCommit, InvitesHeld
  <2>5. orInvite' \in [OrInvites -> OrInviteRows \cup {OrNoInvite}]
    <3>1. [orInvite[orCall[c].target] EXCEPT !.accepted = @ + 1] \in OrInviteRows
      BY <2>4 DEF OrInviteRows
    <3>2. orInvite' = [orInvite EXCEPT ![orCall[c].target].accepted = @ + 1]
      BY <1>8 DEF OrAcceptCommit
    <3> QED BY <2>1, <3>1, <3>2
  <2>6. OrSetRole(orCall[c].org, orCall[c].by, orCall[c].role)
    BY <1>8 DEF OrAcceptCommit
  <2>7. orActive[orCall[c].by] # OrNone
    BY <1>8 DEF OrAcceptCommit
  <2>8. /\ orRole' \in [OrOrgs -> [OrUsers -> {OrNone, "member", "admin"}]]
        /\ \A p \in OrOrgs, v \in OrUsers :
               orRole'[p][v] = IF p = orCall[c].org /\ v = orCall[c].by THEN orCall[c].role
                               ELSE orRole[p][v]
    BY <2>1, <2>6, SetRoleType
  <2>9. RolesRegistered'
    BY <2>2, <2>3, <2>7, <2>8
  <2> QED BY <2>2, <2>3, <2>5, <2>8, <2>9
<1> QED BY <1>1, <1>2, <1>3, <1>4, <1>5, <1>6, <1>7, <1>8 DEF OrStep

\* A request that comes in keeps the types, and roles to the registered.
LEMMA ArrivalType ==
    ASSUME OrganisationsTypeOK, RolesRegistered, InvitesHeld, OrganisationsNext,
           ~ \E c \in OrCalls : OrStep(c)
    PROVE  OrRowTypes' /\ RolesRegistered'
<1> USE DEF OrganisationsTypeOK, OrRowTypes, RolesRegistered
<1>1. ASSUME NEW c \in OrCalls, NEW u \in OrUsers, NEW business \in BOOLEAN, OrLookUp(c, u, business)
      PROVE  OrRowTypes' /\ RolesRegistered'
  <2>1. PICK found \in OrOrgs \cup {OrNone} :
             OrBegins(c, [at |-> "registers", by |-> u, org |-> found, target |-> OrNone,
                          role |-> IF business THEN "member" ELSE "admin"])
    BY <1>1 DEF OrLookUp
  <2> DEFINE call == [at |-> "registers", by |-> u, org |-> found, target |-> OrNone,
                      role |-> IF business THEN "member" ELSE "admin"]
  <2>2. call \in OrCallRows /\ call.at # "accepts"
    BY DEF OrCallRows
  <2>3. orCall' = [orCall EXCEPT ![c] = call]
    BY <2>1 DEF OrBegins
  <2> QED BY <1>1, <2>1, <2>2, <2>3, BeginsType DEF OrLookUp
<1>2. ASSUME NEW c \in OrCalls, NEW u \in OrUsers, NEW o \in OrOrgs, OrSwitch(c, u, o)
      PROVE  OrRowTypes' /\ RolesRegistered'
  <2> DEFINE call == [OrIdle EXCEPT !.at = "activates", !.by = u, !.org = o]
  <2>1. call \in OrCallRows /\ call.at # "accepts"
    BY DEF OrIdle, OrCallRows
  <2>2. OrBegins(c, call) /\ orCall' = [orCall EXCEPT ![c] = call]
    BY <1>2 DEF OrSwitch, OrBegins
  <2> QED BY <1>2, <2>1, <2>2, BeginsType DEF OrSwitch
<1>3. ASSUME NEW c \in OrCalls, NEW u \in OrUsers, NEW target \in OrUsers,
             NEW role \in {OrNone, "member", "admin"}, OrAdmit(c, u, target, role)
      PROVE  OrRowTypes' /\ RolesRegistered'
  <2> DEFINE call == [at |-> "admitted", by |-> u, org |-> orActive[u], target |-> target, role |-> role]
  <2>1. call \in OrCallRows /\ call.at # "accepts"
    BY <1>3 DEF OrAdmit, OrCallRows
  <2>2. OrBegins(c, call) /\ orCall' = [orCall EXCEPT ![c] = call]
    BY <1>3 DEF OrAdmit, OrBegins
  <2> QED BY <1>3, <2>1, <2>2, BeginsType DEF OrAdmit
<1>4. ASSUME NEW u \in OrUsers, NEW named \in BOOLEAN, OrCreateOrganisation(u, named)
      PROVE  OrRowTypes' /\ RolesRegistered'
  <2>1. PICK o \in OrUnborn : /\ OrSetRole(o, u, "admin")
                              /\ orActive' = [orActive EXCEPT ![u] = o]
                              /\ orNamed' = IF named THEN orNamed \cup {o} ELSE orNamed
    BY <1>4 DEF OrCreateOrganisation
  <2>2. o \in OrOrgs /\ o # OrNone
    BY OrAssumption DEF OrUnborn
  <2>3. orServed' \in 0 .. OrMaxCalls /\ UNCHANGED <<orInvite, orCall>>
    BY <1>4, OrAssumption DEF OrCreateOrganisation, OrServed
  <2> QED BY <2>1, <2>2, <2>3, SetRoleType
<1>5. ASSUME NEW i \in OrInvites, NEW u \in OrUsers, NEW target \in OrUsers,
             NEW role \in {"member", "admin"}, OrCreateInvite(i, u, target, role)
      PROVE  OrRowTypes' /\ RolesRegistered'
  <2> DEFINE row == [OrNoInvite EXCEPT !.org = orActive[u], !.user = target, !.role = role]
  <2>1. row \in OrInviteRows
    BY <1>5 DEF OrCreateInvite, OrNoInvite, OrInviteRows
  <2>2. orInvite' = [orInvite EXCEPT ![i] = row] /\ orServed' \in 0 .. OrMaxCalls
    BY <1>5, OrAssumption DEF OrCreateInvite, OrServed
  <2> QED BY <1>5, <2>1, <2>2 DEF OrCreateInvite
<1>6. ASSUME NEW i \in OrInvites, OrExpire(i)
      PROVE  OrRowTypes' /\ RolesRegistered'
  <2>1. [orInvite[i] EXCEPT !.expired = TRUE] \in OrInviteRows
    BY <1>6, OpenRow DEF OrExpire, OrInviteRows
  <2> QED BY <1>6, <2>1 DEF OrExpire
<1>7. ASSUME NEW i \in OrInvites, NEW u \in OrUsers, OrRevoke(i, u)
      PROVE  OrRowTypes' /\ RolesRegistered'
  <2>1. [orInvite[i] EXCEPT !.revoked = TRUE] \in OrInviteRows
    BY <1>7, OpenRow DEF OrRevoke, OrInviteRows
  <2> QED BY <1>7, <2>1 DEF OrRevoke
<1>8. ASSUME NEW i \in OrInvites, NEW c \in OrCalls, OrAccept(c, i)
      PROVE  OrRowTypes' /\ RolesRegistered'
  <2> DEFINE call == [at |-> "accepts", by |-> orInvite[i].user, org |-> orInvite[i].org,
                      target |-> i, role |-> orInvite[i].role]
  <2>1. call \in OrCallRows
    BY <1>8, OpenRow DEF OrAccept, OrCallRows, OrInviteRows
  <2>2. OrBegins(c, call) /\ orCall' = [orCall EXCEPT ![c] = call]
    BY <1>8 DEF OrAccept, OrBegins
  <2>3. orActive[call.by] # OrNone
    BY <1>8 DEF OrAccept
  <2> QED BY <1>8, <2>1, <2>2, <2>3, BeginsType DEF OrAccept
<1> QED BY <1>1, <1>2, <1>3, <1>4, <1>5, <1>6, <1>7, <1>8 DEF OrganisationsNext

\* Every step keeps the types, and roles to the registered.
LEMMA OrgTypeStep ==
    ASSUME OrgInv, [OrganisationsNext]_orgVars
    PROVE  OrganisationsTypeOK' /\ RolesRegistered'
<1> USE DEF OrgInv
<1>1. orRaced' \in BOOLEAN /\ orDemoted' \in BOOLEAN
  BY FlagsType
<1>2. OrRowTypes' /\ RolesRegistered'
  <2>1. CASE \E c \in OrCalls : OrStep(c)
    BY <2>1, RequestType
  <2>2. CASE UNCHANGED orgVars
    BY <2>2 DEF orgVars, OrganisationsTypeOK, OrRowTypes, RolesRegistered
  <2> QED BY <2>1, <2>2, ArrivalType
<1> QED BY <1>1, <1>2 DEF OrganisationsTypeOK, OrRowTypes

-----------------------------------------------------------------------------
(* Organisations: what a step does to the requests that are served *)

\* Only the request a step is about changes its place.
LEMMA OthersWait ==
    ASSUME OrganisationsTypeOK, NEW c \in OrCalls, NEW d \in OrCalls, d # c, OrStep(c)
    PROVE  orCall'[d] = orCall[d]
BY DEF OrganisationsTypeOK, OrStep, OrRegister, OrRegisterFails, OrValidate, OrSetActive,
       OrSetActiveFails, OrCheck, OrChange, OrAcceptCommit, OrAcceptFails, OrEnds, OrGoes

\* Where the request of a step goes.
LEMMA OneGoes ==
    ASSUME OrganisationsTypeOK, NEW c \in OrCalls, OrStep(c)
    PROVE  /\ orCall'[c].at \notin {"registers", "accepts"}
           /\ orCall'[c].at = "checked" => OrCheck(c) /\ ~OrLastAdmin(c)
<1>1. CASE OrEnds(c)
  BY <1>1, EndsType
<1>2. CASE OrAcceptCommit(c)
  BY <1>2 DEF OrAcceptCommit, OrIdle, OrganisationsTypeOK
<1>3. CASE OrValidate(c) /\ OrGoes(c, "sets")
  <2>1. orCall[c].at \in {"activates", "sets"}
    BY <1>3 DEF OrValidate
  <2>2. orCall'[c].at = "sets"
    BY <1>3, <2>1, GoesType
  <2> QED BY <2>2
<1>4. CASE OrSetActiveFails(c) /\ OrGoes(c, "activates")
  <2>1. orCall[c].at \in {"activates", "sets"}
    BY <1>4 DEF OrSetActiveFails
  <2>2. orCall'[c].at = "activates"
    BY <1>4, <2>1, GoesType
  <2> QED BY <2>2
<1>5. CASE OrCheck(c) /\ OrGoes(c, "checked") /\ ~OrLastAdmin(c)
  <2>1. orCall[c].at \in {"admitted", "checked"}
    BY <1>5 DEF OrCheck
  <2>2. orCall'[c].at = "checked"
    BY <1>5, <2>1, GoesType
  <2> QED BY <1>5, <2>2
<1>6. OrCheck(c) => OrEnds(c) \/ (OrGoes(c, "checked") /\ ~OrLastAdmin(c))
  <2> SUFFICES ASSUME OrCheck(c) PROVE OrEnds(c) \/ (OrGoes(c, "checked") /\ ~OrLastAdmin(c))
    OBVIOUS
  <2>1. CASE OrLastAdmin(c)
    BY <2>1 DEF OrCheck
  <2>2. CASE ~OrLastAdmin(c)
    BY <2>2 DEF OrCheck
  <2> QED BY <2>1, <2>2
<1> QED BY <1>1, <1>2, <1>3, <1>4, <1>5, <1>6
        DEF OrStep, OrRegister, OrRegisterFails, OrValidate, OrSetActive, OrSetActiveFails, OrChange,
            OrAcceptFails

\* A request that comes in takes a place that was idle.
LEMMA OneBegins ==
    ASSUME OrganisationsTypeOK, NEW c \in OrCalls, NEW call, OrBegins(c, call)
    PROVE  \A d \in OrCalls : orCall'[d] = IF d = c THEN call ELSE orCall[d]
BY DEF OrganisationsTypeOK, OrBegins

-----------------------------------------------------------------------------
(* Organisations: invites *)

\* Invites that stay as they are and requests that end or move on keep InvitesHeld.
LEMMA HeldKept ==
    ASSUME InvitesHeld, UNCHANGED orInvite,
           \A d \in OrCalls : orCall'[d].at = "accepts" => orCall'[d] = orCall[d]
    PROVE  InvitesHeld'
BY DEF InvitesHeld, InviteOneFate, OrOpen

\* Every step keeps what invites and calls hold: an invite has one fate, and a call
\* that accepts one holds it alone and open.
LEMMA HeldStep ==
    ASSUME OrgInv, [OrganisationsNext]_orgVars
    PROVE  InvitesHeld'
<1> USE DEF OrgInv
<1>1. ASSUME NEW c \in OrCalls, OrStep(c), ~OrAcceptCommit(c) PROVE InvitesHeld'
  <2>1. UNCHANGED orInvite
    BY <1>1 DEF OrStep, OrRegister, OrRegisterFails, OrValidate, OrSetActive, OrSetActiveFails,
                OrCheck, OrChange, OrAcceptFails
  <2> QED BY <1>1, <2>1, HeldKept, OthersWait, OneGoes
<1>2. ASSUME NEW c \in OrCalls, OrAcceptCommit(c) PROVE InvitesHeld'
  <2> DEFINE i == orCall[c].target
  <2>1. i \in OrInvites /\ OrOpen(i) /\ orInvite[i] \in OrInviteRows
    BY <1>2, CallTypes, OpenRow DEF OrAcceptCommit, InvitesHeld
  <2>2. orInvite' = [orInvite EXCEPT ![i].accepted = @ + 1]
    BY <1>2 DEF OrAcceptCommit
  <2>3. \A j \in OrInvites \ {i} : orInvite'[j] = orInvite[j]
    BY <2>2 DEF OrganisationsTypeOK
  <2>4. orInvite'[i].accepted = 1 /\ orInvite'[i].revoked = FALSE
    BY <2>1, <2>2 DEF OrOpen, OrInviteRows, OrganisationsTypeOK
  <2>5. OrStep(c)
    BY <1>2 DEF OrStep
  <2>6. orCall'[c].at # "accepts" /\ \A d \in OrCalls \ {c} : orCall'[d] = orCall[d]
    BY <2>5, OthersWait, OneGoes
  <2>7. InviteOneFate'
    BY <2>3, <2>4 DEF InvitesHeld, InviteOneFate
  <2>8. ASSUME NEW d \in OrCalls, orCall'[d].at = "accepts"
        PROVE  orCall'[d] = orCall[d] /\ orCall[d].target \in OrInvites \ {i}
    BY <1>2, <2>6, <2>8, CallTypes DEF InvitesHeld, OrAcceptCommit
  <2> QED BY <2>3, <2>7, <2>8 DEF InvitesHeld, OrOpen
<1>3. ASSUME NEW c \in OrCalls, NEW call, call.at # "accepts", OrBegins(c, call), UNCHANGED orInvite
      PROVE  InvitesHeld'
  BY <1>3, OneBegins, HeldKept
<1>4. ASSUME NEW c \in OrCalls, NEW u \in OrUsers, NEW business \in BOOLEAN, OrLookUp(c, u, business)
      PROVE  InvitesHeld'
  <2>1. PICK found : OrBegins(c, [at |-> "registers", by |-> u, org |-> found, target |-> OrNone,
                                  role |-> IF business THEN "member" ELSE "admin"])
    BY <1>4 DEF OrLookUp
  <2>2. UNCHANGED orInvite
    BY <1>4 DEF OrLookUp
  <2> QED BY <1>3, <2>1, <2>2
<1>5. ASSUME NEW c \in OrCalls, NEW u \in OrUsers, NEW o \in OrOrgs, OrSwitch(c, u, o)
      PROVE  InvitesHeld'
  BY <1>3, <1>5 DEF OrSwitch, OrIdle
<1>6. ASSUME NEW c \in OrCalls, NEW u \in OrUsers, NEW target \in OrUsers,
             NEW role \in {OrNone, "member", "admin"}, OrAdmit(c, u, target, role)
      PROVE  InvitesHeld'
  BY <1>3, <1>6 DEF OrAdmit
<1>7. CASE UNCHANGED <<orInvite, orCall>>
  BY <1>7, HeldKept
<1>8. ASSUME NEW i \in OrInvites, NEW u \in OrUsers, NEW target \in OrUsers,
             NEW role \in {"member", "admin"}, OrCreateInvite(i, u, target, role)
      PROVE  InvitesHeld'
  <2>1. /\ orInvite[i] = OrNoInvite /\ UNCHANGED orCall
        /\ orInvite' = [orInvite EXCEPT ![i] = [OrNoInvite EXCEPT !.org = orActive[u],
                                                !.user = target, !.role = role]]
    BY <1>8 DEF OrCreateInvite
  <2>2. ~OrOpen(i)
    BY <2>1 DEF OrOpen, OrNoInvite
  <2>3. \A j \in OrInvites \ {i} : orInvite'[j] = orInvite[j]
    BY <2>1 DEF OrganisationsTypeOK
  <2>4. orInvite'[i].accepted = 0 /\ orInvite'[i].revoked = FALSE
    BY <2>1 DEF OrNoInvite, OrganisationsTypeOK
  <2>5. InviteOneFate'
    BY <2>3, <2>4 DEF InvitesHeld, InviteOneFate
  <2>6. \A d \in OrCalls : orCall[d].at = "accepts" => orCall[d].target \in OrInvites \ {i}
    BY <2>2, CallTypes DEF InvitesHeld
  <2> QED BY <2>1, <2>3, <2>5, <2>6 DEF InvitesHeld, OrOpen
<1>9. ASSUME NEW i \in OrInvites, OrExpire(i) PROVE InvitesHeld'
  <2>1. orInvite' = [orInvite EXCEPT ![i].expired = TRUE] /\ UNCHANGED orCall
    BY <1>9 DEF OrExpire
  <2>2. \A j \in OrInvites : /\ orInvite'[j].accepted = orInvite[j].accepted
                             /\ orInvite'[j].revoked = orInvite[j].revoked
                             /\ orInvite'[j].org = orInvite[j].org
    <3>1. orInvite[i] \in OrInviteRows
      BY <1>9, OpenRow DEF OrExpire
    <3>2. \A j \in OrInvites \ {i} : orInvite'[j] = orInvite[j]
      BY <2>1 DEF OrganisationsTypeOK
    <3>3. orInvite'[i] = [orInvite[i] EXCEPT !.expired = TRUE]
      BY <2>1 DEF OrganisationsTypeOK
    <3> QED BY <3>1, <3>2, <3>3 DEF OrInviteRows
  <2>3. \A d \in OrCalls : orCall[d].at = "accepts" => orCall[d].target \in OrInvites
    BY CallTypes
  <2> QED BY <2>1, <2>2, <2>3 DEF InvitesHeld, InviteOneFate, OrOpen
<1>10. ASSUME NEW i \in OrInvites, NEW u \in OrUsers, OrRevoke(i, u) PROVE InvitesHeld'
  <2>1. orInvite' = [orInvite EXCEPT ![i].revoked = TRUE] /\ UNCHANGED orCall
    BY <1>10 DEF OrRevoke
  <2>2. \A j \in OrInvites \ {i} : orInvite'[j] = orInvite[j]
    BY <2>1 DEF OrganisationsTypeOK
  <2>3. orInvite'[i].accepted = 0
    <3>1. orInvite[i].accepted = 0 /\ orInvite[i] \in OrInviteRows
      BY <1>10, OpenRow DEF OrRevoke, OrOpen
    <3> QED BY <2>1, <3>1 DEF OrganisationsTypeOK, OrInviteRows
  <2>4. InviteOneFate'
    <3>1. \A j \in OrInvites \ {i} : (orInvite[j].accepted + (IF orInvite[j].revoked THEN 1 ELSE 0) =< 1)'
      BY <2>2 DEF InvitesHeld, InviteOneFate
    <3>2. (orInvite[i].accepted + (IF orInvite[i].revoked THEN 1 ELSE 0) =< 1)'
      BY <2>3
    <3> QED BY <3>1, <3>2 DEF InviteOneFate
  <2>5. \A d \in OrCalls : orCall[d].at = "accepts" => orCall[d].target \in OrInvites \ {i}
    BY <1>10, CallTypes DEF OrRevoke, OrLocked
  <2> QED BY <2>1, <2>2, <2>4, <2>5 DEF InvitesHeld, OrOpen
<1>11. ASSUME NEW i \in OrInvites, NEW c \in OrCalls, OrAccept(c, i) PROVE InvitesHeld'
  <2>1. PICK call : OrBegins(c, call) /\ call.target = i
    BY <1>11 DEF OrAccept
  <2>2. \A d \in OrCalls : orCall'[d] = IF d = c THEN call ELSE orCall[d]
    BY <2>1, OneBegins
  <2>3. OrOpen(i) /\ UNCHANGED orInvite /\ \A d \in OrCalls : ~(orCall[d].at = "accepts" /\ orCall[d].target = i)
    BY <1>11 DEF OrAccept, OrLocked
  <2> QED BY <2>1, <2>2, <2>3 DEF InvitesHeld, InviteOneFate, OrOpen
<1>12. CASE UNCHANGED orgVars
  BY <1>7, <1>12 DEF orgVars
<1>13. ASSUME NEW u \in OrUsers, NEW named \in BOOLEAN, OrCreateOrganisation(u, named)
       PROVE  InvitesHeld'
  BY <1>7, <1>13 DEF OrCreateOrganisation
<1> QED BY <1>1, <1>2, <1>4, <1>5, <1>6, <1>8, <1>9, <1>10, <1>11, <1>12, <1>13
        DEF OrganisationsNext

-----------------------------------------------------------------------------
(* Organisations: admins *)

\* A step that changes no role, and makes no more organisations joinable nor lets a
\* request write, keeps the admins.
LEMMA AdminsQuiet ==
    ASSUME AdminsKept, UNCHANGED <<orRole, orRaced, orDemoted>>, Joinable' \subseteq Joinable,
           \A d \in OrCalls : orCall'[d].at = "checked" => orCall'[d] = orCall[d]
    PROVE  AdminsKept'
BY DEF AdminsKept, LeavesAdmin, OrAdmins

\* What is joinable after a step that changes no role, no name and no invite's
\* organisation.
LEMMA JoinableQuiet ==
    ASSUME UNCHANGED <<orRole, orNamed>>,
           \A i \in OrInvites : orInvite'[i].org \in OrOrgs => orInvite'[i].org \in Joinable,
           \A d \in OrCalls : orCall'[d].at \in {"registers", "accepts"} /\ orCall'[d].org \in OrOrgs
                                  => orCall'[d].org \in Joinable
    PROVE  Joinable' \subseteq Joinable
<1> SUFFICES ASSUME NEW o \in OrOrgs, o \in Joinable' PROVE o \in Joinable
  BY DEF Joinable
<1>1. CASE (OrMembers(o) # {} \/ o \in orNamed)'
  BY <1>1 DEF Joinable, OrMembers
<1>2. CASE \E i \in OrInvites : orInvite'[i].org = o
  BY <1>2
<1>3. CASE \E d \in OrCalls : orCall'[d].at \in {"registers", "accepts"} /\ orCall'[d].org = o
  BY <1>3
<1> QED BY <1>1, <1>2, <1>3 DEF Joinable

\* Organisations of invites and of requests to join are joinable.
LEMMA AreJoinable ==
    /\ \A i \in OrInvites : orInvite[i].org \in OrOrgs => orInvite[i].org \in Joinable
    /\ \A d \in OrCalls : orCall[d].at \in {"registers", "accepts"} /\ orCall[d].org \in OrOrgs
                              => orCall[d].org \in Joinable
    /\ \A o \in OrOrgs : OrMembers(o) # {} \/ o \in orNamed => o \in Joinable
BY DEF Joinable

\* A role of u in o is written: an admin is left in o, nobody else is about to
\* write in o, unless u had no role, and only o becomes joinable.
LEMMA AdminsWritten ==
    ASSUME OrganisationsTypeOK, AdminsKept,
           NEW o \in OrOrgs, NEW u \in OrUsers, NEW role \in {OrNone, "member", "admin"},
           OrSetRole(o, u, role),
           ~orRaced, ~orDemoted,
           role = "admin" \/ \E a \in OrAdmins(o) : a # u,
           orNamed' \subseteq orNamed \cup {o},
           \A i \in OrInvites : orInvite'[i].org = orInvite[i].org,
           \A d \in OrCalls : orCall'[d].at \in {"registers", "accepts", "checked"}
                                  => orCall'[d] = orCall[d],
           \A d \in OrCalls : orCall'[d].at = "checked" => orCall[d].org # o \/ orRole[o][u] = OrNone
    PROVE  /\ \A p \in Joinable' : (OrAdmins(p) # {})'
           /\ \A d \in OrCalls : orCall'[d].at = "checked" => LeavesAdmin(d)'
<1>1. \A p \in OrOrgs, v \in OrUsers : orRole'[p][v] = IF p = o /\ v = u THEN role ELSE orRole[p][v]
  BY SetRoleType
<1>2. (OrAdmins(o) # {})'
  BY <1>1 DEF OrAdmins
<1>3. Joinable' \subseteq Joinable \cup {o}
  <2> SUFFICES ASSUME NEW p \in OrOrgs, p \in Joinable', p # o PROVE p \in Joinable
    BY DEF Joinable
  <2>1. OrMembers(p)' = OrMembers(p)
    BY <1>1 DEF OrMembers
  <2>2. CASE (OrMembers(p) # {} \/ p \in orNamed)'
    BY <2>1, <2>2 DEF Joinable
  <2>3. CASE \E i \in OrInvites : orInvite'[i].org = p
    BY <2>3 DEF Joinable
  <2>4. CASE \E d \in OrCalls : orCall'[d].at \in {"registers", "accepts"} /\ orCall'[d].org = p
    BY <2>4 DEF Joinable
  <2> QED BY <2>2, <2>3, <2>4 DEF Joinable
<1>4. \A p \in OrOrgs \ {o} : OrAdmins(p)' = OrAdmins(p)
  BY <1>1 DEF OrAdmins
<1>5. \A p \in Joinable' : (OrAdmins(p) # {})'
  <2> SUFFICES ASSUME NEW p \in Joinable' PROVE (OrAdmins(p) # {})'
    OBVIOUS
  <2>1. p \in OrOrgs /\ (p # o => p \in Joinable)
    BY <1>3 DEF Joinable
  <2> QED BY <1>2, <1>4, <2>1 DEF AdminsKept
<1>6. ASSUME NEW d \in OrCalls, orCall'[d].at = "checked" PROVE LeavesAdmin(d)'
  <2>1. orCall'[d] = orCall[d] /\ LeavesAdmin(d)
    BY <1>6 DEF AdminsKept
  <2>2. orCall[d].org \in OrOrgs /\ orCall[d].target \in OrUsers
    BY <1>6, <2>1, CallTypes
  <2>3. CASE orCall[d].org # o
    BY <1>1, <1>4, <2>1, <2>2, <2>3 DEF LeavesAdmin
  <2>4. CASE orCall[d].org = o /\ orRole[o][u] = OrNone
    <3>1. orCall[d].target # u
      BY <2>1, <2>4 DEF LeavesAdmin
    <3>2. orRole'[o][orCall[d].target] = orRole[o][orCall[d].target]
      BY <1>1, <2>2, <3>1
    <3>3. \A a \in OrAdmins(o) : a \in OrAdmins(o)'
      BY <1>1, <2>4 DEF OrAdmins, OrNone
    <3> QED BY <2>1, <2>4, <3>2, <3>3 DEF LeavesAdmin
  <2> QED BY <1>6, <2>3, <2>4
<1> QED BY <1>5, <1>6

\* Who counts more than one admin before taking one away leaves another.
LEMMA AnotherAdmin ==
    ASSUME OrganisationsTypeOK, NEW c \in OrCalls, orCall[c].at = "admitted", ~OrLastAdmin(c),
           orRole[orCall[c].org][orCall[c].target] # OrNone
    PROVE  LeavesAdmin(c)
<1> DEFINE o == orCall[c].org
           t == orCall[c].target
<1> SUFFICES ASSUME orRole[o][t] = "admin", orCall[c].role # "admin"
             PROVE  \E a \in OrAdmins(o) : a # t
  BY DEF LeavesAdmin
<1>1. t \in OrAdmins(o)
  BY CallTypes DEF OrAdmins
<1>2. ~(Cardinality(OrAdmins(o)) =< 1)
  BY DEF OrLastAdmin
<1>3. OrAdmins(o) # {t}
  <2>1. Cardinality({t}) = 1
    BY FS_Singleton
  <2> QED BY <1>2, <2>1
<1> QED BY <1>1, <1>3

\* A new member of o, unregistered until now or its creator, takes no admin away.
LEMMA OthersUntouched ==
    ASSUME OrganisationsTypeOK, NEW o \in OrOrgs, NEW u \in OrUsers, orRole[o][u] # "admin",
           OrAdmins(o) # {}
    PROVE  \E a \in OrAdmins(o) : a # u
BY DEF OrAdmins

\* An organisation nobody is in has no role to be written.
LEMMA UnbornEmpty ==
    ASSUME NEW o \in OrUnborn
    PROVE  o \in OrOrgs /\ \A u \in OrUsers : orRole[o][u] = OrNone
BY DEF OrUnborn, OrMembers

\* Steps of a request that is being served keep the admins.
LEMMA AdminsRequest ==
    ASSUME OrgInv, NEW c \in OrCalls, OrStep(c)
    PROVE  AdminsKept'
<1> USE DEF OrgInv
<1>a. /\ orCall'[c].at \notin {"registers", "accepts"}
      /\ \A d \in OrCalls \ {c} : orCall'[d] = orCall[d]
  BY OthersWait, OneGoes
<1>b. ASSUME ~OrCheck(c) PROVE orCall'[c].at # "checked"
  BY <1>b, OneGoes
<1>1. CASE OrRegister(c)
  <2> SUFFICES ASSUME ~orRaced', ~orDemoted'
               PROVE  /\ \A p \in Joinable' : (OrAdmins(p) # {})'
                      /\ \A d \in OrCalls : orCall'[d].at = "checked" => LeavesAdmin(d)'
    BY DEF AdminsKept
  <2> DEFINE u == orCall[c].by
  <2>1. u \in OrUsers /\ \A p \in OrOrgs : orRole[p][u] = OrNone
    BY <1>1, CallTypes DEF OrRegister, RolesRegistered
  <2>2. orCall'[c].at # "checked" /\ ~orRaced /\ ~orDemoted /\ UNCHANGED orInvite
    BY <1>1, EndsType DEF OrRegister
  <2>3. CASE /\ orCall[c].org # OrNone /\ OrSetRole(orCall[c].org, u, "member")
             /\ UNCHANGED orNamed
    <3>1. orCall[c].org \in OrOrgs /\ orCall[c].org \in Joinable
      BY <1>1, <2>3, CallTypes, AreJoinable DEF OrRegister
    <3>2. \E a \in OrAdmins(orCall[c].org) : a # u
      BY <2>1, <2>2, <3>1, OthersUntouched DEF AdminsKept, OrNone
    <3> QED BY <1>a, <2>1, <2>2, <2>3, <3>1, <3>2, AdminsWritten
  <2>4. ASSUME NEW o \in OrUnborn, OrSetRole(o, u, "admin"), orNamed' \subseteq orNamed \cup {o}
        PROVE  /\ \A p \in Joinable' : (OrAdmins(p) # {})'
               /\ \A d \in OrCalls : orCall'[d].at = "checked" => LeavesAdmin(d)'
    <3>1. o \in OrOrgs
      BY UnbornEmpty
    <3> QED BY <1>a, <2>1, <2>2, <2>4, <3>1, AdminsWritten
  <2> QED BY <1>1, <2>3, <2>4 DEF OrRegister
<1>2. CASE OrRegisterFails(c) \/ OrValidate(c) \/ OrSetActive(c) \/ OrSetActiveFails(c) \/ OrAcceptFails(c)
  <2>1. UNCHANGED <<orRole, orNamed, orInvite, orRaced, orDemoted>>
    BY <1>2 DEF OrRegisterFails, OrValidate, OrSetActive, OrSetActiveFails, OrAcceptFails
  <2>2. orCall'[c].at # "checked"
    BY <1>2, <1>b DEF OrCheck, OrRegisterFails, OrValidate, OrSetActive, OrSetActiveFails, OrAcceptFails
  <2>3. Joinable' \subseteq Joinable
    BY <1>a, <2>1, AreJoinable, JoinableQuiet
  <2> QED BY <1>a, <2>1, <2>2, <2>3, AdminsQuiet
<1>3. CASE OrCheck(c)
  <2>1. UNCHANGED <<orRole, orNamed, orInvite, orRaced, orDemoted>> /\ orCall[c].at = "admitted"
    BY <1>3 DEF OrCheck
  <2>2. Joinable' \subseteq Joinable
    BY <1>a, <2>1, AreJoinable, JoinableQuiet
  <2>3. \A p \in Joinable' : ~orRaced /\ ~orDemoted => (OrAdmins(p) # {})'
    BY <2>1, <2>2 DEF AdminsKept, OrAdmins
  <2>4. ASSUME orCall'[c].at = "checked" PROVE LeavesAdmin(c)'
    <3>1. ~OrLastAdmin(c)
      BY <2>4, OneGoes
    <3>2. OrGoes(c, "checked") /\ orRole[orCall[c].org][orCall[c].target] # OrNone
      <4>1. CASE OrEnds(c)
        BY <2>4, <4>1, EndsType
      <4> QED BY <1>3, <3>1, <4>1 DEF OrCheck
    <3>3. LeavesAdmin(c)
      BY <2>1, <3>1, <3>2, AnotherAdmin
    <3>4. orCall'[c] = [orCall[c] EXCEPT !.at = "checked"]
      BY <2>1, <3>2, GoesType
    <3>5. orCall'[c].org = orCall[c].org /\ orCall'[c].target = orCall[c].target
          /\ orCall'[c].role = orCall[c].role
      BY <2>1, <3>4, CallTypes
    <3> QED BY <2>1, <3>3, <3>5 DEF LeavesAdmin, OrAdmins
  <2>5. ASSUME NEW d \in OrCalls \ {c}, orCall'[d].at = "checked", ~orRaced, ~orDemoted
        PROVE  LeavesAdmin(d)'
    BY <1>a, <2>1, <2>5 DEF AdminsKept, LeavesAdmin, OrAdmins
  <2> QED BY <2>1, <2>3, <2>4, <2>5 DEF AdminsKept
<1>4. CASE OrChange(c)
  <2> SUFFICES ASSUME ~orRaced', ~orDemoted'
               PROVE  /\ \A p \in Joinable' : (OrAdmins(p) # {})'
                      /\ \A d \in OrCalls : orCall'[d].at = "checked" => LeavesAdmin(d)'
    BY DEF AdminsKept
  <2> DEFINE o == orCall[c].org
             t == orCall[c].target
  <2>1. o \in OrOrgs /\ t \in OrUsers /\ orCall[c].role \in {OrNone, "member", "admin"}
    BY <1>4, CallTypes DEF OrChange
  <2>2. orCall'[c].at = "idle" /\ UNCHANGED <<orNamed, orInvite>>
    BY <1>4, EndsType DEF OrChange
  <2>3. /\ ~orRaced /\ ~orDemoted
        /\ \A d \in OrCalls \ {c} : ~(orCall[d].at = "checked" /\ orCall[d].org = o)
    BY <1>4 DEF OrChange
  <2>4. LeavesAdmin(c)
    BY <1>4, <2>3 DEF OrChange, AdminsKept
  <2>5. OrSetRole(o, t, orCall[c].role) /\ o \in Joinable /\ OrAdmins(o) # {}
    <3>1. orRole[o][t] # OrNone
      BY <2>4 DEF LeavesAdmin
    <3>2. o \in Joinable
      BY <2>1, <3>1 DEF Joinable, OrMembers
    <3> QED BY <1>4, <2>3, <3>1, <3>2 DEF OrChange, AdminsKept
  <2>6. orCall[c].role = "admin" \/ \E a \in OrAdmins(o) : a # t
    BY <2>1, <2>4, <2>5, OthersUntouched DEF LeavesAdmin
  <2> QED BY <1>a, <2>1, <2>2, <2>3, <2>5, <2>6, AdminsWritten
<1>5. CASE OrAcceptCommit(c)
  <2> SUFFICES ASSUME ~orRaced', ~orDemoted'
               PROVE  /\ \A p \in Joinable' : (OrAdmins(p) # {})'
                      /\ \A d \in OrCalls : orCall'[d].at = "checked" => LeavesAdmin(d)'
    BY DEF AdminsKept
  <2> DEFINE o == orCall[c].org
             u == orCall[c].by
             i == orCall[c].target
  <2>1. o \in OrOrgs /\ u \in OrUsers /\ i \in OrInvites /\ orCall[c].role \in {"member", "admin"}
    BY <1>5, CallTypes DEF OrAcceptCommit
  <2>2. /\ ~orRaced /\ ~orDemoted
        /\ \A d \in OrCalls : ~(orCall[d].at = "checked" /\ orCall[d].org = o)
        /\ ~(orRole[o][u] = "admin" /\ orCall[c].role = "member")
    BY <1>5 DEF OrAcceptCommit
  <2>3. UNCHANGED orNamed /\ OrSetRole(o, u, orCall[c].role)
    BY <1>5 DEF OrAcceptCommit
  <2>4. orCall'[c].at # "checked"
    BY <1>5, <1>b DEF OrCheck, OrAcceptCommit
  <2>5. \A j \in OrInvites : orInvite'[j].org = orInvite[j].org
    <3>1. orInvite' = [orInvite EXCEPT ![i] = [orInvite[i] EXCEPT !.accepted = @ + 1]]
      BY <1>5 DEF OrAcceptCommit
    <3>2. [orInvite[i] EXCEPT !.accepted = @ + 1].org = orInvite[i].org
      <4>1. orInvite[i] \in OrInviteRows
        BY <1>5, <2>1, OpenRow DEF OrAcceptCommit, InvitesHeld
      <4> QED BY <4>1 DEF OrInviteRows
    <3> QED BY <3>1, <3>2 DEF OrganisationsTypeOK
  <2>6. OrAdmins(o) # {}
    <3>1. o \in Joinable
      BY <1>5, <2>1, AreJoinable DEF OrAcceptCommit
    <3> QED BY <2>2, <3>1 DEF AdminsKept
  <2>7. orCall[c].role = "admin" \/ \E a \in OrAdmins(o) : a # u
    BY <2>1, <2>2, <2>6, OthersUntouched
  <2>8. \A d \in OrCalls : orCall'[d].at \in {"registers", "accepts", "checked"}
                               => orCall'[d] = orCall[d]
    BY <1>a, <2>4
  <2>9. \A d \in OrCalls : orCall'[d].at = "checked" => orCall[d].org # o \/ orRole[o][u] = OrNone
    BY <2>2, <2>8
  <2> QED BY <2>1, <2>2, <2>3, <2>5, <2>7, <2>8, <2>9, AdminsWritten
<1> QED BY <1>1, <1>2, <1>3, <1>4, <1>5 DEF OrStep

\* Steps that begin, or are, a request keep the admins.
LEMMA AdminsArrival ==
    ASSUME OrgInv, OrganisationsNext, ~ \E c \in OrCalls : OrStep(c)
    PROVE  AdminsKept'
<1> USE DEF OrgInv
<1>1. ASSUME NEW c \in OrCalls, NEW call, OrBegins(c, call), call.at # "checked",
             call.at \in {"registers", "accepts"} /\ call.org \in OrOrgs => call.org \in Joinable,
             UNCHANGED <<orRole, orNamed, orInvite, orRaced, orDemoted>>
      PROVE  AdminsKept'
  <2>1. \A d \in OrCalls : orCall'[d] = IF d = c THEN call ELSE orCall[d]
    BY <1>1, OneBegins
  <2>2. Joinable' \subseteq Joinable
    BY <1>1, <2>1, AreJoinable, JoinableQuiet
  <2> QED BY <1>1, <2>1, <2>2, AdminsQuiet
<1>2. ASSUME NEW c \in OrCalls, NEW u \in OrUsers, NEW business \in BOOLEAN, OrLookUp(c, u, business)
      PROVE  AdminsKept'
  <2>1. PICK found \in IF business /\ orNamed # {} THEN orNamed ELSE {OrNone} :
             OrBegins(c, [at |-> "registers", by |-> u, org |-> found, target |-> OrNone,
                          role |-> IF business THEN "member" ELSE "admin"])
    BY <1>2 DEF OrLookUp
  <2>2. found \in OrOrgs => found \in Joinable
    BY OrAssumption, AreJoinable DEF OrganisationsTypeOK
  <2>3. UNCHANGED <<orRole, orNamed, orInvite, orRaced, orDemoted>>
    BY <1>2 DEF OrLookUp
  <2> QED BY <1>1, <2>1, <2>2, <2>3
<1>3. ASSUME NEW c \in OrCalls, NEW u \in OrUsers, NEW o \in OrOrgs, OrSwitch(c, u, o)
      PROVE  AdminsKept'
  BY <1>1, <1>3 DEF OrSwitch, OrIdle
<1>4. ASSUME NEW c \in OrCalls, NEW u \in OrUsers, NEW target \in OrUsers,
             NEW role \in {OrNone, "member", "admin"}, OrAdmit(c, u, target, role)
      PROVE  AdminsKept'
  BY <1>1, <1>4 DEF OrAdmit
<1>5. ASSUME NEW i \in OrInvites, NEW c \in OrCalls, OrAccept(c, i) PROVE AdminsKept'
  <2> DEFINE call == [at |-> "accepts", by |-> orInvite[i].user, org |-> orInvite[i].org,
                      target |-> i, role |-> orInvite[i].role]
  <2>1. OrBegins(c, call) /\ UNCHANGED <<orRole, orNamed, orInvite, orRaced, orDemoted>>
    BY <1>5 DEF OrAccept
  <2>2. call.org \in OrOrgs => call.org \in Joinable
    BY AreJoinable
  <2> QED BY <1>1, <2>1, <2>2
<1>6. ASSUME NEW u \in OrUsers, NEW named \in BOOLEAN, OrCreateOrganisation(u, named)
      PROVE  AdminsKept'
  <2>1. PICK o \in OrUnborn : /\ OrSetRole(o, u, "admin")
                              /\ orNamed' = IF named THEN orNamed \cup {o} ELSE orNamed
    BY <1>6 DEF OrCreateOrganisation
  <2>2. UNCHANGED <<orInvite, orCall, orRaced, orDemoted>>
    BY <1>6 DEF OrCreateOrganisation
  <2>3. o \in OrOrgs /\ orRole[o][u] = OrNone /\ orNamed' \subseteq orNamed \cup {o}
    BY <2>1, UnbornEmpty
  <2>4. ASSUME ~orRaced, ~orDemoted
        PROVE  /\ \A p \in Joinable' : (OrAdmins(p) # {})'
               /\ \A d \in OrCalls : orCall'[d].at = "checked" => LeavesAdmin(d)'
    BY <2>1, <2>2, <2>3, <2>4, AdminsWritten
  <2> QED BY <2>2, <2>4 DEF AdminsKept
<1>7. ASSUME UNCHANGED <<orRole, orNamed, orCall, orRaced, orDemoted>>,
             \A i \in OrInvites : orInvite'[i].org \in OrOrgs => orInvite'[i].org \in Joinable
      PROVE  AdminsKept'
  <2>1. Joinable' \subseteq Joinable
    BY <1>7, AreJoinable, JoinableQuiet
  <2> QED BY <1>7, <2>1, AdminsQuiet
<1>8. ASSUME NEW i \in OrInvites, NEW u \in OrUsers, NEW target \in OrUsers,
             NEW role \in {"member", "admin"}, OrCreateInvite(i, u, target, role)
      PROVE  AdminsKept'
  <2>1. /\ orInvite' = [orInvite EXCEPT ![i] = [OrNoInvite EXCEPT !.org = orActive[u],
                                                !.user = target, !.role = role]]
        /\ orRole[orActive[u]][u] = "admin" /\ orActive[u] # OrNone
        /\ UNCHANGED <<orRole, orNamed, orCall, orRaced, orDemoted>>
    BY <1>8 DEF OrCreateInvite
  <2>2. orActive[u] \in OrOrgs
    BY <2>1 DEF OrganisationsTypeOK
  <2>3. orActive[u] \in Joinable
    BY <2>1, <2>2 DEF Joinable, OrMembers, OrNone
  <2>4. orInvite'[i].org = orActive[u]
    BY <2>1 DEF OrganisationsTypeOK, OrNoInvite
  <2>5. \A j \in OrInvites \ {i} : orInvite'[j] = orInvite[j]
    BY <2>1 DEF OrganisationsTypeOK
  <2> QED BY <1>7, <2>1, <2>3, <2>4, <2>5, AreJoinable
<1>9. ASSUME NEW i \in OrInvites, OrExpire(i) \/ \E u \in OrUsers : OrRevoke(i, u)
      PROVE  AdminsKept'
  <2>1. orInvite[i] \in OrInviteRows
    BY <1>9, OpenRow DEF OrExpire, OrRevoke
  <2>2. /\ \A j \in OrInvites \ {i} : orInvite'[j] = orInvite[j]
        /\ \/ orInvite'[i] = [orInvite[i] EXCEPT !.expired = TRUE]
           \/ orInvite'[i] = [orInvite[i] EXCEPT !.revoked = TRUE]
    BY <1>9 DEF OrExpire, OrRevoke, OrganisationsTypeOK
  <2>3. orInvite'[i].org = orInvite[i].org
    BY <2>1, <2>2 DEF OrInviteRows
  <2>4. UNCHANGED <<orRole, orNamed, orCall, orRaced, orDemoted>>
    BY <1>9 DEF OrExpire, OrRevoke
  <2> QED BY <1>7, <2>2, <2>3, <2>4, AreJoinable
<1> QED BY <1>2, <1>3, <1>4, <1>5, <1>6, <1>8, <1>9 DEF OrganisationsNext

-----------------------------------------------------------------------------
(* Organisations: theorems *)

\* Every step keeps the invariant.
LEMMA OrgStep == OrgInv /\ [OrganisationsNext]_orgVars => OrgInv'
<1> SUFFICES ASSUME OrgInv, [OrganisationsNext]_orgVars PROVE OrgInv'
  OBVIOUS
<1>1. AdminsKept'
  <2>1. CASE \E c \in OrCalls : OrStep(c)
    BY <2>1, AdminsRequest
  <2>2. CASE UNCHANGED orgVars
    <3>1. Joinable' = Joinable /\ UNCHANGED <<orRole, orRaced, orDemoted, orCall>>
      BY <2>2 DEF orgVars, Joinable, OrMembers
    <3> QED BY <3>1, AdminsQuiet DEF OrgInv
  <2> QED BY <2>1, <2>2, AdminsArrival
<1> QED BY <1>1, OrgTypeStep, HeldStep DEF OrgInv

\* The invariant holds of the organisations.
LEMMA OrgKeepsInv == OrganisationsSpec => []OrgInv
BY InitOrg, OrgStep, PTL DEF OrganisationsSpec

\* Users, roles, invites and requests stay within their types: a request in each of
\* its places has read what that place needs.
THEOREM OrganisationsTypeCorrect == OrganisationsSpec => []OrganisationsTypeOK
<1>1. OrgInv => OrganisationsTypeOK
  BY DEF OrgInv
<1> QED BY <1>1, OrgKeepsInv, PTL

\* An organisation with members has an admin, for any number of requests that
\* register, switch, remove, demote, invite and accept at once, until two of them
\* overlap on one organisation or an admin accepts an invite to be a member.
THEOREM AnAdminRemains == OrganisationsSpec => []AdminRemains
<1>1. OrgInv => AdminRemains
  BY AreJoinable DEF OrgInv, AdminsKept, AdminRemains
<1> QED BY <1>1, OrgKeepsInv, PTL

\* The lock of AcceptOrganisationInvite gives an invite one fate: no request revokes
\* or accepts an invite another one is accepting, or has accepted.
THEOREM InvitesHaveOneFate == OrganisationsSpec => []InviteOneFate
<1>1. OrgInv => InviteOneFate
  BY DEF OrgInv, InvitesHeld
<1> QED BY <1>1, OrgKeepsInv, PTL

-----------------------------------------------------------------------------
(* Schedules: types *)

\* Where a process may be; the site's handlers are those of ScAtSite.
SitePlaces == {"schedules", "adds-site", "reschedules", "unschedules", "hooks", "unhooks",
               "saves", "saves-job"}
Places == SitePlaces \cup {"idle", "creates", "cancels", "inserts", "works", "advances", "adds",
                           "updates"}

SettingType == [row : BOOLEAN, sched : ScSchedulers \cup {ScNone}, auto : BOOLEAN,
                hook : ScHooks \cup {ScNone}]

CallType == [at : Places, sched : ScSchedulers \cup {ScNone}, job : 0..ScMaxJobs,
             seen : SettingType, status : {ScNone, "enabled", "disabled"}, due : BOOLEAN,
             todo : SUBSET ScSchedulers]

\* What a process has read is of its type, and there is a scheduler where one is rewritten.
CallsTyped ==
    /\ scCall \in [ScProcs -> CallType]
    /\ \A p \in ScProcs : scCall[p].at \in {"updates", "reschedules"} =>
           scCall[p].sched \in ScSchedulers /\ scCall[p].status \in {"enabled", "disabled"}

ScheduleTypes == SchedulesTypeOK /\ CallsTyped

\* A setting, and an idle process, are of their types.
LEMMA IdleTypes == ScNoSetting \in SettingType /\ ScIdle \in CallType
BY ScAssumption DEF ScNoSetting, ScIdle, SettingType, CallType, Places

\* A process that goes on as a typed call leaves all calls typed.
LEMMA GoesTyped ==
    ASSUME CallsTyped, NEW p \in ScProcs, NEW call \in CallType, ScGoes(p, call),
           call.at \in {"updates", "reschedules"} =>
               call.sched \in ScSchedulers /\ call.status \in {"enabled", "disabled"}
    PROVE  CallsTyped'
BY DEF CallsTyped, ScGoes

\* Typed calls have what SchedulesTypeOK asks of them.
LEMMA TypedCalls ==
    CallsTyped => \A p \in ScProcs : scCall[p].todo \subseteq ScSchedulers /\ scCall[p].job \in 0..ScMaxJobs
BY DEF CallsTyped, CallType

\* A process that moves, with nothing else changed in what it has read.
LEMMA GoesToTyped ==
    ASSUME CallsTyped, NEW p \in ScProcs, NEW at \in Places \ {"updates", "reschedules"},
           ScGoesTo(p, at)
    PROVE  CallsTyped'
<1>1. [scCall[p] EXCEPT !.at = at] \in CallType /\ [scCall[p] EXCEPT !.at = at].at = at
  BY DEF CallsTyped, CallType
<1> QED BY <1>1, GoesTyped DEF ScGoesTo

\* The rows of the jobs.
JobsType == [1..ScMaxJobs -> [status : {ScNone, "pending", "running", "over"},
                              by : ScSchedulers \cup {ScNone}]]

\* A step that changes jobs and calls only keeps the types of the rest.
LEMMA JobsOnlyTyped ==
    ASSUME ScheduleTypes, ScJobsOnly, CallsTyped', scJob' \in JobsType
    PROVE  ScheduleTypes'
<1>1. UNCHANGED <<scSched, scDue, scRecent, scSetting, scHook, scRemoved>>
  BY DEF ScJobsOnly
<1>2. ScLive' = ScLive
  BY <1>1 DEF ScLive
<1>3. \A p \in ScProcs : scCall'[p].todo \subseteq ScSchedulers /\ scCall'[p].job \in 0..ScMaxJobs
  BY DEF CallsTyped, CallType
<1> QED BY <1>1, <1>2, <1>3 DEF ScheduleTypes, SchedulesTypeOK, JobsType

\* A step that leaves the jobs alone, and the rows a handler may write typed, keeps the types.
LEMMA NoJobsTyped ==
    ASSUME ScheduleTypes, ScNoJobs, CallsTyped',
           scSched' \in [ScSchedulers -> {ScNone, "enabled", "disabled", "deleted"}],
           scDue' \subseteq ScLive', scSetting' \in SettingType, scHook' \subseteq ScHooks,
           scRemoved' \subseteq ScSchedulers
    PROVE  ScheduleTypes'
<1>1. UNCHANGED <<scJob, scRecent>>
  BY DEF ScNoJobs
<1>2. \A p \in ScProcs : scCall'[p].todo \subseteq ScSchedulers /\ scCall'[p].job \in 0..ScMaxJobs
  BY DEF CallsTyped, CallType
<1> QED BY <1>1, <1>2 DEF ScheduleTypes, SchedulesTypeOK, SettingType

\* The initial states are typed.
LEMMA InitTyped == SchedulesInit => ScheduleTypes
<1> SUFFICES ASSUME SchedulesInit PROVE SchedulesTypeOK /\ CallsTyped
  BY DEF ScheduleTypes
<1>1. CallsTyped
  BY IdleTypes DEF SchedulesInit, CallsTyped, ScIdle
<1>2. scSetting \in SettingType
  BY IdleTypes DEF SchedulesInit
<1> QED BY <1>1, <1>2, TypedCalls, ScAssumption DEF SchedulesInit, SchedulesTypeOK, SettingType

\* CreateJob keeps the types.
LEMMA CreateTyped ==
    ASSUME ScheduleTypes, NEW p \in ScProcs, ScCreateStep(p) PROVE ScheduleTypes'
<1>1. scCall[p] \in CallType /\ CallsTyped /\ scJob \in JobsType
  BY DEF ScheduleTypes, CallsTyped, SchedulesTypeOK, JobsType
<1>2. ASSUME NEW created \in BOOLEAN, ScReturns(p, created) PROVE CallsTyped'
  <2>1. PICK call \in CallType : ScGoes(p, call) /\ call.at \in {"idle", "advances", "works"}
    <3> DEFINE advancing == [scCall[p] EXCEPT !.at = "advances", !.job = 0]
               working   == [ScIdle EXCEPT !.at = "works", !.todo = scCall[p].todo]
    <3>1. 0 \in 0..ScMaxJobs
      BY ScAssumption
    <3>2. advancing \in CallType /\ advancing.at = "advances"
      BY <1>1, <3>1 DEF CallType, Places
    <3>3. working \in CallType /\ working.at = "works"
      BY <1>1, IdleTypes DEF CallType, Places
    <3>4. ScIdle.at = "idle"
      BY DEF ScIdle
    <3>5. ScGoes(p, ScIdle) \/ ScGoes(p, advancing) \/ ScGoes(p, working)
      BY <1>2 DEF ScReturns
    <3> HIDE DEF advancing, working
    <3> QED BY <3>2, <3>3, <3>4, <3>5, IdleTypes
  <2> QED BY <1>1, <2>1, GoesTyped
<1>3. CASE ScFindExisting(p)
  <2>1. CallsTyped'
    <3>1. CASE ScGoesTo(p, "inserts")
      BY <1>1, <3>1, GoesToTyped DEF Places
    <3>2. ASSUME NEW j \in ScActive, ScGoes(p, [scCall[p] EXCEPT !.at = "cancels", !.job = j])
          PROVE  CallsTyped'
      <4> DEFINE call == [scCall[p] EXCEPT !.at = "cancels", !.job = j]
      <4>1. j \in 0..ScMaxJobs
        BY ScAssumption DEF ScActive
      <4>2. call \in CallType /\ call.at = "cancels"
        BY <1>1, <4>1 DEF CallType, Places
      <4> HIDE DEF call
      <4>3. ScGoes(p, call)
        BY <3>2 DEF call
      <4> QED BY <1>1, <4>2, <4>3, GoesTyped
    <3> QED BY <1>3, <3>1, <3>2 DEF ScFindExisting
  <2> QED BY <1>1, <1>3, <2>1, JobsOnlyTyped DEF ScFindExisting
<1>4. CASE ScExistingStays(p)
  <2>1. ScGoesTo(p, "inserts") /\ scJob' = scJob /\ ScJobsOnly
    BY <1>4 DEF ScExistingStays
  <2>2. CallsTyped'
    BY <1>1, <2>1, GoesToTyped DEF Places
  <2> QED BY <1>1, <2>1, <2>2, JobsOnlyTyped
<1>5. CASE ScCancelExisting(p)
  <2>1. CallsTyped'
    BY <1>1, <1>5, GoesToTyped DEF ScCancelExisting, Places
  <2>2. scJob' = scJob \/ scJob' = [scJob EXCEPT ![scCall[p].job].status = "over"]
    BY <1>5 DEF ScCancelExisting
  <2>3. scJob' \in JobsType
    BY <1>1, <2>2 DEF JobsType
  <2> QED BY <1>5, <2>1, <2>3, JobsOnlyTyped DEF ScCancelExisting
<1>6. CASE ScInsertJob(p)
  <2>1. CallsTyped'
    BY <1>2, <1>6 DEF ScInsertJob
  <2>2. scCall[p].sched \in ScSchedulers \cup {ScNone}
    BY <1>1 DEF CallType
  <2>3. scJob' \in JobsType
    BY <1>1, <1>6, <2>2 DEF ScInsertJob, JobsType
  <2> QED BY <1>6, <2>1, <2>3, JobsOnlyTyped DEF ScInsertJob
<1>7. CASE ScInsertFails(p)
  <2>1. CallsTyped'
    BY <1>2, <1>7 DEF ScInsertFails
  <2> QED BY <1>1, <1>7, <2>1, JobsOnlyTyped DEF ScInsertFails
<1> QED BY <1>3, <1>4, <1>5, <1>6, <1>7 DEF ScCreateStep

\* A request that begins as a typed call.
LEMMA BeginsTyped ==
    ASSUME CallsTyped, NEW c \in ScCalls, NEW call \in CallType, ScBegins(c, call),
           call.at = "updates" => call.sched \in ScSchedulers /\ call.status \in {"enabled", "disabled"},
           call.at # "reschedules"
    PROVE  CallsTyped'
<1>1. c \in ScProcs /\ ScGoes(c, call)
  BY DEF ScProcs, ScBegins
<1> QED BY <1>1, GoesTyped

\* The types of a state, taken apart.
LEMMA TypesHeld ==
    ASSUME ScheduleTypes
    PROVE  /\ CallsTyped /\ scSetting \in SettingType /\ scHook \subseteq ScHooks
           /\ scSched \in [ScSchedulers -> {ScNone, "enabled", "disabled", "deleted"}]
           /\ scDue \subseteq ScLive /\ ScLive \subseteq ScSchedulers
           /\ scRemoved \subseteq ScSchedulers /\ scJob \in JobsType
BY DEF ScheduleTypes, SchedulesTypeOK, SettingType, JobsType, ScLive

\* The scheduler loop keeps the types.
LEMMA LoopTyped == ASSUME ScheduleTypes, ScLoopStep PROVE ScheduleTypes'
<1>1. /\ "loop" \in ScProcs /\ scCall["loop"] \in CallType /\ CallsTyped
  BY TypesHeld DEF CallsTyped, ScProcs
<1>2. CallsTyped' /\ UNCHANGED <<scSched, scSetting, scHook, scRemoved>> /\ ScNoJobs
  <2> DEFINE working(todo) == [ScIdle EXCEPT !.at = "works", !.todo = todo]
  <2>1. ASSUME NEW todo \in SUBSET ScSchedulers
        PROVE  working(todo) \in CallType /\ working(todo).at = "works"
    BY IdleTypes DEF CallType, Places
  <2>2. CASE ScTick
    <3>1. ScGoes("loop", working({s \in scDue : scSched[s] = "enabled"}))
      BY <2>2 DEF ScTick
    <3>2. {s \in scDue : scSched[s] = "enabled"} \subseteq ScSchedulers
      BY TypesHeld
    <3> HIDE DEF working
    <3> QED BY <1>1, <2>1, <2>2, <3>1, <3>2, GoesTyped DEF ScTick
  <2>3. ASSUME NEW s \in ScSchedulers, ScTake(s)
        PROVE  CallsTyped' /\ UNCHANGED <<scSched, scSetting, scHook, scRemoved>> /\ ScNoJobs
    <3> DEFINE call == [scCall["loop"] EXCEPT !.todo = @ \ {s}, !.sched = s,
                           !.at = IF s \in scRecent THEN "advances" ELSE "creates"]
    <3>1. call \in CallType /\ call.at \in {"advances", "creates"}
      BY <1>1 DEF CallType, Places
    <3>2. ScGoes("loop", call)
      BY <2>3 DEF ScTake
    <3> HIDE DEF call
    <3> QED BY <1>1, <2>3, <3>1, <3>2, GoesTyped DEF ScTake
  <2>4. ASSUME NEW ok \in BOOLEAN, ScAdvance(ok)
        PROVE  CallsTyped' /\ UNCHANGED <<scSched, scSetting, scHook, scRemoved>> /\ ScNoJobs
    <3>1. ScGoes("loop", working(scCall["loop"].todo))
      BY <2>4 DEF ScAdvance
    <3>2. scCall["loop"].todo \subseteq ScSchedulers
      BY <1>1 DEF CallType
    <3> HIDE DEF working
    <3> QED BY <1>1, <2>1, <2>4, <3>1, <3>2, GoesTyped DEF ScAdvance
  <2>5. CASE ScTickDone
    <3>1. ScIdle.at = "idle"
      BY DEF ScIdle
    <3> QED BY <1>1, <2>5, <3>1, IdleTypes, GoesTyped DEF ScTickDone
  <2> QED BY <2>2, <2>3, <2>4, <2>5 DEF ScLoopStep
<1>3. scDue' \subseteq scDue
  <2>1. ASSUME NEW ok \in BOOLEAN, ScAdvance(ok) PROVE scDue' \subseteq scDue
    BY <2>1 DEF ScAdvance
  <2>2. CASE ScTick \/ (\E s \in ScSchedulers : ScTake(s)) \/ ScTickDone
    BY <2>2 DEF ScTick, ScTake, ScTickDone
  <2> QED BY <2>1, <2>2 DEF ScLoopStep
<1>4. ScLive' = ScLive
  BY <1>2 DEF ScLive
<1> QED BY <1>2, <1>3, <1>4, TypesHeld, NoJobsTyped

\* The requests about jobs and schedulers keep the types.
LEMMA RequestTyped == ASSUME ScheduleTypes, NEW c \in ScCalls, ScRequestStep(c) PROVE ScheduleTypes'
<1>1. c \in ScProcs /\ scCall[c] \in CallType /\ CallsTyped
  BY TypesHeld DEF CallsTyped, ScProcs
<1>2. ASSUME NEW call \in CallType, ScBegins(c, call),
             call.at = "updates" => call.sched \in ScSchedulers /\ call.status \in {"enabled", "disabled"},
             call.at # "reschedules",
             UNCHANGED <<scDue, scSched, scSetting, scHook, scTorn, scRemoved>>, ScNoJobs
      PROVE  ScheduleTypes'
  <2>1. CallsTyped'
    BY <1>1, <1>2, BeginsTyped
  <2>2. ScLive' = ScLive
    BY <1>2 DEF ScLive
  <2> QED BY <1>2, <2>1, <2>2, TypesHeld, NoJobsTyped
<1>3. CASE ScRequestJob(c) \/ ScPublish(c) \/ ScCreateScheduler(c)
  <2>1. PICK at \in {"creates", "adds"} : ScBegins(c, [ScIdle EXCEPT !.at = at])
    BY <1>3 DEF ScRequestJob, ScPublish, ScCreateScheduler
  <2>2. [ScIdle EXCEPT !.at = at] \in CallType /\ [ScIdle EXCEPT !.at = at].at = at
    BY IdleTypes DEF CallType, Places
  <2> QED BY <1>2, <1>3, <2>1, <2>2 DEF ScRequestJob, ScPublish, ScCreateScheduler
<1>4. ASSUME NEW s \in ScSchedulers, NEW status \in {"enabled", "disabled"}, ScReadScheduler(c, s, status)
      PROVE  ScheduleTypes'
  <2> DEFINE reads(due) == [ScIdle EXCEPT !.at = "updates", !.sched = s, !.status = status, !.due = due]
             call == reads(s \in scDue)
  <2>1. ASSUME NEW due \in BOOLEAN
        PROVE  /\ reads(due) \in CallType /\ reads(due).sched = s /\ reads(due).status = status
               /\ reads(due).at = "updates"
    BY IdleTypes DEF CallType, Places
  <2>2. ScBegins(c, call)
    BY <1>4 DEF ScReadScheduler
  <2>3. (s \in scDue) \in BOOLEAN
    OBVIOUS
  <2> HIDE DEF reads
  <2>4. call \in CallType /\ call.sched = s /\ call.status = status /\ call.at = "updates"
    BY <2>1, <2>3, Zenon
  <2> HIDE DEF call
  <2> QED BY <1>2, <1>4, <2>2, <2>4 DEF ScReadScheduler
<1>5. CASE ScUpdateScheduler(c) \/ ScConflict(c)
  <2>1. ScGoes(c, ScIdle) /\ UNCHANGED <<scSetting, scHook>> /\ ScNoJobs /\ ScIdle.at = "idle"
    BY <1>5 DEF ScUpdateScheduler, ScConflict, ScIdle
  <2>2. CallsTyped'
    BY <1>1, <2>1, IdleTypes, GoesTyped
  <2> DEFINE s == scCall[c].sched
  <2>3. CASE UNCHANGED <<scSched, scDue, scRemoved>>
    <3>1. ScLive' = ScLive
      BY <2>3 DEF ScLive
    <3> QED BY <2>1, <2>2, <2>3, <3>1, TypesHeld, NoJobsTyped
  <2>4. CASE /\ ScAt(c, "updates") /\ s \in ScLive /\ scSched' = [scSched EXCEPT ![s] = scCall[c].status]
             /\ scDue' = IF scCall[c].due THEN scDue \cup {s} ELSE scDue \ {s}
             /\ scRemoved' = scRemoved \ {s}
    <3>1. scCall[c].status \in {"enabled", "disabled"}
      BY <1>1, <2>4 DEF CallsTyped, ScAt
    <3>2. /\ scSched' \in [ScSchedulers -> {ScNone, "enabled", "disabled", "deleted"}]
          /\ ScLive' = ScLive
      BY <2>4, <3>1, TypesHeld DEF ScLive
    <3>3. scDue' \subseteq ScLive' /\ scRemoved' \subseteq ScSchedulers
      BY <2>4, <3>2, TypesHeld
    <3> QED BY <2>1, <2>2, <3>2, <3>3, TypesHeld, NoJobsTyped
  <2> QED BY <1>5, <2>3, <2>4 DEF ScUpdateScheduler, ScConflict
<1> QED BY <1>3, <1>4, <1>5 DEF ScRequestStep

\* A step of a handler of the site that goes on as a typed call.
LEMMA SiteGoes ==
    ASSUME ScheduleTypes, NEW c \in ScCalls, NEW call \in CallType, ScGoes(c, call),
           call.at = "reschedules" => call.sched \in ScSchedulers /\ call.status \in {"enabled", "disabled"},
           call.at # "updates", ScNoJobs,
           scSched' \in [ScSchedulers -> {ScNone, "enabled", "disabled", "deleted"}],
           scDue' \subseteq ScLive', scSetting' \in SettingType, scHook' \subseteq ScHooks,
           scRemoved' \subseteq ScSchedulers
    PROVE  ScheduleTypes'
<1>1. CallsTyped'
  BY TypesHeld, GoesTyped DEF ScProcs
<1> QED BY <1>1, NoJobsTyped

\* Deleting a scheduler keeps the types of the rows.
LEMMA DeletedTyped ==
    ASSUME ScheduleTypes, NEW s \in ScSchedulers, ScDeleted(s)
    PROVE  /\ scSched' \in [ScSchedulers -> {ScNone, "enabled", "disabled", "deleted"}]
           /\ scDue' \subseteq ScLive' /\ scSetting' \in SettingType
           /\ scSetting'.auto = scSetting.auto /\ scSetting'.hook = scSetting.hook
<1>1. /\ scSched' = [scSched EXCEPT ![s] = "deleted"] /\ scDue' = scDue \ {s}
      /\ scSetting' = [scSetting EXCEPT !.sched = IF @ = s THEN ScNone ELSE @]
  BY DEF ScDeleted
<1>2. scSched' \in [ScSchedulers -> {ScNone, "enabled", "disabled", "deleted"}]
  BY <1>1, TypesHeld
<1>3. ScLive' = ScLive \ {s}
  BY <1>1, TypesHeld DEF ScLive
<1>4. /\ scSetting' \in SettingType
      /\ scSetting'.auto = scSetting.auto /\ scSetting'.hook = scSetting.hook
  BY <1>1, TypesHeld DEF SettingType
<1> QED BY <1>1, <1>2, <1>3, <1>4, TypesHeld

\* The handlers of the Webflow site keep the types.
LEMMA SiteTyped == ASSUME ScheduleTypes, NEW c \in ScCalls, ScSiteStep(c) PROVE ScheduleTypes'
<1> DEFINE call == scCall[c]
           Rows == UNCHANGED <<scDue, scSched, scRemoved>>
<1>1. call \in CallType /\ CallsTyped /\ c \in ScProcs
  BY TypesHeld DEF CallsTyped, ScProcs
<1>2. Rows => /\ scSched' \in [ScSchedulers -> {ScNone, "enabled", "disabled", "deleted"}]
              /\ scDue' \subseteq ScLive' /\ scRemoved' \subseteq ScSchedulers
  BY TypesHeld DEF ScLive
<1>3. ScIdle \in CallType /\ ScIdle.at = "idle"
  BY IdleTypes DEF ScIdle
<1>4. ASSUME NEW at \in {"schedules", "unschedules", "hooks", "unhooks"}, ScSite(c, at)
      PROVE  ScheduleTypes'
  <2> DEFINE begun == [ScIdle EXCEPT !.at = at, !.seen = scSetting, !.sched = scSetting.sched]
  <2>1. scSetting \in SettingType /\ scSetting.sched \in ScSchedulers \cup {ScNone}
    BY TypesHeld DEF SettingType
  <2>2. begun \in CallType /\ begun.at = at
    BY <2>1, IdleTypes DEF CallType, Places, SitePlaces
  <2>3. ScGoes(c, begun)
    BY <1>4 DEF ScSite, ScBegins
  <2>4. Rows /\ UNCHANGED <<scSetting, scHook>> /\ ScNoJobs
    BY <1>4 DEF ScSite
  <2> HIDE DEF begun
  <2> QED BY <1>2, <2>1, <2>2, <2>3, <2>4, SiteGoes, TypesHeld
<1>5. CASE ScListSchedulers(c)
  <2>1. Rows /\ UNCHANGED <<scSetting, scHook>> /\ ScNoJobs
    BY <1>5 DEF ScListSchedulers
  <2>2. CASE ScGoesTo(c, "adds-site")
    <3>1. CallsTyped'
      BY <1>1, <2>2, GoesToTyped DEF Places, SitePlaces
    <3> QED BY <1>2, <2>1, <3>1, NoJobsTyped, TypesHeld
  <2>3. ASSUME NEW s \in ScLive,
               ScGoes(c, [call EXCEPT !.at = "reschedules", !.sched = s, !.status = scSched[s]])
        PROVE  ScheduleTypes'
    <3> DEFINE next == [call EXCEPT !.at = "reschedules", !.sched = s, !.status = scSched[s]]
    <3>1. s \in ScSchedulers /\ scSched[s] \in {"enabled", "disabled"}
      BY DEF ScLive
    <3>2. next \in CallType /\ next.sched = s /\ next.status = scSched[s] /\ next.at = "reschedules"
      BY <1>1, <3>1 DEF CallType, Places, SitePlaces
    <3>3. ScGoes(c, next)
      BY <2>3
    <3> HIDE DEF next
    <3> QED BY <1>2, <2>1, <3>1, <3>2, <3>3, SiteGoes, TypesHeld
  <2> QED BY <1>5, <2>2, <2>3 DEF ScListSchedulers
<1>6. CASE ScReschedule(c)
  <2>1. UNCHANGED <<scSetting, scHook>> /\ ScNoJobs
    BY <1>6 DEF ScReschedule
  <2>2. CASE /\ ScAt(c, "reschedules") /\ call.sched \in ScLive
             /\ scSched' = [scSched EXCEPT ![call.sched] = call.status] /\ scDue' = scDue \ {call.sched}
             /\ scRemoved' = scRemoved \ {call.sched} /\ ScGoesTo(c, "saves-job")
    <3>1. CallsTyped'
      BY <1>1, <2>2, GoesToTyped DEF Places, SitePlaces
    <3>2. call.status \in {"enabled", "disabled"}
      BY <1>1, <2>2 DEF CallsTyped, ScAt
    <3>3. scSched' \in [ScSchedulers -> {ScNone, "enabled", "disabled", "deleted"}] /\ ScLive' = ScLive
      BY <2>2, <3>2, TypesHeld DEF ScLive
    <3>4. scDue' \subseteq ScLive' /\ scRemoved' \subseteq ScSchedulers
      BY <2>2, <3>3, TypesHeld
    <3> QED BY <2>1, <3>1, <3>3, <3>4, NoJobsTyped, TypesHeld
  <2>3. CASE ScGoes(c, ScIdle) /\ Rows
    BY <1>2, <1>3, <2>1, <2>3, SiteGoes, TypesHeld
  <2> QED BY <1>6, <2>2, <2>3 DEF ScReschedule
<1>7. CASE ScAdd(c)
  <2>1. PICK s \in ScSchedulers, status \in {"enabled", "disabled"} :
          /\ scSched[s] = ScNone /\ scSched' = [scSched EXCEPT ![s] = status]
          /\ \/ ScAt(c, "adds") /\ ScGoes(c, ScIdle)
             \/ /\ ScAt(c, "adds-site") /\ status = "enabled"
                /\ ScGoes(c, [call EXCEPT !.at = "saves-job", !.sched = s])
          /\ UNCHANGED <<scDue, scSetting, scHook, scTorn, scRemoved, scLeft>> /\ ScNoJobs
    BY <1>7 DEF ScAdd
  <2>2. scSched' \in [ScSchedulers -> {ScNone, "enabled", "disabled", "deleted"}]
    BY <2>1, TypesHeld
  <2>3. ScLive \subseteq ScLive'
    BY <2>1, TypesHeld DEF ScLive, ScNone
  <2>4. [call EXCEPT !.at = "saves-job", !.sched = s] \in CallType
        /\ [call EXCEPT !.at = "saves-job", !.sched = s].at = "saves-job"
    BY <1>1 DEF CallType, Places, SitePlaces
  <2>5. PICK next \in CallType : ScGoes(c, next) /\ next.at \in {"idle", "saves-job"}
    BY <1>3, <2>1, <2>4
  <2>6. scDue' \subseteq ScLive' /\ scRemoved' \subseteq ScSchedulers
        /\ scSetting' \in SettingType /\ scHook' \subseteq ScHooks
    BY <2>1, <2>3, TypesHeld
  <2> QED BY <2>1, <2>2, <2>5, <2>6, SiteGoes
<1>8. CASE ScUnschedule(c)
  <2> DEFINE next == [call EXCEPT !.at = "saves", !.sched = ScNone]
  <2>1. next \in CallType /\ next.at = "saves"
    BY <1>1 DEF CallType, Places, SitePlaces
  <2>2. ScGoes(c, next) /\ scHook' = scHook /\ ScNoJobs
    BY <1>8 DEF ScUnschedule
  <2>3. scRemoved' \subseteq ScSchedulers
    BY <1>1, <1>8, TypesHeld DEF ScUnschedule, CallType
  <2>4. /\ scSched' \in [ScSchedulers -> {ScNone, "enabled", "disabled", "deleted"}]
        /\ scDue' \subseteq ScLive' /\ scSetting' \in SettingType
    <3>1. CASE ScDeletable(call.sched) /\ ScDeleted(call.sched)
      <4>1. call.sched \in ScSchedulers
        BY <3>1 DEF ScDeletable, ScLive
      <4> QED BY <3>1, <4>1, DeletedTyped
    <3>2. CASE UNCHANGED <<scSched, scDue, scSetting>>
      BY <3>2, TypesHeld DEF ScLive
    <3> QED BY <1>8, <3>1, <3>2 DEF ScUnschedule
  <2> HIDE DEF next
  <2> QED BY <2>1, <2>2, <2>3, <2>4, SiteGoes, TypesHeld
<1>9. CASE ScRegisterHook(c)
  <2>1. PICK k \in ScHooks :
          /\ scHook' = {k}
          /\ ScGoes(c, [call EXCEPT !.at = "saves-job", !.seen.auto = TRUE, !.seen.hook = k])
          /\ UNCHANGED <<scDue, scSched, scSetting, scTorn, scRemoved, scLeft>> /\ ScNoJobs
    BY <1>9 DEF ScRegisterHook
  <2> DEFINE next == [call EXCEPT !.at = "saves-job", !.seen.auto = TRUE, !.seen.hook = k]
  <2>2. next \in CallType /\ next.at = "saves-job"
    BY <1>1 DEF CallType, Places, SitePlaces, SettingType
  <2>3. ScGoes(c, next)
    BY <2>1
  <2> HIDE DEF next
  <2> QED BY <1>2, <2>1, <2>2, <2>3, SiteGoes, TypesHeld
<1>10. ASSUME NEW ok \in BOOLEAN, ScDeleteHook(c, ok) PROVE ScheduleTypes'
  <2> DEFINE next == [call EXCEPT !.at = "saves", !.seen = ScSwitchedOff(@)]
  <2>1. call.seen \in SettingType
    BY <1>1 DEF CallType
  <2>2. ScSwitchedOff(call.seen) \in SettingType
    BY <2>1 DEF ScSwitchedOff, SettingType
  <2>3. next \in CallType /\ next.at = "saves"
    BY <1>1, <2>2 DEF CallType, Places, SitePlaces
  <2>4. ScGoes(c, next) /\ Rows /\ scSetting' = scSetting /\ ScNoJobs
    BY <1>10 DEF ScDeleteHook
  <2>5. scHook' \subseteq ScHooks
    BY <1>10, TypesHeld DEF ScDeleteHook
  <2> HIDE DEF next
  <2> QED BY <1>2, <2>3, <2>4, <2>5, SiteGoes, TypesHeld
<1>11. CASE ScSave(c)
  <2>1. /\ scSetting' = [call.seen EXCEPT !.row = TRUE, !.sched = call.sched]
        /\ Rows /\ scHook' = scHook /\ ScNoJobs
    BY <1>11 DEF ScSave
  <2>2. scSetting' \in SettingType
    BY <1>1, <2>1 DEF CallType, SettingType
  <2>3. [ScIdle EXCEPT !.at = "creates"] \in CallType /\ [ScIdle EXCEPT !.at = "creates"].at = "creates"
    BY <1>3 DEF CallType, Places
  <2>4. PICK next \in CallType : ScGoes(c, next) /\ next.at \in {"idle", "creates"}
    BY <1>3, <1>11, <2>3 DEF ScSave
  <2> QED BY <1>2, <2>1, <2>2, <2>4, SiteGoes, TypesHeld
<1>12. CASE ScGiveUp(c)
  <2>1. ScGoes(c, ScIdle) /\ Rows /\ UNCHANGED <<scSetting, scHook>> /\ ScNoJobs
    BY <1>12 DEF ScGiveUp
  <2> QED BY <1>2, <1>3, <2>1, SiteGoes, TypesHeld
<1> QED BY <1>4, <1>5, <1>6, <1>7, <1>8, <1>9, <1>10, <1>11, <1>12 DEF ScSiteStep

-----------------------------------------------------------------------------
(* Schedules: the site *)

\* A setting to crawl on publish has its webhook.
Heard(setting) == setting.auto => setting.hook \in scHook

\* How a step takes the handler c of the site on, and what it does to the row and the
\* webhooks: it begins, goes on or ends without having changed the row, registers
\* its webhook or deletes it, saves, or gives up.
SiteBegins(c, next) ==
    /\ next.at \in SitePlaces \ {"saves", "saves-job"} /\ next.seen = scSetting
    /\ scTorn' = (scTorn \/ \E d \in ScCalls : ScAtSite(d))
    /\ UNCHANGED <<scSetting, scHook>>

SiteGoesOn(c, next) ==
    /\ scCall[c].at \notin {"saves", "saves-job"} /\ scTorn' = scTorn
    /\ next.at \in SitePlaces => ScAtSite(c) /\ next.seen = scCall[c].seen
    /\ scHook' = scHook /\ scSetting'.auto = scSetting.auto /\ scSetting'.hook = scSetting.hook

SiteHooks(c, next) ==
    /\ ScAtSite(c) /\ next.at \in {"saves", "saves-job"}
    /\ scTorn' = scTorn /\ scSetting' = scSetting
    /\ next.seen.auto => next.seen.hook \in scHook'

SiteSaves(c, next) ==
    /\ scCall[c].at \in {"saves", "saves-job"} /\ next.at \notin SitePlaces
    /\ scTorn' = scTorn /\ scHook' = scHook
    /\ scSetting'.auto = scCall[c].seen.auto /\ scSetting'.hook = scCall[c].seen.hook

SiteMoves(c, next) ==
    \/ SiteBegins(c, next) \/ SiteGoesOn(c, next) \/ SiteHooks(c, next) \/ SiteSaves(c, next)
    \/ scTorn'

\* Every step of a handler of the site has one of these forms.
LEMMA SiteForms ==
    ASSUME ScheduleTypes, NEW c \in ScCalls, ScSiteStep(c)
    PROVE  /\ ScNoJobs
           /\ \E next : /\ ScGoes(c, next) /\ next.at \in SitePlaces \cup {"idle", "creates"}
                        /\ SiteMoves(c, next)
<1> DEFINE call == scCall[c]
           Form(next) == /\ ScGoes(c, next) /\ next.at \in SitePlaces \cup {"idle", "creates"}
                         /\ SiteMoves(c, next)
<1>1. call \in CallType /\ c \in ScProcs
  BY TypesHeld DEF CallsTyped, ScProcs
<1>2. ScIdle.at = "idle" /\ "idle" \notin SitePlaces /\ "creates" \notin SitePlaces
  BY DEF ScIdle, SitePlaces
<1>3. ASSUME NEW at \in {"schedules", "unschedules", "hooks", "unhooks"}, ScSite(c, at)
      PROVE  ScNoJobs /\ \E next : Form(next)
  <2> DEFINE next == [ScIdle EXCEPT !.at = at, !.seen = scSetting, !.sched = scSetting.sched]
  <2>1. next.at = at /\ next.seen = scSetting /\ at \in SitePlaces \ {"saves", "saves-job"}
    BY DEF ScIdle, SitePlaces
  <2>2. ScGoes(c, next) /\ UNCHANGED <<scSetting, scHook>> /\ ScNoJobs
    BY <1>3 DEF ScSite, ScBegins
  <2>3. scTorn' = (scTorn \/ \E d \in ScCalls : ScAtSite(d))
    BY <1>3 DEF ScSite
  <2> HIDE DEF next
  <2>4. SiteBegins(c, next)
    BY <2>1, <2>2, <2>3 DEF SiteBegins
  <2> QED BY <2>1, <2>2, <2>4 DEF SiteMoves
<1>4. ASSUME NEW next, ScGoes(c, next), UNCHANGED <<scHook, scTorn>>, ScNoJobs,
             call.at \notin {"saves", "saves-job"},
             next.at \in {"idle", "creates"} \/
                 (ScAtSite(c) /\ next.at \in SitePlaces /\ next.seen = call.seen),
             scSetting'.auto = scSetting.auto /\ scSetting'.hook = scSetting.hook
      PROVE  ScNoJobs /\ \E n : Form(n)
  <2>1. SiteGoesOn(c, next)
    BY <1>2, <1>4 DEF SiteGoesOn
  <2> QED BY <1>4, <2>1 DEF SiteMoves
<1>5. CASE ScListSchedulers(c)
  <2>1. /\ ScAt(c, "schedules") /\ UNCHANGED <<scSetting, scHook, scTorn>> /\ ScNoJobs
        /\ \/ ScGoes(c, [call EXCEPT !.at = "adds-site"])
           \/ \E s, status : ScGoes(c, [call EXCEPT !.at = "reschedules", !.sched = s, !.status = status])
    BY <1>5 DEF ScListSchedulers, ScGoesTo
  <2>2. [call EXCEPT !.at = "adds-site"].at = "adds-site" /\ [call EXCEPT !.at = "adds-site"].seen = call.seen
    BY <1>1 DEF CallType
  <2>3. ASSUME NEW s, NEW status
        PROVE  /\ [call EXCEPT !.at = "reschedules", !.sched = s, !.status = status].at = "reschedules"
               /\ [call EXCEPT !.at = "reschedules", !.sched = s, !.status = status].seen = call.seen
    BY <1>1 DEF CallType
  <2>4. PICK next : ScGoes(c, next) /\ next.at \in {"adds-site", "reschedules"} /\ next.seen = call.seen
    <3>1. CASE ScGoes(c, [call EXCEPT !.at = "adds-site"])
      BY <2>2, <3>1
    <3>2. ASSUME NEW s, NEW status,
                 ScGoes(c, [call EXCEPT !.at = "reschedules", !.sched = s, !.status = status])
          PROVE  \E n : ScGoes(c, n) /\ n.at \in {"adds-site", "reschedules"} /\ n.seen = call.seen
      <4> DEFINE n == [call EXCEPT !.at = "reschedules", !.sched = s, !.status = status]
      <4>1. n.at = "reschedules" /\ n.seen = call.seen /\ ScGoes(c, n)
        BY <2>3, <3>2
      <4> HIDE DEF n
      <4> QED BY <4>1
    <3> QED BY <2>1, <3>1, <3>2
  <2>5. ScAtSite(c) /\ call.at = "schedules" /\ next.at \in SitePlaces
    BY <2>1, <2>4 DEF ScAt, ScAtSite, SitePlaces
  <2> QED BY <1>4, <2>1, <2>4, <2>5
<1>6. CASE ScReschedule(c)
  <2>1. /\ ScAt(c, "reschedules") /\ UNCHANGED <<scSetting, scHook, scTorn>> /\ ScNoJobs
        /\ ScGoes(c, [call EXCEPT !.at = "saves-job"]) \/ ScGoes(c, ScIdle)
    BY <1>6 DEF ScReschedule, ScGoesTo
  <2>2. [call EXCEPT !.at = "saves-job"].at = "saves-job" /\ [call EXCEPT !.at = "saves-job"].seen = call.seen
    BY <1>1 DEF CallType
  <2>3. ScAtSite(c) /\ call.at = "reschedules" /\ "saves-job" \in SitePlaces
    BY <2>1 DEF ScAt, ScAtSite, SitePlaces
  <2> QED BY <1>2, <1>4, <2>1, <2>2, <2>3
<1>7. CASE ScAdd(c)
  <2>1. PICK s \in ScSchedulers :
          /\ \/ ScAt(c, "adds") /\ ScGoes(c, ScIdle)
             \/ ScAt(c, "adds-site") /\ ScGoes(c, [call EXCEPT !.at = "saves-job", !.sched = s])
          /\ UNCHANGED <<scSetting, scHook, scTorn>> /\ ScNoJobs
    BY <1>7 DEF ScAdd
  <2>2. /\ [call EXCEPT !.at = "saves-job", !.sched = s].at = "saves-job"
        /\ [call EXCEPT !.at = "saves-job", !.sched = s].seen = call.seen
    BY <1>1 DEF CallType
  <2>3. CASE ScAt(c, "adds") /\ ScGoes(c, ScIdle)
    <3>1. call.at = "adds"
      BY <2>3 DEF ScAt
    <3> QED BY <1>2, <1>4, <2>1, <2>3, <3>1
  <2>4. CASE ScAt(c, "adds-site") /\ ScGoes(c, [call EXCEPT !.at = "saves-job", !.sched = s])
    <3>1. ScAtSite(c) /\ call.at = "adds-site" /\ "saves-job" \in SitePlaces
      BY <2>4 DEF ScAt, ScAtSite, SitePlaces
    <3> QED BY <1>4, <2>1, <2>2, <2>4, <3>1
  <2> QED BY <2>1, <2>3, <2>4
<1>8. CASE ScUnschedule(c)
  <2>1. /\ ScAt(c, "unschedules") /\ UNCHANGED <<scHook, scTorn>> /\ ScNoJobs
        /\ ScGoes(c, [call EXCEPT !.at = "saves", !.sched = ScNone])
    BY <1>8 DEF ScUnschedule
  <2>2. /\ [call EXCEPT !.at = "saves", !.sched = ScNone].at = "saves"
        /\ [call EXCEPT !.at = "saves", !.sched = ScNone].seen = call.seen
    BY <1>1 DEF CallType
  <2>3. ScAtSite(c) /\ call.at = "unschedules" /\ "saves" \in SitePlaces
    BY <2>1 DEF ScAt, ScAtSite, SitePlaces
  <2>4. scSetting'.auto = scSetting.auto /\ scSetting'.hook = scSetting.hook
    <3>1. ASSUME ScDeletable(call.sched), ScDeleted(call.sched)
          PROVE  scSetting'.auto = scSetting.auto /\ scSetting'.hook = scSetting.hook
      BY <3>1, DeletedTyped DEF ScDeletable, ScLive
    <3> QED BY <1>8, <3>1 DEF ScUnschedule
  <2> QED BY <1>4, <2>1, <2>2, <2>3, <2>4
<1>9. CASE ScRegisterHook(c)
  <2>1. PICK k \in ScHooks :
          /\ ScAt(c, "hooks") /\ scHook' = {k} /\ scTorn' = scTorn /\ scSetting' = scSetting /\ ScNoJobs
          /\ ScGoes(c, [call EXCEPT !.at = "saves-job", !.seen.auto = TRUE, !.seen.hook = k])
    BY <1>9 DEF ScRegisterHook
  <2> DEFINE next == [call EXCEPT !.at = "saves-job", !.seen.auto = TRUE, !.seen.hook = k]
  <2>2. next.at = "saves-job" /\ next.seen.hook = k
    BY <1>1 DEF CallType, SettingType
  <2>3. ScAtSite(c) /\ "saves-job" \in SitePlaces
    BY <2>1 DEF ScAt, ScAtSite, SitePlaces
  <2>4. ScGoes(c, next)
    BY <2>1
  <2> HIDE DEF next
  <2>5. SiteHooks(c, next)
    BY <2>1, <2>2, <2>3 DEF SiteHooks
  <2> QED BY <2>1, <2>2, <2>3, <2>4, <2>5 DEF SiteMoves
<1>10. ASSUME NEW ok \in BOOLEAN, ScDeleteHook(c, ok) PROVE ScNoJobs /\ \E next : Form(next)
  <2> DEFINE off == ScSwitchedOff(call.seen)
             next == [call EXCEPT !.at = "saves", !.seen = off]
  <2>1. /\ ScAt(c, "unhooks") /\ scTorn' = scTorn /\ scSetting' = scSetting /\ ScNoJobs
        /\ ScGoes(c, next)
    BY <1>10 DEF ScDeleteHook
  <2>2. ~off.auto
    <3>1. call.seen \in SettingType
      BY <1>1 DEF CallType
    <3>2. off.auto = FALSE
      BY <3>1 DEF ScSwitchedOff, SettingType
    <3> QED BY <3>2
  <2> HIDE DEF off
  <2>3. next.at = "saves" /\ next.seen = off
    BY <1>1 DEF CallType
  <2>4. ScAtSite(c) /\ "saves" \in SitePlaces
    BY <2>1 DEF ScAt, ScAtSite, SitePlaces
  <2> HIDE DEF next
  <2>5. SiteHooks(c, next)
    BY <2>1, <2>2, <2>3, <2>4 DEF SiteHooks
  <2> QED BY <2>1, <2>3, <2>4, <2>5 DEF SiteMoves
<1>11. CASE ScSave(c)
  <2>1. /\ call.at \in {"saves", "saves-job"} /\ scTorn' = scTorn /\ scHook' = scHook /\ ScNoJobs
        /\ scSetting' = [call.seen EXCEPT !.row = TRUE, !.sched = call.sched]
        /\ ScGoes(c, ScIdle) \/ ScGoes(c, [ScIdle EXCEPT !.at = "creates"])
    BY <1>11 DEF ScSave
  <2>2. scSetting'.auto = call.seen.auto /\ scSetting'.hook = call.seen.hook
    BY <1>1, <2>1 DEF CallType, SettingType
  <2>3. [ScIdle EXCEPT !.at = "creates"].at = "creates"
    BY DEF ScIdle
  <2>4. PICK next : ScGoes(c, next) /\ next.at \in {"idle", "creates"}
    BY <1>2, <2>1, <2>3
  <2>5. SiteSaves(c, next)
    BY <1>2, <2>1, <2>2, <2>4 DEF SiteSaves
  <2> QED BY <2>1, <2>4, <2>5 DEF SiteMoves
<1>12. CASE ScGiveUp(c)
  <2>1. scTorn'
    BY <1>12, Zenon DEF ScGiveUp
  <2>2. ScGoes(c, ScIdle) /\ ScNoJobs
    BY <1>12 DEF ScGiveUp
  <2> QED BY <1>2, <2>1, <2>2 DEF SiteMoves
<1> QED BY <1>3, <1>5, <1>6, <1>7, <1>8, <1>9, <1>10, <1>11, <1>12 DEF ScSiteStep

\* Steps of jobs and schedulers by themselves.
ScOwnStep ==
    \/ ScDisconnect
    \/ \E j \in 1..ScMaxJobs : ScMarkRunning(j) \/ ScEndJob(j)
    \/ \E s \in ScSchedulers : ScBecomeDue(s) \/ ScAge(s) \/ ScDeleteScheduler(s)

\* They keep the types.
LEMMA OwnTyped == ASSUME ScheduleTypes, ScOwnStep PROVE ScheduleTypes'
<1>1. CASE ScDisconnect
  <2>1. CallsTyped' /\ ScLive' = ScLive /\ ScNoJobs
    BY <1>1, TypesHeld DEF ScDisconnect, CallsTyped, ScLive
  <2> QED BY <1>1, <2>1, IdleTypes, TypesHeld, NoJobsTyped DEF ScDisconnect
<1>2. ASSUME NEW j \in 1..ScMaxJobs, ScMarkRunning(j) PROVE ScheduleTypes'
  <2>1. scJob[j].by \in ScSchedulers \cup {ScNone} /\ scJob' \in JobsType
    BY <1>2, TypesHeld DEF ScMarkRunning, JobsType
  <2>2. scRecent' \subseteq ScSchedulers
    BY <1>2, <2>1 DEF ScMarkRunning, ScheduleTypes, SchedulesTypeOK
  <2>3. UNCHANGED <<scSched, scDue, scSetting, scHook, scCall, scRemoved>>
    BY <1>2 DEF ScMarkRunning
  <2>4. CallsTyped' /\ ScLive' = ScLive
    BY <2>3, TypesHeld DEF CallsTyped, ScLive
  <2> QED BY <2>1, <2>2, <2>3, <2>4 DEF ScheduleTypes, SchedulesTypeOK, JobsType
<1>3. ASSUME NEW j \in 1..ScMaxJobs, ScEndJob(j) PROVE ScheduleTypes'
  <2>1. scJob' \in JobsType
    BY <1>3, TypesHeld DEF ScEndJob, JobsType
  <2>2. CallsTyped'
    BY <1>3, TypesHeld DEF ScEndJob, CallsTyped
  <2> QED BY <1>3, <2>1, <2>2, JobsOnlyTyped DEF ScEndJob
<1>4. ASSUME NEW s \in ScSchedulers, ScBecomeDue(s) PROVE ScheduleTypes'
  <2>1. CallsTyped'
    <3>1. scCall' = [p \in ScProcs |-> IF ScAt(p, "updates") /\ scCall[p].sched = s
                                       THEN [scCall[p] EXCEPT !.due = TRUE] ELSE scCall[p]]
      BY <1>4 DEF ScBecomeDue
    <3>2. ASSUME NEW call \in CallType
          PROVE  /\ [call EXCEPT !.due = TRUE] \in CallType
                 /\ [call EXCEPT !.due = TRUE].at = call.at
                 /\ [call EXCEPT !.due = TRUE].sched = call.sched
                 /\ [call EXCEPT !.due = TRUE].status = call.status
      BY DEF CallType
    <3>3. \A p \in ScProcs : /\ scCall'[p] \in CallType /\ scCall'[p].at = scCall[p].at
                             /\ scCall'[p].sched = scCall[p].sched
                             /\ scCall'[p].status = scCall[p].status
      BY <3>1, <3>2, TypesHeld DEF CallsTyped
    <3>4. scCall' \in [ScProcs -> CallType]
      BY <3>1, <3>3
    <3> QED BY <3>3, <3>4, TypesHeld DEF CallsTyped
  <2>2. scDue' \subseteq ScLive' /\ UNCHANGED <<scSched, scSetting, scHook, scRemoved>> /\ ScNoJobs
    BY <1>4, TypesHeld DEF ScBecomeDue, ScLive
  <2> QED BY <2>1, <2>2, TypesHeld, NoJobsTyped
<1>5. ASSUME NEW s \in ScSchedulers, ScAge(s) PROVE ScheduleTypes'
  <2>1. UNCHANGED <<scJob, scSched, scDue, scSetting, scHook, scCall, scRemoved>>
        /\ scRecent' \subseteq scRecent
    BY <1>5 DEF ScAge
  <2>2. CallsTyped' /\ ScLive' = ScLive
    BY <2>1, TypesHeld DEF CallsTyped, ScLive
  <2> QED BY <2>1, <2>2 DEF ScheduleTypes, SchedulesTypeOK
<1>6. ASSUME NEW s \in ScSchedulers, ScDeleteScheduler(s) PROVE ScheduleTypes'
  <2>1. CallsTyped'
    BY <1>6, TypesHeld DEF ScDeleteScheduler, CallsTyped
  <2> QED BY <1>6, <2>1, DeletedTyped, TypesHeld, NoJobsTyped DEF ScDeleteScheduler
<1> QED BY <1>1, <1>2, <1>3, <1>4, <1>5, <1>6 DEF ScOwnStep

\* The steps of the module, by who takes them.
LEMMA WhoSteps ==
    SchedulesNext => \/ \E p \in ScProcs : ScCreateStep(p)
                     \/ ScLoopStep
                     \/ \E c \in ScCalls : ScRequestStep(c)
                     \/ \E c \in ScCalls : ScSiteStep(c)
                     \/ ScOwnStep
BY DEF SchedulesNext, ScOwnStep

\* A stutter keeps the types.
LEMMA StutterTyped == ScheduleTypes /\ UNCHANGED schedVars => ScheduleTypes'
BY DEF ScheduleTypes, SchedulesTypeOK, CallsTyped, schedVars, ScLive

\* Every step keeps the types.
LEMMA ScTypeStep == ScheduleTypes /\ [SchedulesNext]_schedVars => ScheduleTypes'
BY WhoSteps, CreateTyped, LoopTyped, RequestTyped, SiteTyped, OwnTyped, StutterTyped

\* Jobs and schedulers leave the calls where they are.
LEMMA OwnCalls ==
    ASSUME ScheduleTypes, ScOwnStep
    PROVE  \A p \in ScProcs : /\ scCall'[p].at = scCall[p].at /\ scCall'[p].job = scCall[p].job
                              /\ scCall'[p].seen = scCall[p].seen
<1>1. ASSUME NEW s \in ScSchedulers, ScBecomeDue(s), NEW p \in ScProcs
      PROVE  /\ scCall'[p].at = scCall[p].at /\ scCall'[p].job = scCall[p].job
             /\ scCall'[p].seen = scCall[p].seen
  <2>1. scCall'[p] = scCall[p] \/ scCall'[p] = [scCall[p] EXCEPT !.due = TRUE]
    BY <1>1 DEF ScBecomeDue
  <2>2. scCall[p] \in CallType
    BY TypesHeld DEF CallsTyped
  <2> QED BY <2>1, <2>2 DEF CallType
<1>2. CASE \/ ScDisconnect
           \/ \E j \in 1..ScMaxJobs : ScMarkRunning(j) \/ ScEndJob(j)
           \/ \E s \in ScSchedulers : ScAge(s) \/ ScDeleteScheduler(s)
  BY <1>2 DEF ScDisconnect, ScMarkRunning, ScEndJob, ScAge, ScDeleteScheduler
<1> QED BY <1>1, <1>2 DEF ScOwnStep

-----------------------------------------------------------------------------
(* Schedules: one active job *)

\* Unless calls of CreateJob raced, one of them is past its look at the active jobs at
\* most: then the job it cancels is the only one, and there is none when it inserts.
OneCreates ==
    ~scRaced =>
        /\ \A j, k \in ScActive : j = k
        /\ \A p, q \in ScProcs : ScCreating(p) /\ ScCreating(q) => p = q
        /\ \A p \in ScProcs : ScAt(p, "cancels") => ScActive \subseteq {scCall[p].job}
        /\ \A p \in ScProcs : ScAt(p, "inserts") => ScActive = {}

\* A process that is in CreateJob afterwards was where it is before.
Uncreating ==
    \A p \in ScProcs : scCall'[p].at \in {"cancels", "inserts"} =>
                           scCall'[p].at = scCall[p].at /\ scCall'[p].job = scCall[p].job

\* Steps that add no active job and start no creation.
LEMMA QuietCreates ==
    ASSUME OneCreates, ScActive' \subseteq ScActive, UNCHANGED scRaced, Uncreating
    PROVE  OneCreates'
BY DEF OneCreates, Uncreating, ScCreating, ScAt

\* A call elsewhere than in CreateJob.
LEMMA GoesUncreating ==
    ASSUME ScheduleTypes, NEW p \in ScProcs, NEW call, ScGoes(p, call),
           call.at \notin {"cancels", "inserts"}
    PROVE  Uncreating
BY TypesHeld DEF ScGoes, Uncreating, CallsTyped

\* Where a request about jobs or schedulers goes.
LEMMA RequestGoes ==
    ASSUME NEW c \in ScCalls, ScRequestStep(c)
    PROVE  \E call : ScGoes(c, call) /\ call.at \in {"idle", "creates", "adds", "updates"}
<1>1. CASE ScRequestJob(c) \/ ScPublish(c) \/ ScCreateScheduler(c)
  BY <1>1 DEF ScRequestJob, ScPublish, ScCreateScheduler, ScBegins, ScIdle
<1>2. CASE ScUpdateScheduler(c) \/ ScConflict(c)
  BY <1>2 DEF ScUpdateScheduler, ScConflict, ScIdle
<1>3. ASSUME NEW s \in ScSchedulers, NEW status \in {"enabled", "disabled"}, ScReadScheduler(c, s, status)
      PROVE  \E due : ScGoes(c, [ScIdle EXCEPT !.at = "updates", !.sched = s, !.status = status, !.due = due])
  BY <1>3 DEF ScReadScheduler, ScBegins
<1>4. ASSUME NEW s, NEW status, NEW due
      PROVE  [ScIdle EXCEPT !.at = "updates", !.sched = s, !.status = status, !.due = due].at = "updates"
  BY DEF ScIdle
<1>5. CASE \E s \in ScSchedulers, status \in {"enabled", "disabled"} : ScReadScheduler(c, s, status)
  <2>1. PICK s, status, due :
            ScGoes(c, [ScIdle EXCEPT !.at = "updates", !.sched = s, !.status = status, !.due = due])
    BY <1>3, <1>5
  <2> DEFINE n == [ScIdle EXCEPT !.at = "updates", !.sched = s, !.status = status, !.due = due]
  <2>2. n.at = "updates" /\ ScGoes(c, n)
    BY <1>4, <2>1
  <2> HIDE DEF n
  <2> QED BY <2>2
<1> QED BY <1>1, <1>2, <1>5 DEF ScRequestStep

\* The steps of the loop and of the handlers leave CreateJob alone.
LEMMA OthersUncreating ==
    ASSUME ScheduleTypes,
           ScLoopStep \/ (\E c \in ScCalls : ScRequestStep(c) \/ ScSiteStep(c))
    PROVE  Uncreating /\ scRaced' = scRaced /\ scJob' = scJob
<1>1. \A p \in ScProcs : scCall[p] \in CallType
  BY TypesHeld DEF CallsTyped
<1>2. ScIdle.at = "idle" /\ "loop" \in ScProcs /\ ScCalls \subseteq ScProcs
  BY DEF ScIdle, ScProcs
<1>3. CASE ScLoopStep
  <2>1. PICK call : ScGoes("loop", call) /\ call.at \in {"idle", "works", "advances", "creates"}
    <3>1. ASSUME NEW todo PROVE [ScIdle EXCEPT !.at = "works", !.todo = todo].at = "works"
      BY DEF ScIdle
    <3>2. ASSUME NEW s, NEW at PROVE [scCall["loop"] EXCEPT !.todo = @ \ {s}, !.sched = s, !.at = at].at = at
      BY <1>1, <1>2 DEF CallType
    <3>3. ASSUME NEW ok \in BOOLEAN, ScAdvance(ok)
          PROVE  ScGoes("loop", [ScIdle EXCEPT !.at = "works", !.todo = scCall["loop"].todo])
      BY <3>3 DEF ScAdvance
    <3>4. CASE ScTick
      BY <3>1, <3>4 DEF ScTick
    <3>5. ASSUME NEW s \in ScSchedulers, ScTake(s)
          PROVE  \E at \in {"advances", "creates"} :
                    ScGoes("loop", [scCall["loop"] EXCEPT !.todo = @ \ {s}, !.sched = s, !.at = at])
      BY <3>5 DEF ScTake
    <3>6. CASE ScTickDone
      BY <1>2, <3>6 DEF ScTickDone
    <3>7. CASE \E s \in ScSchedulers : ScTake(s)
      <4>1. PICK s \in ScSchedulers, at \in {"advances", "creates"} :
                ScGoes("loop", [scCall["loop"] EXCEPT !.todo = @ \ {s}, !.sched = s, !.at = at])
        BY <3>5, <3>7
      <4> DEFINE n == [scCall["loop"] EXCEPT !.todo = @ \ {s}, !.sched = s, !.at = at]
      <4>2. n.at = at /\ ScGoes("loop", n)
        BY <3>2, <4>1
      <4> HIDE DEF n
      <4> QED BY <4>2
    <3>8. CASE \E ok \in BOOLEAN : ScAdvance(ok)
      BY <3>1, <3>3, <3>8
    <3> QED BY <1>3, <3>4, <3>6, <3>7, <3>8 DEF ScLoopStep
  <2>2. ScNoJobs
    BY <1>3 DEF ScLoopStep, ScTick, ScTake, ScAdvance, ScTickDone
  <2> QED BY <1>2, <2>1, <2>2, GoesUncreating DEF ScNoJobs
<1>4. ASSUME NEW c \in ScCalls, ScRequestStep(c) PROVE Uncreating /\ scRaced' = scRaced /\ scJob' = scJob
  <2>1. PICK call : ScGoes(c, call) /\ call.at \in {"idle", "creates", "adds", "updates"}
    BY <1>4, RequestGoes
  <2>2. ScNoJobs
    BY <1>4 DEF ScRequestStep, ScRequestJob, ScPublish, ScCreateScheduler, ScUpdateScheduler,
                ScConflict, ScReadScheduler
  <2> QED BY <1>2, <2>1, <2>2, GoesUncreating DEF ScNoJobs
<1>5. ASSUME NEW c \in ScCalls, ScSiteStep(c) PROVE Uncreating /\ scRaced' = scRaced /\ scJob' = scJob
  <2>1. PICK call : ScGoes(c, call) /\ call.at \in SitePlaces \cup {"idle", "creates"}
    BY <1>5, SiteForms
  <2>2. ScNoJobs
    BY <1>5, SiteForms
  <2>3. call.at \notin {"cancels", "inserts"}
    BY <2>1 DEF SitePlaces
  <2> QED BY <1>2, <2>1, <2>2, <2>3, GoesUncreating DEF ScNoJobs
<1> QED BY <1>3, <1>4, <1>5

\* CreateJob, alone, cancels the active job before it inserts the next.
LEMMA CreateStepKeeps ==
    ASSUME ScheduleTypes, OneCreates, NEW p \in ScProcs, ScCreateStep(p) PROVE OneCreates'
<1>1. scCall[p] \in CallType /\ \A q \in ScProcs : scCall[q] \in CallType
  BY TypesHeld DEF CallsTyped
<1>2. ASSUME NEW call, ScGoes(p, call)
      PROVE  scCall'[p] = call /\ \A q \in ScProcs \ {p} : scCall'[q] = scCall[q]
  BY <1>2, TypesHeld DEF ScGoes, CallsTyped
<1>3. ASSUME ScGoesTo(p, "inserts")
      PROVE  scCall'[p].at = "inserts" /\ \A q \in ScProcs \ {p} : scCall'[q] = scCall[q]
  BY <1>1, <1>2, <1>3 DEF ScGoesTo, CallType
<1>4. ASSUME NEW created \in BOOLEAN, ScReturns(p, created) PROVE Uncreating /\ ~ScCreating(p)'
  <2> DEFINE next == IF p # "loop" THEN ScIdle
                     ELSE IF created THEN [scCall[p] EXCEPT !.at = "advances", !.job = 0]
                     ELSE [ScIdle EXCEPT !.at = "works", !.todo = scCall[p].todo]
  <2>1. next.at \in {"idle", "advances", "works"}
    BY <1>1 DEF ScIdle, CallType
  <2>2. ScGoes(p, next)
    BY <1>4 DEF ScReturns
  <2> HIDE DEF next
  <2> QED BY <1>2, <2>1, <2>2 DEF Uncreating, ScCreating
<1>5. CASE ScFindExisting(p)
  <2>1. scRaced' = (scRaced \/ \E q \in ScProcs \ {p} : ScCreating(q)) /\ scJob' = scJob
    BY <1>5 DEF ScFindExisting
  <2>2. ScActive' = ScActive
    BY <2>1 DEF ScActive
  <2>3. SUFFICES ASSUME ~scRaced' PROVE OneCreates'
    BY DEF OneCreates
  <2>4. ~scRaced /\ (\A q \in ScProcs \ {p} : ~ScCreating(q)) /\ \A j, k \in ScActive : j = k
    BY <2>1, <2>3 DEF OneCreates
  <2>5. \A q \in ScProcs \ {p} : scCall'[q] = scCall[q]
    BY <1>2, <1>5 DEF ScFindExisting, ScGoesTo
  <2>6. CASE ScActive = {} /\ ScGoesTo(p, "inserts")
    <3>1. \A q \in ScProcs : q # p => scCall'[q].at \notin {"cancels", "inserts"}
      BY <2>4, <2>5 DEF ScCreating
    <3> QED BY <1>3, <2>2, <2>4, <2>6, <3>1 DEF OneCreates, ScCreating, ScAt
  <2>7. ASSUME NEW j \in ScActive, ScGoes(p, [scCall[p] EXCEPT !.at = "cancels", !.job = j])
        PROVE  OneCreates'
    <3>1. scCall'[p].at = "cancels" /\ scCall'[p].job = j
      <4> DEFINE n == [scCall[p] EXCEPT !.at = "cancels", !.job = j]
      <4>1. n.at = "cancels" /\ n.job = j
        BY <1>1 DEF CallType
      <4>2. ScGoes(p, n)
        BY <2>7
      <4> HIDE DEF n
      <4> QED BY <1>2, <4>1, <4>2
    <3>2. \A q \in ScProcs : q # p => scCall'[q].at \notin {"cancels", "inserts"}
      BY <2>4, <2>5 DEF ScCreating
    <3> QED BY <2>2, <2>4, <2>7, <3>1, <3>2 DEF OneCreates, ScCreating, ScAt
  <2> QED BY <1>5, <2>6, <2>7 DEF ScFindExisting
<1>6. CASE ScExistingStays(p)
  <2>1. scRaced'
    BY <1>6, Zenon DEF ScExistingStays
  <2> QED BY <2>1 DEF OneCreates
<1>7. CASE ScCancelExisting(p)
  <2> DEFINE job == scCall[p].job
  <2>1. /\ scCall[p].at = "cancels" /\ ScGoesTo(p, "inserts") /\ scRaced' = scRaced
        /\ scJob' = IF scJob[job].status \in {"pending", "running"}
                    THEN [scJob EXCEPT ![job].status = "over"] ELSE scJob
    BY <1>7 DEF ScCancelExisting, ScAt
  <2>2. SUFFICES ASSUME ~scRaced' PROVE OneCreates'
    BY DEF OneCreates
  <2>3. ScActive \subseteq {job} /\ \A q \in ScProcs \ {p} : ~ScCreating(q)
    BY <2>1, <2>2 DEF OneCreates, ScAt, ScCreating
  <2>4. ScActive' = {}
    BY <2>1, <2>3, TypesHeld DEF ScActive, JobsType
  <2>5. \A q \in ScProcs : q # p => scCall'[q].at \notin {"cancels", "inserts"}
    BY <1>3, <2>1, <2>3 DEF ScCreating
  <2> QED BY <1>3, <2>1, <2>4, <2>5 DEF OneCreates, ScCreating, ScAt
<1>8. CASE ScInsertJob(p)
  <2>1. PICK n \in 1..ScMaxJobs, status \in {"pending", "over"} :
          /\ ScAt(p, "inserts") /\ ScReturns(p, TRUE) /\ scRaced' = scRaced
          /\ scJob' = [scJob EXCEPT ![n] =
                [status |-> status, by |-> IF p = "loop" THEN scCall[p].sched ELSE ScNone]]
    BY <1>8 DEF ScInsertJob
  <2>2. SUFFICES ASSUME ~scRaced' PROVE OneCreates'
    BY DEF OneCreates
  <2>3. ScActive = {} /\ \A q \in ScProcs \ {p} : ~ScCreating(q)
    BY <2>1, <2>2 DEF OneCreates, ScAt, ScCreating
  <2>4. ScActive' \subseteq {n}
    BY <2>1, <2>3, TypesHeld DEF ScActive, JobsType
  <2>5. \A q \in ScProcs : scCall'[q].at \notin {"cancels", "inserts"}
    BY <1>4, <2>1, <2>3 DEF ScCreating, Uncreating
  <2> QED BY <2>4, <2>5 DEF OneCreates, ScCreating, ScAt
<1>9. CASE ScInsertFails(p)
  <2>1. Uncreating /\ UNCHANGED <<scJob, scRaced>>
    BY <1>4, <1>9 DEF ScInsertFails
  <2>2. ScActive' = ScActive
    BY <2>1 DEF ScActive
  <2> QED BY <2>1, <2>2, QuietCreates
<1> QED BY <1>5, <1>6, <1>7, <1>8, <1>9 DEF ScCreateStep

\* Steps of jobs and schedulers by themselves add no active job.
LEMMA OwnKeeps == ASSUME ScheduleTypes, OneCreates, ScOwnStep PROVE OneCreates'
<1>1. ScActive' \subseteq ScActive
  BY TypesHeld DEF ScOwnStep, ScDisconnect, ScMarkRunning, ScEndJob, ScBecomeDue, ScAge,
                   ScDeleteScheduler, ScNoJobs, ScActive, JobsType
<1>2. scRaced' = scRaced
  BY DEF ScOwnStep, ScDisconnect, ScMarkRunning, ScEndJob, ScBecomeDue, ScAge,
         ScDeleteScheduler, ScNoJobs
<1>3. \A p \in ScProcs : scCall'[p].at = scCall[p].at /\ scCall'[p].job = scCall[p].job
                         /\ scCall'[p].seen = scCall[p].seen
  BY OwnCalls
<1> QED BY <1>1, <1>2, <1>3, QuietCreates DEF Uncreating

\* Every step keeps at most one job active.
LEMMA OneCreatesStep == ScheduleTypes /\ OneCreates /\ [SchedulesNext]_schedVars => OneCreates'
<1> SUFFICES ASSUME ScheduleTypes, OneCreates, [SchedulesNext]_schedVars PROVE OneCreates'
  OBVIOUS
<1>1. CASE ScLoopStep \/ \E c \in ScCalls : ScRequestStep(c) \/ ScSiteStep(c)
  <2>1. Uncreating /\ scRaced' = scRaced /\ scJob' = scJob
    BY <1>1, OthersUncreating
  <2>2. ScActive' = ScActive
    BY <2>1 DEF ScActive
  <2> QED BY <2>1, <2>2, QuietCreates
<1>2. CASE UNCHANGED schedVars
  BY <1>2 DEF schedVars, OneCreates, ScActive, ScCreating, ScAt
<1> QED BY <1>1, <1>2, WhoSteps, CreateStepKeeps, OwnKeeps

-----------------------------------------------------------------------------
(* Schedules: one handler at the site *)

\* Unless two handlers of the site overlapped, or one failed half-way, only one is under
\* way; what it has read and will save has its webhook, and so has the row until it saves.
OneAtSite ==
    ~scTorn =>
        /\ \A c, d \in ScCalls : ScAtSite(c) /\ ScAtSite(d) => c = d
        /\ \A c \in ScCalls : ScAtSite(c) => Heard(scCall[c].seen)
        /\ (\A c \in ScCalls : scCall[c].at \notin {"saves", "saves-job"}) => Heard(scSetting)

\* Steps that leave the site and its handlers alone.
LEMMA QuietSite ==
    ASSUME OneAtSite, UNCHANGED <<scTorn, scHook>>,
           scSetting'.auto => scSetting.auto /\ scSetting'.hook = scSetting.hook,
           \A c \in ScCalls : \/ scCall'[c].at = scCall[c].at /\ scCall'[c].seen = scCall[c].seen
                              \/ ~ScAtSite(c) /\ ~ScAtSite(c)'
    PROVE  OneAtSite'
BY DEF OneAtSite, Heard, ScAtSite

\* A handler of the site reads while no other one is at it, and saves what it has read.
LEMMA SiteKeeps ==
    ASSUME ScheduleTypes, OneAtSite, NEW c \in ScCalls, ScSiteStep(c) PROVE OneAtSite'
<1>1. PICK next : /\ ScGoes(c, next) /\ next.at \in SitePlaces \cup {"idle", "creates"}
                  /\ SiteMoves(c, next)
  BY SiteForms
<1>2. scCall'[c] = next /\ \A d \in ScCalls \ {c} : scCall'[d] = scCall[d]
  BY <1>1, TypesHeld DEF ScGoes, CallsTyped, ScProcs
<1>3. /\ \A d \in ScCalls \ {c} : ScAtSite(d)' = ScAtSite(d)
      /\ ScAtSite(c)' = (next.at \in SitePlaces)
  BY <1>2 DEF ScAtSite, SitePlaces
<1>4. SUFFICES ASSUME ~scTorn' PROVE OneAtSite'
  BY DEF OneAtSite
<1>5. CASE SiteBegins(c, next)
  <2>1. ~scTorn /\ \A d \in ScCalls : ~ScAtSite(d)
    BY <1>4, <1>5 DEF SiteBegins
  <2>2. Heard(scSetting)
    BY <2>1 DEF OneAtSite, ScAtSite
  <2>3. Heard(scSetting)' /\ Heard(scCall[c].seen)'
    BY <1>2, <1>5, <2>2 DEF SiteBegins, Heard
  <2> QED BY <1>2, <1>3, <2>1, <2>3 DEF OneAtSite
<1>6. CASE SiteGoesOn(c, next)
  <2>1. /\ ~scTorn /\ scHook' = scHook /\ scCall[c].at \notin {"saves", "saves-job"}
        /\ next.at \in SitePlaces => ScAtSite(c) /\ next.seen = scCall[c].seen
        /\ scSetting'.auto = scSetting.auto /\ scSetting'.hook = scSetting.hook
    BY <1>4, <1>6 DEF SiteGoesOn
  <2>2. \A d \in ScCalls : ScAtSite(d)' => ScAtSite(d) /\ scCall'[d].seen = scCall[d].seen
    BY <1>2, <1>3, <2>1
  <2>3. \A d \in ScCalls : scCall[d].at \in {"saves", "saves-job"} => scCall'[d].at = scCall[d].at
    BY <1>2, <2>1
  <2> QED BY <2>1, <2>2, <2>3 DEF OneAtSite, Heard
<1>7. CASE SiteHooks(c, next)
  <2>1. /\ ~scTorn /\ ScAtSite(c) /\ next.at \in {"saves", "saves-job"}
        /\ next.seen.auto => next.seen.hook \in scHook'
    BY <1>4, <1>7 DEF SiteHooks
  <2>2. \A d \in ScCalls : ScAtSite(d) => d = c
    BY <2>1 DEF OneAtSite
  <2> QED BY <1>2, <1>3, <2>1, <2>2 DEF OneAtSite, Heard
<1>8. CASE SiteSaves(c, next)
  <2>1. /\ ~scTorn /\ ScAtSite(c) /\ next.at \notin SitePlaces /\ scHook' = scHook
        /\ scSetting'.auto = scCall[c].seen.auto /\ scSetting'.hook = scCall[c].seen.hook
    BY <1>4, <1>8 DEF SiteSaves, ScAtSite
  <2>2. \A d \in ScCalls : ScAtSite(d) => d = c
    BY <2>1 DEF OneAtSite
  <2>3. Heard(scCall[c].seen)
    BY <2>1 DEF OneAtSite
  <2> QED BY <1>2, <1>3, <2>1, <2>2, <2>3 DEF OneAtSite, Heard
<1> QED BY <1>1, <1>4, <1>5, <1>6, <1>7, <1>8 DEF SiteMoves

\* CreateJob, the loop and the other requests leave the site's handlers alone.
LEMMA OthersAtSite ==
    ASSUME ScheduleTypes,
           \/ \E p \in ScProcs : ScCreateStep(p)
           \/ ScLoopStep \/ \E c \in ScCalls : ScRequestStep(c)
    PROVE  /\ UNCHANGED <<scTorn, scHook, scSetting>>
           /\ \A c \in ScCalls : scCall'[c] = scCall[c] \/ (~ScAtSite(c) /\ ~ScAtSite(c)')
<1>1. \A p \in ScProcs : scCall[p] \in CallType
  BY TypesHeld DEF CallsTyped
<1>2. ScCalls \subseteq ScProcs /\ ScIdle.at = "idle"
  BY DEF ScProcs, ScIdle
<1>3. ASSUME NEW p \in ScProcs, NEW next, ScGoes(p, next), scCall[p].at \notin SitePlaces,
             next.at \notin SitePlaces
      PROVE  \A c \in ScCalls : scCall'[c] = scCall[c] \/ (~ScAtSite(c) /\ ~ScAtSite(c)')
  BY <1>2, <1>3, TypesHeld DEF ScGoes, CallsTyped, ScAtSite, SitePlaces
<1>4. ASSUME NEW p \in ScProcs, ScCreateStep(p)
      PROVE  /\ UNCHANGED <<scTorn, scHook, scSetting>>
             /\ \A c \in ScCalls : scCall'[c] = scCall[c] \/ (~ScAtSite(c) /\ ~ScAtSite(c)')
  <2>1. scCall[p].at \in {"creates", "cancels", "inserts"}
    BY <1>4 DEF ScCreateStep, ScFindExisting, ScExistingStays, ScCancelExisting, ScInsertJob,
                ScInsertFails, ScAt
  <2>2. UNCHANGED <<scTorn, scHook, scSetting>>
    BY <1>4 DEF ScCreateStep, ScFindExisting, ScExistingStays, ScCancelExisting, ScInsertJob,
                ScInsertFails, ScJobsOnly
  <2>3. ASSUME NEW created \in BOOLEAN, ScReturns(p, created)
        PROVE  \E next : ScGoes(p, next) /\ next.at \in {"idle", "advances", "works"}
    <3> DEFINE next == IF p # "loop" THEN ScIdle
                       ELSE IF created THEN [scCall[p] EXCEPT !.at = "advances", !.job = 0]
                       ELSE [ScIdle EXCEPT !.at = "works", !.todo = scCall[p].todo]
    <3>1. next.at \in {"idle", "advances", "works"}
      BY <1>1 DEF ScIdle, CallType
    <3>2. ScGoes(p, next)
      BY <2>3 DEF ScReturns
    <3> HIDE DEF next
    <3> QED BY <3>1, <3>2
  <2>4. ASSUME ScGoesTo(p, "inserts") PROVE \E next : ScGoes(p, next) /\ next.at = "inserts"
    <3> DEFINE next == [scCall[p] EXCEPT !.at = "inserts"]
    <3>1. next.at = "inserts" /\ ScGoes(p, next)
      BY <1>1, <2>4 DEF ScGoesTo, CallType
    <3> HIDE DEF next
    <3> QED BY <3>1
  <2>5. ASSUME NEW j, ScGoes(p, [scCall[p] EXCEPT !.at = "cancels", !.job = j])
        PROVE  \E next : ScGoes(p, next) /\ next.at = "cancels"
    <3> DEFINE next == [scCall[p] EXCEPT !.at = "cancels", !.job = j]
    <3>1. next.at = "cancels" /\ ScGoes(p, next)
      BY <1>1, <2>5 DEF CallType
    <3> HIDE DEF next
    <3> QED BY <3>1
  <2>6. PICK next : ScGoes(p, next)
                    /\ next.at \in {"idle", "advances", "works", "inserts", "cancels"}
    <3>1. CASE ScFindExisting(p)
      BY <2>4, <2>5, <3>1 DEF ScFindExisting
    <3>2. CASE ScExistingStays(p) \/ ScCancelExisting(p)
      BY <2>4, <3>2 DEF ScExistingStays, ScCancelExisting
    <3>3. CASE ScInsertJob(p) \/ ScInsertFails(p)
      BY <2>3, <3>3 DEF ScInsertJob, ScInsertFails
    <3> QED BY <1>4, <3>1, <3>2, <3>3 DEF ScCreateStep
  <2>7. scCall[p].at \notin SitePlaces /\ next.at \notin SitePlaces
    BY <2>1, <2>6 DEF SitePlaces
  <2> QED BY <1>3, <2>2, <2>6, <2>7
<1>5. CASE ScLoopStep
  <2>1. \A c \in ScCalls : scCall'[c] = scCall[c]
    BY <1>2, <1>5, ScAssumption, TypesHeld DEF ScLoopStep, ScTick, ScTake, ScAdvance, ScTickDone,
                                               ScGoes, CallsTyped
  <2>2. UNCHANGED <<scTorn, scHook, scSetting>>
    BY <1>5 DEF ScLoopStep, ScTick, ScTake, ScAdvance, ScTickDone
  <2> QED BY <2>1, <2>2
<1>6. ASSUME NEW c \in ScCalls, ScRequestStep(c)
      PROVE  /\ UNCHANGED <<scTorn, scHook, scSetting>>
             /\ \A d \in ScCalls : scCall'[d] = scCall[d] \/ (~ScAtSite(d) /\ ~ScAtSite(d)')
  <2>1. UNCHANGED <<scTorn, scHook, scSetting>>
    BY <1>6 DEF ScRequestStep, ScRequestJob, ScPublish, ScCreateScheduler, ScUpdateScheduler,
                ScConflict, ScReadScheduler
  <2>2. scCall[c].at \in {"idle", "updates"}
    BY <1>2, <1>6 DEF ScRequestStep, ScRequestJob, ScPublish, ScCreateScheduler, ScUpdateScheduler,
                      ScConflict, ScReadScheduler, ScBegins, ScAt
  <2>3. PICK next : ScGoes(c, next) /\ next.at \in {"idle", "creates", "adds", "updates"}
    BY <1>6, RequestGoes
  <2>4. scCall[c].at \notin SitePlaces /\ next.at \notin SitePlaces
    BY <2>2, <2>3 DEF SitePlaces
  <2> QED BY <1>2, <1>3, <2>1, <2>3, <2>4
<1> QED BY <1>4, <1>5, <1>6

\* Every step keeps the site heard.
LEMMA OneAtSiteStep == ScheduleTypes /\ OneAtSite /\ [SchedulesNext]_schedVars => OneAtSite'
<1> SUFFICES ASSUME ScheduleTypes, OneAtSite, [SchedulesNext]_schedVars PROVE OneAtSite'
  OBVIOUS
<1>1. CASE \/ \E p \in ScProcs : ScCreateStep(p)
           \/ ScLoopStep \/ \E c \in ScCalls : ScRequestStep(c)
  BY <1>1, OthersAtSite, QuietSite
<1>2. CASE ScOwnStep
  <2>1. \A c \in ScCalls : scCall'[c].at = scCall[c].at /\ scCall'[c].seen = scCall[c].seen
    BY <1>2, OwnCalls DEF ScProcs
  <2>2. UNCHANGED <<scTorn, scHook>>
    BY <1>2 DEF ScOwnStep, ScDisconnect, ScMarkRunning, ScEndJob, ScBecomeDue, ScAge,
                ScDeleteScheduler, ScJobsOnly
  <2>3. scSetting'.auto => scSetting.auto /\ scSetting'.hook = scSetting.hook
    <3>1. CASE ScDisconnect
      <4>1. scSetting' = ScNoSetting
        BY <3>1 DEF ScDisconnect
      <4>2. scSetting'.auto = FALSE
        BY <4>1 DEF ScNoSetting
      <4> QED BY <4>2
    <3>2. ASSUME NEW s \in ScSchedulers, ScDeleteScheduler(s)
          PROVE  scSetting'.auto => scSetting.auto /\ scSetting'.hook = scSetting.hook
      BY <3>2, DeletedTyped DEF ScDeleteScheduler
    <3>3. CASE \/ \E j \in 1..ScMaxJobs : ScMarkRunning(j) \/ ScEndJob(j)
               \/ \E s \in ScSchedulers : ScBecomeDue(s) \/ ScAge(s)
      <4>1. scSetting' = scSetting
        BY <3>3 DEF ScMarkRunning, ScEndJob, ScBecomeDue, ScAge, ScJobsOnly
      <4> QED BY <4>1
    <3> QED BY <1>2, <3>1, <3>2, <3>3 DEF ScOwnStep
  <2> QED BY <2>1, <2>2, <2>3, QuietSite
<1>3. CASE \E c \in ScCalls : ScSiteStep(c)
  BY <1>3, SiteKeeps
<1>4. CASE UNCHANGED schedVars
  BY <1>4 DEF schedVars, OneAtSite, ScAtSite, Heard
<1> QED BY <1>1, <1>2, <1>3, <1>4, WhoSteps

-----------------------------------------------------------------------------
(* Schedules: theorems *)

SchedulesInv == ScheduleTypes /\ OneCreates /\ OneAtSite

\* The initial states satisfy the invariant: there is no job and no webhook.
LEMMA InitSchedules == SchedulesInit => SchedulesInv
<1> SUFFICES ASSUME SchedulesInit PROVE OneCreates /\ OneAtSite
  BY InitTyped DEF SchedulesInv
<1>1. \A p \in ScProcs : scCall[p].at = "idle"
  BY DEF SchedulesInit, ScIdle
<1>2. ScActive = {}
  BY DEF SchedulesInit, ScActive, ScNone
<1>3. Heard(scSetting)
  <2>1. scSetting = ScNoSetting
    BY DEF SchedulesInit
  <2>2. scSetting.auto = FALSE
    BY <2>1 DEF ScNoSetting
  <2> QED BY <2>2 DEF Heard
<1> QED BY <1>1, <1>2, <1>3 DEF OneCreates, OneAtSite, ScCreating, ScAt, ScAtSite, ScProcs

\* Every step keeps the invariant.
LEMMA SchedulesStep == SchedulesInv /\ [SchedulesNext]_schedVars => SchedulesInv'
BY ScTypeStep, OneCreatesStep, OneAtSiteStep DEF SchedulesInv

\* Jobs, schedulers, site and calls keep their types, for any number of them.
THEOREM SchedulesTypeCorrect == SchedulesSpec => []SchedulesTypeOK
<1>1. SchedulesInv => SchedulesTypeOK
  BY DEF SchedulesInv, ScheduleTypes
<1> QED BY <1>1, InitSchedules, SchedulesStep, PTL DEF SchedulesSpec

\* CreateJob of manager.go leaves a domain at most one active job, whatever requests,
\* scheduler loop and webhooks do, unless two of its calls raced or one could not cancel.
THEOREM OneActiveJob == SchedulesSpec => []SingleActiveJob
<1>1. SchedulesInv => SingleActiveJob
  <2> SUFFICES ASSUME SchedulesInv, ~scRaced PROVE Cardinality(ScActive) =< 1
    BY DEF SingleActiveJob
  <2>1. \A j, k \in ScActive : j = k
    BY DEF SchedulesInv, OneCreates
  <2>2. CASE ScActive = {}
    BY <2>2, FS_EmptySet
  <2>3. ASSUME NEW j \in ScActive PROVE Cardinality(ScActive) =< 1
    <3>1. ScActive = {j}
      BY <2>1
    <3>2. Cardinality({j}) = 1
      BY FS_Singleton
    <3> QED BY <3>1, <3>2
  <2> QED BY <2>2, <2>3
<1> QED BY <1>1, InitSchedules, SchedulesStep, PTL DEF SchedulesSpec

\* The handlers of webflow_sites.go, one at a time, leave a site that is to be crawled on
\* publish with a webhook that tells of publishes.
THEOREM PublishIsHeard == SchedulesSpec => []PublishHeard
<1>1. SchedulesInv => PublishHeard
  <2> SUFFICES ASSUME SchedulesInv, ~scTorn, \A c \in ScCalls : ~ScAtSite(c)
               PROVE  Heard(scSetting)
    BY DEF PublishHeard, Heard
  <2> QED BY DEF SchedulesInv, OneAtSite, ScAtSite
<1> QED BY <1>1, InitSchedules, SchedulesStep, PTL DEF SchedulesSpec

-----------------------------------------------------------------------------
(* Schedules: what keeps a schedule that was removed *)

ScMade(s) == \E j \in 1..ScMaxJobs : scJob[j].by = s

\* A schedule that was removed from the site is gone from schedulers, or has created a
\* job, whose scheduler_id the key holds on to.
RemovedUnlessItMadeJobs ==
    \A s \in scRemoved : s # ScNone /\ (scSched[s] = "deleted" \/ ScMade(s))

\* A name in use is that of a row which was added once; jobs not created yet are nobody's.
WasAdded(s) == s # ScNone => scSched[s] # ScNone

RefsKnown ==
    /\ WasAdded(scSetting.sched)
    /\ \A c \in ScCalls : WasAdded(scCall[c].sched)
    /\ \A j \in 1..ScMaxJobs : scJob[j].status = ScNone => scJob[j].by = ScNone

\* What a step has to leave alone: rows are added once and deleted for good, and a job
\* does not change hands.
Lasting ==
    /\ \A s \in ScSchedulers \cup {ScNone} :
          /\ WasAdded(s) => WasAdded(s)'
          /\ s \in ScSchedulers /\ scSched[s] = "deleted" => scSched'[s] = "deleted"
    /\ \A j \in 1..ScMaxJobs : /\ scJob[j].by # ScNone => scJob'[j].by = scJob[j].by
                               /\ scJob'[j].status = ScNone => scJob'[j].by = ScNone

\* Such a step keeps the references, and what was removed before stays as it was.
LEMMA LastingKeeps ==
    ASSUME ScheduleTypes, RefsKnown, RemovedUnlessItMadeJobs, Lasting,
           \A s \in scRemoved' : s \in scRemoved \/ (s # ScNone /\ (scSched'[s] = "deleted" \/ ScMade(s))),
           scSetting'.sched = scSetting.sched \/ WasAdded(scSetting.sched)',
           \A c \in ScCalls : scCall'[c].sched = scCall[c].sched \/ WasAdded(scCall[c].sched)'
    PROVE  RefsKnown' /\ RemovedUnlessItMadeJobs'
<1>1. /\ scSetting.sched \in ScSchedulers \cup {ScNone} /\ scRemoved \subseteq ScSchedulers
      /\ \A c \in ScCalls : scCall[c].sched \in ScSchedulers \cup {ScNone}
    BY TypesHeld DEF CallsTyped, CallType, SettingType, ScProcs
<1>2. \A s : s # ScNone /\ ScMade(s) => ScMade(s)'
    BY DEF Lasting, ScMade
<1>3. RemovedUnlessItMadeJobs'
    BY <1>1, <1>2 DEF RemovedUnlessItMadeJobs, Lasting
<1>4. WasAdded(scSetting.sched)'
    BY <1>1 DEF RefsKnown, Lasting, WasAdded
<1>5. ASSUME NEW c \in ScCalls PROVE WasAdded(scCall[c].sched)'
    BY <1>1 DEF RefsKnown, Lasting, WasAdded
<1> QED
    BY <1>3, <1>4, <1>5 DEF RefsKnown, Lasting

\* The steps of CreateJob add a job where there was none, and end jobs.
LEMMA CreateLasts ==
    ASSUME ScheduleTypes, RefsKnown, RemovedUnlessItMadeJobs,
           NEW p \in ScProcs, ScCreateStep(p)
    PROVE  RefsKnown' /\ RemovedUnlessItMadeJobs'
<1>1. ScJobsOnly
    BY DEF ScCreateStep, ScFindExisting, ScExistingStays, ScCancelExisting, ScInsertJob,
       ScInsertFails
<1>2. UNCHANGED <<scSched, scSetting, scRemoved>>
    BY <1>1 DEF ScJobsOnly
<1>3. scJob \in JobsType /\ scCall \in [ScProcs -> CallType]
    BY TypesHeld DEF CallsTyped
<1>4. \A j \in 1..ScMaxJobs : /\ scJob[j].by # ScNone => scJob'[j].by = scJob[j].by
                              /\ scJob'[j].status = ScNone => scJob'[j].by = ScNone
  <2>1. CASE UNCHANGED scJob
      BY <2>1 DEF RefsKnown
  <2>2. CASE ScCancelExisting(p)
    <3>1. \/ UNCHANGED scJob
          \/ \E k : scJob' = [scJob EXCEPT ![k].status = "over"]
        BY <2>2 DEF ScCancelExisting
    <3>2. ASSUME NEW k, scJob' = [scJob EXCEPT ![k].status = "over"], NEW j \in 1..ScMaxJobs
          PROVE  /\ scJob'[j].by = scJob[j].by
                 /\ scJob'[j].status = ScNone => scJob[j].status = ScNone
        BY <3>2, <1>3 DEF JobsType, ScNone
    <3> QED
        BY <2>1, <3>1, <3>2 DEF RefsKnown
  <2>3. CASE ScInsertJob(p)
    <3>1. PICK n \in 1..ScMaxJobs, status \in {"pending", "over"} :
              /\ scJob[n].status = ScNone
              /\ scJob' = [scJob EXCEPT ![n] =
                    [status |-> status, by |-> IF p = "loop" THEN scCall[p].sched ELSE ScNone]]
        BY <2>3 DEF ScInsertJob
    <3>2. scJob[n].by = ScNone /\ scJob'[n].status = status
        BY <1>3, <3>1 DEF RefsKnown, JobsType
    <3>3. \A j \in 1..ScMaxJobs \ {n} : scJob'[j] = scJob[j]
        BY <1>3, <3>1 DEF JobsType
    <3> QED
        BY <3>1, <3>2, <3>3 DEF RefsKnown, ScNone
  <2> QED
      BY <2>1, <2>2, <2>3 DEF ScCreateStep, ScFindExisting, ScExistingStays, ScInsertFails
<1>5. Lasting
    BY <1>2, <1>4 DEF Lasting, WasAdded
<1>6. \E next : /\ ScGoes(p, next)
                /\ p = "loop" \/ next.sched \in {scCall[p].sched, ScNone}
  <2>1. \/ \E at : ScGoes(p, [scCall[p] EXCEPT !.at = at])
        \/ \E j : ScGoes(p, [scCall[p] EXCEPT !.at = "cancels", !.job = j])
        \/ ScGoes(p, ScIdle)
        \/ p = "loop" /\ \E next : ScGoes(p, next)
      BY DEF ScCreateStep, ScFindExisting, ScExistingStays, ScCancelExisting, ScInsertJob,
         ScInsertFails, ScReturns, ScGoesTo
  <2>2. /\ \A at : [scCall[p] EXCEPT !.at = at].sched = scCall[p].sched
        /\ \A j : [scCall[p] EXCEPT !.at = "cancels", !.job = j].sched = scCall[p].sched
        /\ ScIdle.sched = ScNone
      BY <1>3 DEF CallType, ScIdle
  <2> QED
      BY <2>1, <2>2
<1>7. \A c \in ScCalls : scCall'[c].sched \in {scCall[c].sched, ScNone}
    BY <1>3, <1>6, ScAssumption DEF ScGoes, ScProcs
<1> QED
    BY <1>2, <1>5, <1>7, LastingKeeps DEF WasAdded

\* A step of a call that leaves the jobs alone, adds or rewrites a row, or deletes one
\* that made no job.
LEMMA RowsLast ==
    ASSUME ScheduleTypes, RefsKnown, RemovedUnlessItMadeJobs, UNCHANGED scJob,
           NEW p \in ScProcs, NEW next, ScGoes(p, next),
           p # "loop" => next.sched = scCall[p].sched \/ WasAdded(next.sched)',
           \A s \in ScSchedulers : \/ scSched'[s] = scSched[s]
                                   \/ scSched[s] # "deleted" /\ scSched'[s] # ScNone,
           scSetting'.sched = scSetting.sched \/ WasAdded(scSetting.sched)',
           \A s \in scRemoved' : s \in scRemoved \/ (s # ScNone /\ (scSched'[s] = "deleted" \/ ScMade(s)))
    PROVE  RefsKnown' /\ RemovedUnlessItMadeJobs'
<1>1. Lasting
    BY DEF Lasting, WasAdded, RefsKnown
<1>2. \A c \in ScCalls : scCall'[c].sched = scCall[c].sched \/ WasAdded(scCall[c].sched)'
    BY TypesHeld, ScAssumption DEF ScGoes, ScProcs, CallsTyped
<1> QED
    BY <1>1, <1>2, LastingKeeps

\* The loop writes no row and no setting.
LEMMA LoopLasts ==
    ASSUME ScheduleTypes, RefsKnown, RemovedUnlessItMadeJobs, ScLoopStep
    PROVE  RefsKnown' /\ RemovedUnlessItMadeJobs'
<1>1. UNCHANGED <<scJob, scSched, scSetting, scRemoved>> /\ \E next : ScGoes("loop", next)
    BY DEF ScLoopStep, ScTick, ScTake, ScAdvance, ScTickDone, ScNoJobs
<1>2. PICK next : ScGoes("loop", next)
    BY <1>1
<1> QED
    BY <1>1, <1>2, RowsLast DEF ScProcs

\* A request rewrites a row that is there.
LEMMA RequestLasts ==
    ASSUME ScheduleTypes, RefsKnown, RemovedUnlessItMadeJobs, NEW c \in ScCalls, ScRequestStep(c)
    PROVE  RefsKnown' /\ RemovedUnlessItMadeJobs'
<1>0. c \in ScProcs /\ CallsTyped
    BY TypesHeld DEF ScProcs
<1>1. CASE \/ ScRequestJob(c) \/ ScPublish(c) \/ ScCreateScheduler(c) \/ ScConflict(c)
  <2>1. UNCHANGED <<scJob, scSched, scSetting, scRemoved>>
      BY <1>1 DEF ScRequestJob, ScPublish, ScCreateScheduler, ScConflict, ScNoJobs
  <2>2. \E next : ScGoes(c, next) /\ next.sched = ScNone
      BY <1>1 DEF ScRequestJob, ScPublish, ScCreateScheduler, ScConflict, ScBegins, ScIdle
  <2> QED
      BY <1>0, <2>1, <2>2, RowsLast DEF WasAdded
<1>2. ASSUME NEW s \in ScSchedulers, NEW status, ScReadScheduler(c, s, status)
      PROVE  RefsKnown' /\ RemovedUnlessItMadeJobs'
  <2>1. UNCHANGED <<scJob, scSched, scSetting, scRemoved>> /\ s \in ScLive
      BY <1>2 DEF ScReadScheduler, ScNoJobs
  <2>2. \E next : ScGoes(c, next) /\ next.sched = s
    <3> DEFINE next == [ScIdle EXCEPT !.at = "updates", !.sched = s, !.status = status,
                                      !.due = s \in scDue]
    <3>1. ScGoes(c, next)
        BY <1>2 DEF ScReadScheduler, ScBegins
    <3>2. next.sched = s
        BY DEF ScIdle
    <3> QED
        BY <3>1, <3>2
  <2> QED
      BY <1>0, <2>1, <2>2, RowsLast DEF WasAdded, ScLive, ScNone
<1>3. CASE ScUpdateScheduler(c)
  <2>1. UNCHANGED <<scJob, scSetting>> /\ scRemoved' \subseteq scRemoved /\ ScGoes(c, ScIdle)
      BY <1>3 DEF ScUpdateScheduler, ScNoJobs
  <2>2. scCall[c].status \in {"enabled", "disabled"}
      BY <1>0, <1>3 DEF CallsTyped, ScUpdateScheduler, ScAt
  <2>3. \A s \in ScSchedulers : \/ scSched'[s] = scSched[s]
                                \/ scSched[s] # "deleted" /\ scSched'[s] # ScNone
      BY <1>3, <2>2, TypesHeld DEF ScUpdateScheduler, ScLive, ScNone
  <2>4. ScIdle.sched = ScNone
      BY DEF ScIdle
  <2> QED
      BY <1>0, <2>1, <2>3, <2>4, RowsLast DEF WasAdded
<1> QED
    BY <1>1, <1>2, <1>3 DEF ScRequestStep

\* A handler of the site removes a schedule that can be deleted by deleting it; any
\* other one that is still there has made a job.
LEMMA SiteLasts ==
    ASSUME ScheduleTypes, RefsKnown, RemovedUnlessItMadeJobs, NEW c \in ScCalls, ScSiteStep(c)
    PROVE  RefsKnown' /\ RemovedUnlessItMadeJobs'
<1>0. /\ c \in ScProcs /\ CallsTyped /\ scCall[c] \in CallType
      /\ scSched \in [ScSchedulers -> {ScNone, "enabled", "disabled", "deleted"}]
      /\ scSetting \in SettingType
    BY TypesHeld DEF ScProcs, CallsTyped
<1>1. UNCHANGED scJob
    BY DEF ScSiteStep, ScSite, ScListSchedulers, ScReschedule, ScAdd, ScUnschedule,
       ScRegisterHook, ScDeleteHook, ScSave, ScGiveUp, ScNoJobs
<1>2. ASSUME NEW at, ScSite(c, at) PROVE RefsKnown' /\ RemovedUnlessItMadeJobs'
  <2>1. UNCHANGED <<scSched, scSetting, scRemoved>>
      BY <1>2 DEF ScSite
  <2>2. \E next : ScGoes(c, next) /\ next.sched = scSetting.sched
    <3> DEFINE next == [ScIdle EXCEPT !.at = at, !.seen = scSetting, !.sched = scSetting.sched]
    <3>1. ScGoes(c, next)
        BY <1>2 DEF ScSite, ScBegins
    <3>2. next.sched = scSetting.sched
        BY DEF ScIdle
    <3> QED
        BY <3>1, <3>2
  <2>3. PICK next : ScGoes(c, next) /\ next.sched = scSetting.sched
      BY <2>2
  <2>4. WasAdded(next.sched)'
      BY <2>1, <2>3 DEF RefsKnown, WasAdded
  <2> QED
      BY <1>0, <1>1, <2>1, <2>3, <2>4, RowsLast
<1>3. CASE ScListSchedulers(c)
  <2>1. UNCHANGED <<scSched, scSetting, scRemoved>>
      BY <1>3 DEF ScListSchedulers
  <2>2. \E next : ScGoes(c, next) /\ (next.sched = scCall[c].sched \/ next.sched \in ScLive)
    <3>1. \/ ScGoes(c, [scCall[c] EXCEPT !.at = "adds-site"])
          \/ \E s \in ScLive : ScGoes(c, [scCall[c] EXCEPT !.at = "reschedules", !.sched = s,
                                                           !.status = scSched[s]])
        BY <1>3 DEF ScListSchedulers, ScGoesTo
    <3>2. /\ [scCall[c] EXCEPT !.at = "adds-site"].sched = scCall[c].sched
          /\ \A s : [scCall[c] EXCEPT !.at = "reschedules", !.sched = s,
                                      !.status = scSched[s]].sched = s
        BY <1>0 DEF CallType
    <3>3. CASE ScGoes(c, [scCall[c] EXCEPT !.at = "adds-site"])
        BY <3>2, <3>3
    <3>4. ASSUME NEW s \in ScLive,
                 ScGoes(c, [scCall[c] EXCEPT !.at = "reschedules", !.sched = s,
                                             !.status = scSched[s]])
          PROVE  \E next : ScGoes(c, next) /\ next.sched \in ScLive
      <4>1. [scCall[c] EXCEPT !.at = "reschedules", !.sched = s,
                              !.status = scSched[s]].sched \in ScLive
          BY <3>2
      <4> QED
          BY <3>4, <4>1
    <3> QED
        BY <3>1, <3>3, <3>4
  <2> QED
      BY <1>0, <1>1, <2>1, <2>2, RowsLast DEF WasAdded, ScLive, ScNone
<1>4. CASE ScReschedule(c)
  <2>1. UNCHANGED scSetting /\ scRemoved' \subseteq scRemoved
      BY <1>4 DEF ScReschedule
  <2>2. scCall[c].status \in {"enabled", "disabled"}
      BY <1>0, <1>4 DEF CallsTyped, ScReschedule, ScAt
  <2>3. \A s \in ScSchedulers : \/ scSched'[s] = scSched[s]
                                \/ scSched[s] # "deleted" /\ scSched'[s] # ScNone
      BY <1>0, <1>4, <2>2 DEF ScReschedule, ScLive, ScNone
  <2>4. \E next : ScGoes(c, next) /\ next.sched \in {scCall[c].sched, ScNone}
      BY <1>0, <1>4 DEF ScReschedule, ScGoesTo, ScIdle, CallType
  <2> QED
      BY <1>0, <1>1, <2>1, <2>3, <2>4, RowsLast DEF WasAdded
<1>5. CASE ScAdd(c)
  <2>1. UNCHANGED <<scSetting, scRemoved>>
      BY <1>5 DEF ScAdd
  <2>2. PICK s \in ScSchedulers, status \in {"enabled", "disabled"} :
            /\ scSched[s] = ScNone /\ scSched' = [scSched EXCEPT ![s] = status]
            /\ \/ ScGoes(c, ScIdle)
               \/ ScGoes(c, [scCall[c] EXCEPT !.at = "saves-job", !.sched = s])
      BY <1>5 DEF ScAdd
  <2>3. /\ scSched'[s] # ScNone
        /\ \A r \in ScSchedulers : \/ scSched'[r] = scSched[r]
                                   \/ scSched[r] # "deleted" /\ scSched'[r] # ScNone
      BY <1>0, <2>2 DEF ScNone
  <2>4. \E next : ScGoes(c, next) /\ next.sched \in {s, ScNone}
    <3>1. [scCall[c] EXCEPT !.at = "saves-job", !.sched = s].sched = s /\ ScIdle.sched = ScNone
        BY <1>0 DEF ScIdle, CallType
    <3> QED
        BY <2>2, <3>1
  <2> QED
      BY <1>0, <1>1, <2>1, <2>3, <2>4, RowsLast DEF WasAdded
<1>6. CASE ScUnschedule(c)
  <2>1. PICK s \in ScSchedulers \cup {ScNone} : s = scCall[c].sched
      BY <1>0 DEF CallType
  <2>2. /\ IF ScDeletable(s) THEN ScDeleted(s) ELSE UNCHANGED <<scSched, scDue, scSetting>>
        /\ scRemoved' = scRemoved \cup ({s} \ {ScNone})
        /\ ScGoes(c, [scCall[c] EXCEPT !.at = "saves", !.sched = ScNone])
      BY <1>6, <2>1 DEF ScUnschedule
  <2>3. \E next : ScGoes(c, next) /\ next.sched = ScNone
    <3>1. [scCall[c] EXCEPT !.at = "saves", !.sched = ScNone].sched = ScNone
        BY <1>0 DEF CallType
    <3> QED
        BY <2>2, <3>1
  <2>4. s # ScNone => scSched[s] # ScNone
      BY <2>1 DEF RefsKnown, WasAdded
  <2>5. CASE ScDeletable(s)
    <3>1. /\ scSched' = [scSched EXCEPT ![s] = "deleted"]
          /\ scSetting' = [scSetting EXCEPT !.sched = IF @ = s THEN ScNone ELSE @]
          /\ s \in ScSchedulers /\ scSched[s] # "deleted"
        BY <2>2, <2>5, TypesHeld DEF ScDeletable, ScDeleted, ScLive
    <3>2. scSetting'.sched \in {scSetting.sched, ScNone}
        BY <1>0, <3>1 DEF SettingType
    <3>3. /\ scSched'[s] = "deleted"
          /\ \A r \in ScSchedulers : \/ scSched'[r] = scSched[r]
                                     \/ scSched[r] # "deleted" /\ scSched'[r] # ScNone
        BY <1>0, <3>1 DEF ScNone
    <3>4. \A r \in scRemoved' : r \in scRemoved \/ (r # ScNone /\ scSched'[r] = "deleted")
        BY <2>2, <3>3
    <3> QED
        BY <1>0, <1>1, <2>3, <3>2, <3>3, <3>4, RowsLast DEF WasAdded
  <2>6. CASE ~ScDeletable(s)
    <3>1. UNCHANGED <<scSched, scSetting>>
        BY <2>2, <2>6
    <3>2. s # ScNone => scSched[s] = "deleted" \/ ScMade(s)
        BY <1>0, <2>1, <2>4, <2>6 DEF ScDeletable, ScLive, ScMade
    <3> QED
        BY <1>0, <1>1, <2>2, <2>3, <3>1, <3>2, RowsLast DEF WasAdded
  <2> QED
      BY <2>5, <2>6
<1>7. CASE ScRegisterHook(c) \/ \E ok \in BOOLEAN : ScDeleteHook(c, ok)
  <2>1. UNCHANGED <<scSched, scSetting, scRemoved>>
      BY <1>7 DEF ScRegisterHook, ScDeleteHook
  <2>2. \E next : ScGoes(c, next) /\ next.sched = scCall[c].sched
    <3>1. \/ \E k : ScGoes(c, [scCall[c] EXCEPT !.at = "saves-job", !.seen.auto = TRUE,
                                                !.seen.hook = k])
          \/ ScGoes(c, [scCall[c] EXCEPT !.at = "saves", !.seen = ScSwitchedOff(@)])
        BY <1>7 DEF ScRegisterHook, ScDeleteHook
    <3>2. /\ \A k : [scCall[c] EXCEPT !.at = "saves-job", !.seen.auto = TRUE,
                                      !.seen.hook = k].sched = scCall[c].sched
          /\ [scCall[c] EXCEPT !.at = "saves", !.seen = ScSwitchedOff(@)].sched = scCall[c].sched
        BY <1>0 DEF CallType
    <3> QED
        BY <3>1, <3>2
  <2> QED
      BY <1>0, <1>1, <2>1, <2>2, RowsLast
<1>8. CASE ScSave(c)
  <2>1. UNCHANGED <<scSched, scRemoved>>
      BY <1>8 DEF ScSave
  <2>2. scSetting'.sched = scCall[c].sched
      BY <1>0, <1>8 DEF ScSave, CallType, SettingType
  <2>3. WasAdded(scSetting.sched)'
      BY <2>1, <2>2 DEF RefsKnown, WasAdded
  <2>4. \E next : ScGoes(c, next) /\ next.sched = ScNone
      BY <1>8 DEF ScSave, ScIdle
  <2> QED
      BY <1>0, <1>1, <2>1, <2>3, <2>4, RowsLast DEF WasAdded
<1>9. CASE ScGiveUp(c)
  <2>1. UNCHANGED <<scSched, scSetting, scRemoved>> /\ ScGoes(c, ScIdle) /\ ScIdle.sched = ScNone
      BY <1>9 DEF ScGiveUp, ScIdle
  <2> QED
      BY <1>0, <1>1, <2>1, RowsLast DEF WasAdded
<1> QED
    BY <1>2, <1>3, <1>4, <1>5, <1>6, <1>7, <1>8, <1>9 DEF ScSiteStep

\* What happens by itself, and the two requests that are one step.
LEMMA OwnLasts ==
    ASSUME ScheduleTypes, RefsKnown, RemovedUnlessItMadeJobs, ScOwnStep
    PROVE  RefsKnown' /\ RemovedUnlessItMadeJobs'
<1>0. /\ scJob \in JobsType /\ scCall \in [ScProcs -> CallType]
      /\ scSched \in [ScSchedulers -> {ScNone, "enabled", "disabled", "deleted"}]
      /\ scSetting \in SettingType
    BY TypesHeld DEF CallsTyped
<1>1. \A c \in ScCalls : scCall'[c].sched = scCall[c].sched
  <2>1. ASSUME NEW s \in ScSchedulers, ScBecomeDue(s), NEW c \in ScCalls
        PROVE  scCall'[c].sched = scCall[c].sched
    <3>1. scCall'[c] = scCall[c] \/ scCall'[c] = [scCall[c] EXCEPT !.due = TRUE]
        BY <2>1 DEF ScBecomeDue, ScProcs
    <3> QED
        BY <1>0, <3>1 DEF CallType, ScProcs
  <2> QED
      BY <2>1 DEF ScOwnStep, ScDisconnect, ScMarkRunning, ScEndJob, ScAge, ScDeleteScheduler
<1>2. CASE ScDisconnect
  <2>1. UNCHANGED <<scJob, scSched, scRemoved>> /\ scSetting'.sched = ScNone
      BY <1>2 DEF ScDisconnect, ScNoJobs, ScNoSetting
  <2> QED
      BY <1>1, <2>1, LastingKeeps DEF Lasting, RefsKnown, WasAdded
<1>3. ASSUME NEW j \in 1..ScMaxJobs, ScMarkRunning(j) \/ ScEndJob(j)
      PROVE  RefsKnown' /\ RemovedUnlessItMadeJobs'
  <2>1. UNCHANGED <<scSched, scSetting, scRemoved>>
      BY <1>3 DEF ScMarkRunning, ScEndJob, ScJobsOnly
  <2>2. \E status \in {"running", "over"} : scJob' = [scJob EXCEPT ![j].status = status]
      BY <1>3 DEF ScMarkRunning, ScEndJob
  <2>3. \A k \in 1..ScMaxJobs : /\ scJob'[k].by = scJob[k].by
                                /\ scJob'[k].status = ScNone => scJob[k].status = ScNone
      BY <1>0, <2>2 DEF JobsType, ScNone
  <2> QED
      BY <1>1, <2>1, <2>3, LastingKeeps DEF Lasting, RefsKnown, WasAdded
<1>4. ASSUME NEW s \in ScSchedulers, ScBecomeDue(s) \/ ScAge(s)
      PROVE  RefsKnown' /\ RemovedUnlessItMadeJobs'
  <2>1. UNCHANGED <<scJob, scSched, scSetting, scRemoved>>
      BY <1>4 DEF ScBecomeDue, ScAge, ScNoJobs
  <2> QED
      BY <1>1, <2>1, LastingKeeps DEF Lasting, RefsKnown, WasAdded
<1>5. ASSUME NEW s \in ScSchedulers, ScDeleteScheduler(s)
      PROVE  RefsKnown' /\ RemovedUnlessItMadeJobs'
  <2>1. /\ UNCHANGED <<scJob, scRemoved>>
        /\ scSched' = [scSched EXCEPT ![s] = "deleted"]
        /\ scSetting' = [scSetting EXCEPT !.sched = IF @ = s THEN ScNone ELSE @]
      BY <1>5 DEF ScDeleteScheduler, ScDeleted, ScNoJobs
  <2>2. scSetting'.sched \in {scSetting.sched, ScNone}
      BY <1>0, <2>1 DEF SettingType
  <2>3. /\ \A r \in ScSchedulers : scSched'[r] = scSched[r] \/ scSched'[r] = "deleted"
        /\ \A r : r \notin ScSchedulers => scSched'[r] = scSched[r]
      BY <1>0, <2>1
  <2>4. Lasting
      BY <2>1, <2>3 DEF Lasting, RefsKnown, WasAdded, ScNone
  <2> QED
      BY <1>1, <2>1, <2>2, <2>4, LastingKeeps DEF WasAdded
<1> QED
    BY <1>2, <1>3, <1>4, <1>5 DEF ScOwnStep

\* The exact extent of what keeps a removed schedule running: the key of
\* jobs.scheduler_id and nothing else.  updateSiteSchedule leaves a schedule it removed
\* in place only if that schedule has created a job, however site handlers overlap,
\* requests rewrite or delete schedulers, and calls fail half-way.
THEOREM RemovedStaysOnlyForItsJobs == SchedulesSpec => []RemovedUnlessItMadeJobs
<1>1. SchedulesInit => RefsKnown /\ RemovedUnlessItMadeJobs
    BY DEF SchedulesInit, RefsKnown, RemovedUnlessItMadeJobs, WasAdded, ScNoSetting, ScIdle, ScProcs
<1>2. ScheduleTypes /\ RefsKnown /\ RemovedUnlessItMadeJobs /\ [SchedulesNext]_schedVars
        => RefsKnown' /\ RemovedUnlessItMadeJobs'
  <2>1. UNCHANGED schedVars /\ RefsKnown /\ RemovedUnlessItMadeJobs
            => RefsKnown' /\ RemovedUnlessItMadeJobs'
      BY DEF schedVars, RefsKnown, RemovedUnlessItMadeJobs, WasAdded, ScMade
  <2> QED
      BY <2>1, WhoSteps, CreateLasts, LoopLasts, RequestLasts, SiteLasts, OwnLasts
<1>3. SchedulesInv => ScheduleTypes
    BY DEF SchedulesInv
<1> QED
    BY <1>1, <1>2, <1>3, InitSchedules, SchedulesStep, PTL DEF SchedulesSpec

-----------------------------------------------------------------------------
(* Notifications: sets of numbers *)

\* A set of natural numbers has a least element.
LEMMA SmallestNote ==
    ASSUME NEW T, T \subseteq Nat, T # {}
    PROVE  \E n \in T : \A m \in T : n <= m
<1> DEFINE R == OpToRel(<, Nat)
<1>1. IsWellFoundedOn(R, Nat)
  BY NatLessThanWellFounded
<1>2. \A m, n \in Nat : <<m, n>> \in R <=> m < n
  BY DEF OpToRel
<1> HIDE DEF R
<1>3. PICK n \in T : \A m \in T : ~ (<<m, n>> \in R)
  BY <1>1, WFMin
<1>4. \A m \in T : ~ (m < n)
  BY <1>2, <1>3, Zenon
<1> QED BY <1>4

\* Of a bounded set there are at most k elements with fewer than k before them.
LEMMA FewBefore ==
    ASSUME NEW N \in Nat, NEW P \in SUBSET (1 .. N), NEW k \in Nat
    PROVE  Cardinality({n \in P : Cardinality({m \in P : m < n}) < k}) <= k
<1> DEFINE F == {n \in P : Cardinality({m \in P : m < n}) < k}
           U == {u \in Nat : \A m \in F : m <= u}
<1>1. IsFiniteSet(1 .. N)
  BY FS_Interval
<1>2. IsFiniteSet(P)
  BY <1>1, FS_Subset
<1>3. /\ F \subseteq P /\ F \subseteq Nat /\ \A m \in F : m >= 1 /\ m <= N
      /\ \A n \in F : Cardinality({m \in P : m < n}) < k
  <2>1. F \subseteq P /\ \A n \in F : Cardinality({m \in P : m < n}) < k
    BY Zenon
  <2>2. \A m \in P : m \in Nat /\ m >= 1 /\ m <= N
    OBVIOUS
  <2> HIDE DEF F
  <2> QED BY <2>1, <2>2
<1>4. SUFFICES Cardinality(F) <= k
  OBVIOUS
<1> HIDE DEF F
<1>5. IsFiniteSet(F)
  BY <1>2, <1>3, FS_Subset
<1>6. CASE F = {}
  BY <1>6, FS_EmptySet
<1>7. CASE F # {}
  <2>1. PICK last \in U : \A u \in U : last <= u
    <3>1. N \in U
      BY <1>3
    <3> QED BY <3>1, SmallestNote
  <2>2. last \in F
    <3>1. SUFFICES ASSUME last \notin F PROVE FALSE
      OBVIOUS
    <3>2. \A m \in F : m \in Nat /\ m <= last /\ m # last /\ m >= 1
      BY <1>3, <2>1, <3>1
    <3>3. PICK m \in F : TRUE
      BY <1>7
    <3>4. last \in Nat /\ last >= 1
      BY <2>1, <3>2, <3>3
    <3>5. last - 1 \in Nat /\ \A n \in F : n <= last - 1
      BY <3>2, <3>4
    <3>6. last - 1 \in U
      BY <3>5
    <3> QED BY <2>1, <3>4, <3>6
  <2> DEFINE before == {m \in P : m < last}
  <2>3. Cardinality(before) < k
    BY <1>3, <2>2
  <2>4. F \ {last} \subseteq before
    <3>1. \A m \in F : m \in P /\ m \in Nat /\ m <= last
      BY <1>3, <2>1
    <3> QED BY <2>1, <3>1
  <2>5. before \subseteq P
    OBVIOUS
  <2> HIDE DEF before
  <2>6. IsFiniteSet(before)
    BY <1>2, <2>5, FS_Subset
  <2>7. Cardinality(F \ {last}) <= Cardinality(before) /\ Cardinality(before) \in Nat
    BY <2>4, <2>6, FS_Subset, FS_CardinalityType
  <2>8. Cardinality(F \ {last}) = Cardinality(F) - 1 /\ Cardinality(F) \in Nat
    BY <1>5, <2>2, FS_RemoveElement, FS_CardinalityType
  <2> QED BY <2>3, <2>7, <2>8
<1> QED BY <1>6, <1>7

-----------------------------------------------------------------------------
(* Notifications: the invariant *)

SweepType == [batch : SUBSET Nat, at : {"idle", "next", "sending"}, todo : SUBSET NtUsers,
              failed : BOOLEAN]

SweepsTyped == /\ ntSweep \in [NtSweepers -> SweepType]
               /\ \A s \in NtSweepers : ntSweep[s].at # "idle" => ntSweep[s].batch # {}

\* A user is owed a notification only while linked to its organisation.
OwedLinked ==
    /\ ntOwed \in [DOMAIN ntNotes -> SUBSET NtUsers]
    /\ \A n \in DOMAIN ntNotes : ntOwed[n] \subseteq NtWants(ntNotes[n])

\* While a sweep sends and nothing has failed, who is owed its notification has it or
\* is still to get it.
SendsOwed ==
    \A s \in NtSweepers :
        ntSweep[s].at = "sending" /\ ~ntSweep[s].failed =>
            \A u \in ntOwed[NtHead(s)] \ ntSweep[s].todo : <<NtHead(s), u>> \in ntSent

NotifyInv == NotificationsTypeOK /\ SweepsTyped /\ OwedLinked /\ SendsOwed /\ MarkedMeansSent

\* There are no notifications in the beginning.
LEMMA InitNotify == NotificationsInit => NotifyInv
<1> SUFFICES ASSUME NotificationsInit PROVE NotifyInv
  OBVIOUS
<1> USE NtAssumption DEF NotificationsInit
<1>1. NtIdle \in SweepType /\ NtIdle.at = "idle" /\ NtIdle.batch = {}
  BY DEF NtIdle, SweepType
<1>2. DOMAIN ntNotes = {} /\ Len(ntNotes) = 0 /\ ntNotes \in Seq(NtOrgs)
  BY EmptySeq
<1>3. Cardinality({}) = 0
  BY FS_EmptySet
<1>4. NotificationsTypeOK
  <2>1. \A t \in NtSweepers : /\ ntSweep[t].batch \subseteq DOMAIN ntNotes
                             /\ Cardinality(ntSweep[t].batch) <= NtLimit
    <3>1. \A t \in NtSweepers : ntSweep[t].batch = {}
      BY <1>1
    <3>2. 0 <= NtLimit
      OBVIOUS
    <3> QED BY <1>3, <3>1, <3>2
  <2>2. ntNotes \in Seq(NtOrgs) /\ Len(ntNotes) <= NtMaxNotes
    BY <1>2
  <2> QED BY <2>1, <2>2 DEF NotificationsTypeOK
<1>5. SweepsTyped /\ SendsOwed
  BY <1>1 DEF SweepsTyped, SendsOwed
<1>6. OwedLinked /\ MarkedMeansSent
  BY <1>2 DEF OwedLinked, MarkedMeansSent
<1> QED BY <1>4, <1>5, <1>6 DEF NotifyInv

\* A sweep under way is at one of its notifications.
LEMMA HeadInBatch ==
    ASSUME NotifyInv, NEW s \in NtSweepers, ntSweep[s].at # "idle"
    PROVE  NtHead(s) \in ntSweep[s].batch /\ NtHead(s) \in DOMAIN ntNotes
<1>1. ntSweep[s].batch \subseteq Nat /\ ntSweep[s].batch # {}
      /\ ntSweep[s].batch \subseteq DOMAIN ntNotes
  BY DEF NotifyInv, SweepsTyped, SweepType, NotificationsTypeOK
<1>2. \E n \in ntSweep[s].batch : \A m \in ntSweep[s].batch : n <= m
  BY <1>1, SmallestNote
<1> QED BY <1>1, <1>2 DEF NtHead

\* What a sweep goes on with is typed and of what it had read.
LEMMA NextSweep ==
    ASSUME NotifyInv, NEW s \in NtSweepers
    PROVE  /\ NtNext(s) \in SweepType /\ NtNext(s).at \in {"idle", "next"}
           /\ NtNext(s).at # "idle" => NtNext(s).batch # {}
           /\ NtNext(s).batch \subseteq ntSweep[s].batch
<1> DEFINE rest == ntSweep[s].batch \ {NtHead(s)}
           going == [NtIdle EXCEPT !.batch = rest, !.at = "next"]
<1>1. rest \subseteq Nat
  BY DEF NotifyInv, SweepsTyped, SweepType
<1>2. NtIdle \in SweepType /\ NtIdle.at = "idle" /\ NtIdle.batch = {}
  BY DEF NtIdle, SweepType
<1>3. going \in SweepType /\ going.at = "next" /\ going.batch = rest
  BY <1>1, <1>2 DEF SweepType
<1>4. NtNext(s) = IF rest = {} THEN NtIdle ELSE going
  BY DEF NtNext
<1> HIDE DEF going
<1> QED BY <1>2, <1>3, <1>4

-----------------------------------------------------------------------------
(* Notifications: requests *)

\* A sequence that grows keeps what is in it.
LEMMA Grows ==
    ASSUME NEW S, NEW s \in Seq(S), NEW e \in S
    PROVE  /\ Append(s, e) \in Seq(S) /\ Len(Append(s, e)) = Len(s) + 1
           /\ DOMAIN Append(s, e) = DOMAIN s \cup {Len(s) + 1} /\ Len(s) + 1 \notin DOMAIN s
           /\ \A n \in DOMAIN s : Append(s, e)[n] = s[n]
           /\ Append(s, e)[Len(s) + 1] = e
<1>1. Append(s, e) \in Seq(S) /\ Len(Append(s, e)) = Len(s) + 1 /\ Len(s) \in Nat
  BY LenProperties
<1>2. DOMAIN Append(s, e) = 1 .. Len(s) + 1 /\ DOMAIN s = 1 .. Len(s)
  BY <1>1, LenProperties
<1> QED BY <1>1, <1>2

\* The bounds on requests and faults are kept by those that count.
LEMMA NotesCounted ==
    ASSUME NotifyInv
    PROVE  /\ ntChanges \in 0..NtMaxChanges /\ ntFaults \in 0..NtMaxFaults
           /\ NtChange => ntChanges' \in 0..NtMaxChanges
           /\ NtFault => ntFaults' \in 0..NtMaxFaults
<1>1. ntChanges \in 0..NtMaxChanges /\ ntFaults \in 0..NtMaxFaults
  BY DEF NotifyInv, NotificationsTypeOK
<1>2. NtMaxChanges \in Nat /\ NtMaxFaults \in Nat
  BY NtAssumption
<1> QED BY <1>1, <1>2 DEF NtChange, NtFault

\* Steps that leave the sweeps and what they have done alone, and owe nobody more.
LEMMA SameSweeps ==
    ASSUME NotifyInv, UNCHANGED <<ntNotes, ntDelivered, ntSent, ntSweep>>,
           \A n \in DOMAIN ntNotes : ntOwed'[n] \subseteq ntOwed[n],
           ntOwed' \in [DOMAIN ntNotes -> SUBSET NtUsers]
    PROVE  SweepsTyped' /\ SendsOwed' /\ MarkedMeansSent'
<1> USE DEF NotifyInv
<1>1. SweepsTyped'
  BY DEF SweepsTyped
<1>2. MarkedMeansSent'
  BY DEF MarkedMeansSent, NotificationsTypeOK
<1>3. \A s \in NtSweepers : NtHead(s)' = NtHead(s)
  BY DEF NtHead
<1>4. SendsOwed'
  <2> SUFFICES ASSUME NEW s \in NtSweepers, ntSweep[s].at = "sending", ~ntSweep[s].failed,
                      NEW u \in ntOwed'[NtHead(s)] \ ntSweep[s].todo
               PROVE  <<NtHead(s), u>> \in ntSent
    BY <1>3 DEF SendsOwed
  <2>1. NtHead(s) \in DOMAIN ntNotes
    BY HeadInBatch
  <2> QED BY <2>1 DEF SendsOwed
<1> QED BY <1>1, <1>2, <1>4

\* New links of an organisation owe nobody more.
LEMMA RelinkKeeps ==
    ASSUME NotifyInv, NEW org \in NtOrgs, NEW links \in [NtUsers -> {"none", "off", "on"}],
           NtRelink(org, links), UNCHANGED <<ntNotes, ntDelivered, ntRead, ntSent, ntSweep>>,
           ntConn' \in [NtOrgs -> {"none", "connecting", "no token", "token"}],
           \A o \in NtOrgs \ {org} : ntConn'[o] = ntConn[o],
           ntConn'[org] = "none" => links = [u \in NtUsers |-> "none"],
           ntChanges' \in 0..NtMaxChanges, ntFaults' \in 0..NtMaxFaults
    PROVE  NotifyInv'
<1> USE DEF NotifyInv
<1>1. /\ ntLinks' = [ntLinks EXCEPT ![org] = links]
      /\ ntOwed' = [n \in DOMAIN ntOwed |->
                      IF ntNotes[n] = org THEN {u \in ntOwed[n] : links[u] = "on"} ELSE ntOwed[n]]
  BY DEF NtRelink
<1>2. DOMAIN ntOwed = DOMAIN ntNotes /\ \A n \in DOMAIN ntNotes : ntNotes[n] \in NtOrgs
  <2>1. DOMAIN ntNotes = 1 .. Len(ntNotes)
    BY LenProperties DEF NotificationsTypeOK
  <2> QED BY <2>1, ElementOfSeq DEF OwedLinked, NotificationsTypeOK
<1>3. /\ \A n \in DOMAIN ntNotes : ntOwed'[n] \subseteq ntOwed[n]
      /\ ntOwed' \in [DOMAIN ntNotes -> SUBSET NtUsers]
  BY <1>1, <1>2 DEF OwedLinked
<1>4. OwedLinked'
  <2> SUFFICES ASSUME NEW n \in DOMAIN ntNotes, NEW u \in ntOwed'[n]
               PROVE  u \in NtUsers /\ ntLinks'[ntNotes[n]][u] = "on"
    BY <1>3 DEF OwedLinked, NtWants
  <2>1. u \in NtUsers /\ ntLinks[ntNotes[n]][u] = "on"
    BY <1>3 DEF OwedLinked, NtWants
  <2>2. CASE ntNotes[n] = org
    BY <1>1, <1>2, <2>1, <2>2 DEF NotificationsTypeOK
  <2>3. CASE ntNotes[n] # org
    BY <1>1, <1>2, <2>1, <2>3 DEF NotificationsTypeOK
  <2> QED BY <2>2, <2>3
<1>5. NotificationsTypeOK'
  <2>1. ntLinks' \in [NtOrgs -> [NtUsers -> {"none", "off", "on"}]]
    BY <1>1 DEF NotificationsTypeOK
  <2>2. \A o \in NtOrgs : ntConn'[o] = "none" => ntLinks'[o] = [u \in NtUsers |-> "none"]
    BY <1>1 DEF NotificationsTypeOK
  <2> QED BY <2>1, <2>2 DEF NotificationsTypeOK
<1> QED BY <1>3, <1>4, <1>5, SameSweeps

\* Steps of the trigger and of the handlers for organisation org.
NtOutside(org) ==
    \/ NtNotify(org) \/ NtConnect(org) \/ NtStoreToken(org) \/ NtDisconnect(org)
    \/ NtMarkRead(org)
    \/ \E u \in NtUsers : NtLink(org, u) \/ NtUnlink(org, u) \/ NtSetMessages(org, u)

\* They keep the invariant: a new notification is owed to who is linked now.
LEMMA OutsideNotifies == ASSUME NotifyInv, NEW org \in NtOrgs, NtOutside(org) PROVE NotifyInv'
<1> USE NtAssumption DEF NotifyInv
<1>1. ASSUME NtChange PROVE ntChanges' \in 0..NtMaxChanges
  BY <1>1, NotesCounted
<1>2. CASE NtNotify(org)
  <2> DEFINE new == Len(ntNotes) + 1
  <2>1. /\ Len(ntNotes) < NtMaxNotes /\ ntNotes' = Append(ntNotes, org)
        /\ ntOwed' = Append(ntOwed, NtWants(org))
        /\ UNCHANGED <<ntDelivered, ntRead, ntConn, ntLinks, ntSent, ntSweep, ntChanges, ntFaults>>
    BY <1>2 DEF NtNotify
  <2>2. /\ ntNotes' \in Seq(NtOrgs) /\ Len(ntNotes') = Len(ntNotes) + 1
        /\ DOMAIN ntNotes' = DOMAIN ntNotes \cup {new} /\ new \notin DOMAIN ntNotes
        /\ \A n \in DOMAIN ntNotes : ntNotes'[n] = ntNotes[n]
        /\ ntNotes'[new] = org
    <3>1. ntNotes \in Seq(NtOrgs)
      BY DEF NotificationsTypeOK
    <3>2. /\ Append(ntNotes, org) \in Seq(NtOrgs) /\ Len(Append(ntNotes, org)) = new
          /\ DOMAIN Append(ntNotes, org) = DOMAIN ntNotes \cup {new} /\ new \notin DOMAIN ntNotes
          /\ \A n \in DOMAIN ntNotes : Append(ntNotes, org)[n] = ntNotes[n]
          /\ Append(ntNotes, org)[new] = org
      BY <3>1, Grows
    <3>3. ntNotes' = Append(ntNotes, org)
      BY <2>1
    <3> QED BY ONLY <3>2, <3>3
  <2>3. /\ NtWants(org) \subseteq NtUsers
        /\ \A o \in NtOrgs : NtWants(o)' = NtWants(o)
    BY <2>1 DEF NtWants
  <2>4. DOMAIN ntOwed = DOMAIN ntNotes /\ DOMAIN ntNotes = 1 .. Len(ntNotes) /\ Len(ntNotes) \in Nat
    BY LenProperties DEF OwedLinked, NotificationsTypeOK
  <2>5. ntOwed \in Seq(SUBSET NtUsers) /\ Len(ntOwed) = Len(ntNotes)
    BY <2>4, SeqDef DEF OwedLinked
  <2>6. /\ DOMAIN ntOwed' = DOMAIN ntNotes'
        /\ \A n \in DOMAIN ntNotes : ntOwed'[n] = ntOwed[n]
        /\ ntOwed'[new] = NtWants(org) /\ ntOwed' \in [DOMAIN ntOwed' -> SUBSET NtUsers]
    <3>1. ntOwed' \in Seq(SUBSET NtUsers) /\ DOMAIN ntOwed' = DOMAIN ntOwed \cup {new}
          /\ (\A n \in DOMAIN ntOwed : ntOwed'[n] = ntOwed[n]) /\ ntOwed'[new] = NtWants(org)
      BY <2>1, <2>3, <2>5, Grows
    <3>2. ntOwed' \in [DOMAIN ntOwed' -> SUBSET NtUsers]
      BY <3>1, LenProperties
    <3> QED BY <2>2, <2>4, <3>1, <3>2
  <2>7. \A n \in DOMAIN ntNotes : ntNotes[n] \in NtOrgs
    BY <2>4, ElementOfSeq DEF NotificationsTypeOK
  <2>8. OwedLinked'
    BY <2>2, <2>3, <2>6, <2>7 DEF OwedLinked
  <2>9. NotificationsTypeOK'
    <3>1. Len(ntNotes') <= NtMaxNotes
      BY <2>1, <2>2, <2>4
    <3>2. ntSent' \subseteq (DOMAIN ntNotes') \X NtUsers
      BY <2>1, <2>2 DEF NotificationsTypeOK
    <3>3. DOMAIN ntNotes \subseteq DOMAIN ntNotes'
      BY <2>2
    <3> QED BY <2>1, <2>2, <3>1, <3>2, <3>3 DEF NotificationsTypeOK
  <2>10. SweepsTyped' /\ \A s \in NtSweepers : NtHead(s)' = NtHead(s)
    BY <2>1 DEF SweepsTyped, NtHead
  <2>11. SendsOwed'
    <3> SUFFICES ASSUME NEW s \in NtSweepers, ntSweep[s].at = "sending", ~ntSweep[s].failed,
                        NEW u \in ntOwed'[NtHead(s)] \ ntSweep[s].todo
                 PROVE  <<NtHead(s), u>> \in ntSent
      BY <2>1, <2>10 DEF SendsOwed
    <3>1. NtHead(s) \in DOMAIN ntNotes
      BY HeadInBatch
    <3> QED BY <2>6, <3>1 DEF SendsOwed
  <2>12. MarkedMeansSent'
    BY <2>1, <2>6 DEF MarkedMeansSent, NotificationsTypeOK
  <2> QED BY <2>8, <2>9, <2>10, <2>11, <2>12
<1>3. CASE NtConnect(org)
  <2>1. ntChanges' \in 0..NtMaxChanges /\ ntConn[org] # "connecting"
        /\ UNCHANGED <<ntNotes, ntDelivered, ntRead, ntSent, ntSweep, ntFaults>>
    BY <1>1, <1>3 DEF NtConnect, NtRequest
  <2>2. ntConn' = [ntConn EXCEPT ![org] = IF @ = "token" THEN @ ELSE "connecting"]
    BY <1>3 DEF NtConnect
  <2>3. /\ ntConn' \in [NtOrgs -> {"none", "connecting", "no token", "token"}]
        /\ ntConn'[org] # "none" /\ \A o \in NtOrgs \ {org} : ntConn'[o] = ntConn[o]
    BY <2>2 DEF NotificationsTypeOK
  <2>4. CASE ntConn[org] = "none"
    <3>1. PICK slackUsers \in SUBSET NtUsers :
              NtRelink(org, [u \in NtUsers |-> IF u \in slackUsers THEN "on" ELSE "none"])
      BY <1>3, <2>4 DEF NtConnect
    <3> DEFINE links == [u \in NtUsers |-> IF u \in slackUsers THEN "on" ELSE "none"]
    <3>2. links \in [NtUsers -> {"none", "off", "on"}] /\ NtRelink(org, links)
      BY <3>1
    <3> HIDE DEF links
    <3> QED BY <2>1, <2>3, <3>2, RelinkKeeps DEF NotificationsTypeOK
  <2>5. CASE ntConn[org] # "none" /\ UNCHANGED <<ntLinks, ntOwed>>
    <3>1. OwedLinked'
      BY <2>1, <2>5 DEF OwedLinked, NtWants
    <3>2. NotificationsTypeOK'
      BY <2>1, <2>3, <2>5 DEF NotificationsTypeOK
    <3> QED BY <2>1, <2>5, <3>1, <3>2, SameSweeps DEF OwedLinked
  <2> QED BY <1>3, <2>4, <2>5 DEF NtConnect
<1>4. CASE NtStoreToken(org)
  <2>1. PICK to \in {"token", "no token"} : ntConn' = [ntConn EXCEPT ![org] = to]
    BY <1>4 DEF NtStoreToken
  <2>2. ntFaults' \in 0..NtMaxFaults
        /\ UNCHANGED <<ntNotes, ntDelivered, ntRead, ntLinks, ntSent, ntOwed, ntSweep, ntChanges>>
    BY <1>4, NotesCounted DEF NtStoreToken
  <2>3. NotificationsTypeOK'
    BY <2>1, <2>2 DEF NotificationsTypeOK
  <2>4. OwedLinked'
    BY <2>2 DEF OwedLinked, NtWants
  <2> QED BY <2>2, <2>3, <2>4, SameSweeps DEF OwedLinked
<1>5. CASE NtDisconnect(org)
  <2> DEFINE links == [u \in NtUsers |-> "none"]
  <2>1. /\ links \in [NtUsers -> {"none", "off", "on"}] /\ NtRelink(org, links)
        /\ ntConn' = [ntConn EXCEPT ![org] = "none"] /\ ntChanges' \in 0..NtMaxChanges
        /\ UNCHANGED <<ntNotes, ntDelivered, ntRead, ntSent, ntSweep, ntFaults>>
    BY <1>1, <1>5 DEF NtDisconnect, NtRequest
  <2>2. /\ ntConn' \in [NtOrgs -> {"none", "connecting", "no token", "token"}]
        /\ \A o \in NtOrgs \ {org} : ntConn'[o] = ntConn[o]
    BY <2>1 DEF NotificationsTypeOK
  <2>3. links = [u \in NtUsers |-> "none"]
    OBVIOUS
  <2> HIDE DEF links
  <2> QED BY <2>1, <2>2, <2>3, RelinkKeeps DEF NotificationsTypeOK
<1>6. ASSUME NEW u \in NtUsers, NtLink(org, u) \/ NtUnlink(org, u) \/ NtSetMessages(org, u)
      PROVE  NotifyInv'
  <2>1. PICK wish \in {"none", "on", "off"} : NtRelink(org, [ntLinks[org] EXCEPT ![u] = wish])
    BY <1>6 DEF NtLink, NtUnlink, NtSetMessages
  <2> DEFINE links == [ntLinks[org] EXCEPT ![u] = wish]
  <2>2. links \in [NtUsers -> {"none", "off", "on"}]
    BY DEF NotificationsTypeOK
  <2>3. ntChanges' \in 0..NtMaxChanges
        /\ UNCHANGED <<ntConn, ntNotes, ntDelivered, ntRead, ntSent, ntSweep, ntFaults>>
    BY <1>1, <1>6 DEF NtLink, NtUnlink, NtSetMessages, NtRequest
  <2>4. ntConn[org] # "none"
    BY <1>6 DEF NtLink, NtUnlink, NtSetMessages, NotificationsTypeOK
  <2>5. NtRelink(org, links)
    BY <2>1
  <2> HIDE DEF links
  <2> QED BY <2>2, <2>3, <2>4, <2>5, RelinkKeeps DEF NotificationsTypeOK
<1>7. CASE NtMarkRead(org)
  <2>1. ntChanges' \in 0..NtMaxChanges
        /\ UNCHANGED <<ntNotes, ntDelivered, ntConn, ntLinks, ntSent, ntOwed, ntSweep, ntFaults>>
    BY <1>1, <1>7 DEF NtMarkRead
  <2>2. ntRead' \subseteq DOMAIN ntNotes
    <3> DEFINE own == {n \in DOMAIN ntNotes : ntNotes[n] = org}
    <3>1. PICK read \in {{n} : n \in own} \cup {own} : ntRead' = ntRead \cup read
      BY <1>7 DEF NtMarkRead
    <3>2. read \subseteq DOMAIN ntNotes
      OBVIOUS
    <3> QED BY <3>1, <3>2 DEF NotificationsTypeOK
  <2>3. NotificationsTypeOK'
    BY <2>1, <2>2 DEF NotificationsTypeOK
  <2>4. OwedLinked'
    BY <2>1 DEF OwedLinked, NtWants
  <2> QED BY <2>1, <2>3, <2>4, SameSweeps DEF OwedLinked
<1> QED BY <1>2, <1>3, <1>4, <1>5, <1>6, <1>7 DEF NtOutside

-----------------------------------------------------------------------------
(* Notifications: sweeps *)

\* A sweep is left alone, or goes on with something it had read and is not sending.
LEMMA SweepMoves ==
    ASSUME NotifyInv, NEW s \in NtSweepers, NEW sweep \in SweepType, NtSweepTo(s, sweep),
           NtSwept, sweep.at # "idle" => sweep.batch # {}, sweep.batch \subseteq DOMAIN ntNotes,
           Cardinality(sweep.batch) <= NtLimit,
           ntDelivered' \subseteq DOMAIN ntNotes, ntSent \subseteq ntSent',
           ntSent' \subseteq (DOMAIN ntNotes) \X NtUsers, ntFaults' \in 0..NtMaxFaults,
           \A n \in ntDelivered' \ ntDelivered : \A u \in ntOwed[n] : <<n, u>> \in ntSent,
           sweep.at = "sending" /\ ~sweep.failed =>
               \A u \in ntOwed[NtHead(s)'] \ sweep.todo : <<NtHead(s)', u>> \in ntSent'
    PROVE  NotifyInv'
<1> USE DEF NotifyInv
<1>1. /\ ntSweep' = [ntSweep EXCEPT ![s] = sweep]
      /\ UNCHANGED <<ntNotes, ntRead, ntConn, ntLinks, ntOwed, ntChanges>>
  BY DEF NtSweepTo, NtSwept
<1>2. /\ ntSweep' \in [NtSweepers -> SweepType] /\ ntSweep'[s] = sweep
      /\ \A t \in NtSweepers \ {s} : ntSweep'[t] = ntSweep[t]
  BY <1>1 DEF SweepsTyped
<1>3. SweepsTyped'
  BY <1>2 DEF SweepsTyped
<1>4. NotificationsTypeOK'
  <2>1. \A t \in NtSweepers : /\ ntSweep'[t].batch \subseteq DOMAIN ntNotes
                              /\ Cardinality(ntSweep'[t].batch) <= NtLimit
    BY <1>2 DEF NotificationsTypeOK
  <2> QED BY <1>1, <2>1 DEF NotificationsTypeOK
<1>5. OwedLinked'
  BY <1>1 DEF OwedLinked, NtWants
<1>6. MarkedMeansSent'
  BY <1>1 DEF MarkedMeansSent
<1>7. SendsOwed'
  <2> SUFFICES ASSUME NEW t \in NtSweepers, ntSweep'[t].at = "sending", ~ntSweep'[t].failed,
                      NEW u \in ntOwed[NtHead(t)'] \ ntSweep'[t].todo
               PROVE  <<NtHead(t)', u>> \in ntSent'
    BY <1>1 DEF SendsOwed
  <2>1. CASE t = s
    BY <1>2, <2>1
  <2>2. CASE t # s
    <3>1. ntSweep'[t] = ntSweep[t]
      BY <1>2, <2>2
    <3>2. NtHead(t)' = NtHead(t)
      BY <3>1 DEF NtHead
    <3>3. <<NtHead(t), u>> \in ntSent
      BY <3>1, <3>2 DEF SendsOwed
    <3> QED BY <3>2, <3>3
  <2> QED BY <2>1, <2>2
<1> QED BY <1>3, <1>4, <1>5, <1>6, <1>7

\* So is a sweep that goes on with the rest of its batch, or is idle.
LEMMA SweepEnds ==
    ASSUME NotifyInv, NEW s \in NtSweepers, NEW sweep \in {NtNext(s), NtIdle},
           NtSweepTo(s, sweep), NtSwept, UNCHANGED ntSent, ntFaults' \in 0..NtMaxFaults,
           ntDelivered' \subseteq DOMAIN ntNotes,
           \A n \in ntDelivered' \ ntDelivered : \A u \in ntOwed[n] : <<n, u>> \in ntSent
    PROVE  NotifyInv'
<1>1. NtIdle \in SweepType /\ NtIdle.at = "idle" /\ NtIdle.batch = {}
  BY DEF NtIdle, SweepType
<1>2. /\ sweep \in SweepType /\ sweep.at \in {"idle", "next"}
      /\ sweep.at # "idle" => sweep.batch # {}
      /\ sweep.batch \subseteq ntSweep[s].batch
  <2>1. CASE sweep = NtIdle
    BY <1>1, <2>1
  <2>2. CASE sweep = NtNext(s)
    BY <2>2, NextSweep
  <2> QED BY <2>1, <2>2
<1>3. /\ ntSweep[s].batch \subseteq DOMAIN ntNotes /\ Cardinality(ntSweep[s].batch) <= NtLimit
      /\ ntNotes \in Seq(NtOrgs) /\ ntSent \subseteq (DOMAIN ntNotes) \X NtUsers
  BY DEF NotifyInv, NotificationsTypeOK
<1>4. Cardinality(sweep.batch) <= NtLimit
  <2>1. DOMAIN ntNotes = 1 .. Len(ntNotes) /\ Len(ntNotes) \in Nat
    BY <1>3, LenProperties
  <2>2. IsFiniteSet(ntSweep[s].batch)
    <3>1. IsFiniteSet(1 .. Len(ntNotes))
      BY <2>1, FS_Interval
    <3> QED BY <1>3, <2>1, <3>1, FS_Subset
  <2>3. /\ Cardinality(sweep.batch) <= Cardinality(ntSweep[s].batch)
        /\ Cardinality(sweep.batch) \in Nat /\ Cardinality(ntSweep[s].batch) \in Nat
    BY <1>2, <2>2, FS_Subset, FS_CardinalityType
  <2>4. NtLimit \in Nat
    BY NtAssumption
  <2> QED BY <1>3, <2>3, <2>4
<1> QED BY <1>2, <1>3, <1>4, SweepMoves

\* A sweep that reads, delivers or ends keeps the invariant: it sends to all who are
\* linked, owes nothing to the others, and marks only what nobody is owed any more.
LEMMA SweepNotifies ==
    ASSUME NotifyInv, NEW s \in NtSweepers, NtSweepStep(s) \/ NtRestart(s)
    PROVE  NotifyInv'
<1>1. /\ ntNotes \in Seq(NtOrgs) /\ ntDelivered \subseteq DOMAIN ntNotes
      /\ ntSent \subseteq (DOMAIN ntNotes) \X NtUsers
      /\ ntSweep[s].batch \subseteq DOMAIN ntNotes /\ Cardinality(ntSweep[s].batch) <= NtLimit
      /\ ntFaults \in 0..NtMaxFaults
  BY DEF NotifyInv, NotificationsTypeOK
<1>2. /\ ntSweep[s] \in SweepType /\ ntSweep \in [NtSweepers -> SweepType]
      /\ ntSweep[s].at # "idle" => ntSweep[s].batch # {}
  BY DEF NotifyInv, SweepsTyped
<1>3. DOMAIN ntNotes = 1 .. Len(ntNotes) /\ Len(ntNotes) \in Nat
  BY <1>1, LenProperties
<1>4. NtLimit \in Nat
  BY NtAssumption
<1>5. CASE NtBegin(s)
  <2> DEFINE begun == [NtIdle EXCEPT !.batch = NtOldest(NtPending), !.at = "next"]
  <2>1. NtSweepTo(s, begun) /\ NtSwept /\ UNCHANGED <<ntDelivered, ntSent, ntFaults>>
        /\ NtPending # {}
    BY <1>5 DEF NtBegin
  <2>2. NtPending \in SUBSET (1 .. Len(ntNotes))
    BY <1>3 DEF NtPending
  <2>3. NtOldest(NtPending) \subseteq NtPending
    BY DEF NtOldest
  <2>4. Cardinality(NtOldest(NtPending)) <= NtLimit
    BY <1>3, <1>4, <2>2, FewBefore, Zenon DEF NtOldest
  <2>5. NtOldest(NtPending) # {}
    <3>1. NtPending \subseteq Nat
      BY <2>2
    <3>2. PICK n \in NtPending : \A k \in NtPending : n <= k
      BY <2>1, <3>1, SmallestNote
    <3>3. {k \in NtPending : k < n} = {}
      <4>1. \A k \in NtPending : ~(k < n)
        BY <3>1, <3>2
      <4> QED BY <4>1
    <3>4. 0 < NtLimit
      BY NtAssumption
    <3>5. Cardinality({k \in NtPending : k < n}) < NtLimit
      BY <3>3, <3>4, FS_EmptySet
    <3> QED BY <3>2, <3>5 DEF NtOldest
  <2>6. /\ begun \in SweepType /\ begun.at = "next" /\ begun.batch = NtOldest(NtPending)
    <3>1. NtOldest(NtPending) \subseteq Nat
      <4>1. \A k \in 1 .. Len(ntNotes) : k \in Nat
        BY <1>3
      <4> QED BY <2>2, <2>3, <4>1
    <3> QED BY <3>1 DEF NtIdle, SweepType
  <2> HIDE DEF begun
  <2> QED BY <1>1, <1>3, <2>1, <2>2, <2>3, <2>4, <2>5, <2>6, SweepMoves
<1>6. CASE NtDeliver(s)
  <2> DEFINE org == ntNotes[NtHead(s)]
             reached == [ntSweep[s] EXCEPT !.at = "sending", !.todo = NtWants(org)]
  <2>1. /\ ntSweep[s].at = "next" /\ NtSwept /\ UNCHANGED <<ntDelivered, ntSent, ntFaults>>
        /\ NtSweepTo(s, IF ntConn[org] \in {"connecting", "no token"} THEN NtNext(s) ELSE reached)
    BY <1>6 DEF NtDeliver
  <2>2. CASE ntConn[org] \in {"connecting", "no token"}
    <3>1. NtSweepTo(s, NtNext(s))
      BY <2>1, <2>2
    <3> QED BY <1>1, <2>1, <3>1, SweepEnds
  <2>3. CASE ntConn[org] \notin {"connecting", "no token"}
    <3>1. NtSweepTo(s, reached)
      BY <2>1, <2>3
    <3>2. NtHead(s) \in DOMAIN ntNotes
      BY <2>1, HeadInBatch
    <3>3. ntOwed[NtHead(s)] \subseteq NtWants(org)
      BY <3>2 DEF NotifyInv, OwedLinked
    <3>4. NtWants(org) \subseteq NtUsers
      BY DEF NtWants
    <3>5. /\ reached \in SweepType /\ reached.at = "sending" /\ reached.todo = NtWants(org)
          /\ reached.batch = ntSweep[s].batch
      BY <1>2, <3>4 DEF SweepType
    <3> HIDE DEF reached
    <3>6. ntSweep'[s] = reached
      BY <1>2, <3>1 DEF NtSweepTo
    <3>7. NtHead(s)' = NtHead(s)
      BY <3>5, <3>6 DEF NtHead
    <3>8. ntSweep[s].batch # {}
      BY <1>2, <2>1
    <3> HIDE DEF org
    <3> QED BY <1>1, <2>1, <3>1, <3>3, <3>5, <3>7, <3>8, SweepMoves
  <2> QED BY <2>2, <2>3
<1>7. CASE NtSend(s)
  <2>1. PICK u \in ntSweep[s].todo :
        \/ /\ ntSent' = ntSent \cup {<<NtHead(s), u>>} /\ UNCHANGED ntFaults
           /\ NtSweepTo(s, [ntSweep[s] EXCEPT !.todo = @ \ {u}])
        \/ /\ NtFault /\ UNCHANGED ntSent
           /\ NtSweepTo(s, [ntSweep[s] EXCEPT !.todo = @ \ {u}, !.failed = TRUE])
    BY <1>7 DEF NtSend
  <2>2. ntSweep[s].at = "sending" /\ NtSwept /\ UNCHANGED ntDelivered
    BY <1>7 DEF NtSend
  <2>3. NtHead(s) \in DOMAIN ntNotes
    BY <2>2, HeadInBatch
  <2>4. ntSweep[s].batch # {}
    BY <1>2, <2>2
  <2>5. u \in NtUsers
    BY <1>2 DEF SweepType
  <2>6. CASE /\ ntSent' = ntSent \cup {<<NtHead(s), u>>} /\ UNCHANGED ntFaults
             /\ NtSweepTo(s, [ntSweep[s] EXCEPT !.todo = @ \ {u}])
    <3> DEFINE sent == [ntSweep[s] EXCEPT !.todo = @ \ {u}]
    <3>1. /\ sent \in SweepType /\ sent.at = "sending" /\ sent.todo = ntSweep[s].todo \ {u}
          /\ sent.batch = ntSweep[s].batch /\ sent.failed = ntSweep[s].failed
      BY <1>2, <2>2 DEF SweepType
    <3>2. NtSweepTo(s, sent)
      BY <2>6
    <3> HIDE DEF sent
    <3>3. ntSweep'[s] = sent
      BY <1>2, <3>2 DEF NtSweepTo
    <3>4. NtHead(s)' = NtHead(s)
      BY <3>1, <3>3 DEF NtHead
    <3>5. ASSUME ~ntSweep[s].failed, NEW w \in ntOwed[NtHead(s)] \ sent.todo
          PROVE  <<NtHead(s), w>> \in ntSent'
      <4>1. CASE w = u
        BY <2>6, <4>1
      <4>2. CASE w # u
        BY <2>2, <2>6, <3>1, <3>5, <4>2 DEF NotifyInv, SendsOwed
      <4> QED BY <4>1, <4>2
    <3>6. ntSent' \subseteq (DOMAIN ntNotes) \X NtUsers /\ ntSent \subseteq ntSent'
      BY <1>1, <2>3, <2>5, <2>6
    <3>7. sent.at = "sending" /\ ~sent.failed =>
              \A w \in ntOwed[NtHead(s)'] \ sent.todo : <<NtHead(s)', w>> \in ntSent'
      BY <3>1, <3>4, <3>5
    <3> QED BY <1>1, <2>2, <2>4, <2>6, <3>1, <3>2, <3>6, <3>7, SweepMoves
  <2>7. CASE /\ NtFault /\ UNCHANGED ntSent
             /\ NtSweepTo(s, [ntSweep[s] EXCEPT !.todo = @ \ {u}, !.failed = TRUE])
    <3> DEFINE lost == [ntSweep[s] EXCEPT !.todo = @ \ {u}, !.failed = TRUE]
    <3>1. lost \in SweepType /\ lost.batch = ntSweep[s].batch
      BY <1>2 DEF SweepType
    <3>2. lost.failed
      BY <1>2, Zenon DEF SweepType
    <3>3. NtSweepTo(s, lost)
      BY <2>7
    <3> HIDE DEF lost
    <3>4. ntFaults' \in 0..NtMaxFaults
      BY <2>7, NotesCounted
    <3> QED BY <1>1, <2>2, <2>4, <2>7, <3>1, <3>2, <3>3, <3>4, SweepMoves
  <2> QED BY <2>1, <2>6, <2>7
<1>8. CASE NtMark(s)
  <2>1. /\ ntSweep[s].at = "sending" /\ ntSweep[s].todo = {} /\ ~ntSweep[s].failed
        /\ NtSweepTo(s, NtNext(s)) /\ NtSwept /\ UNCHANGED ntSent
    BY <1>8 DEF NtMark, NtDone
  <2>2. NtHead(s) \in DOMAIN ntNotes
    BY <2>1, HeadInBatch
  <2>3. \A u \in ntOwed[NtHead(s)] : <<NtHead(s), u>> \in ntSent
    BY <2>1 DEF NotifyInv, SendsOwed
  <2>4. ntFaults' \in 0..NtMaxFaults
        /\ (ntDelivered' = ntDelivered \cup {NtHead(s)} \/ UNCHANGED ntDelivered)
    BY <1>8, NotesCounted DEF NtMark
  <2> QED BY <1>1, <2>1, <2>2, <2>3, <2>4, SweepEnds
<1>9. CASE NtKeep(s)
  BY <1>1, <1>9, SweepEnds DEF NtKeep
<1>10. CASE NtRestart(s)
  <2>1. ntFaults' \in 0..NtMaxFaults
    BY <1>10, NotesCounted DEF NtRestart
  <2> QED BY <1>1, <1>10, <2>1, SweepEnds DEF NtRestart
<1> QED BY <1>5, <1>6, <1>7, <1>8, <1>9, <1>10 DEF NtSweepStep

-----------------------------------------------------------------------------
(* Notifications: theorems *)

\* Every step keeps the invariant.
LEMMA NotifyStep == NotifyInv /\ [NotificationsNext]_notifyVars => NotifyInv'
<1> SUFFICES ASSUME NotifyInv, [NotificationsNext]_notifyVars PROVE NotifyInv'
  OBVIOUS
<1>1. CASE \E org \in NtOrgs : NtOutside(org)
  BY <1>1, OutsideNotifies
<1>2. CASE \E s \in NtSweepers : NtSweepStep(s) \/ NtRestart(s)
  BY <1>2, SweepNotifies
<1>3. CASE UNCHANGED notifyVars
  <2>1. \A s \in NtSweepers : NtHead(s)' = NtHead(s)
    BY <1>3 DEF notifyVars, NtHead
  <2>2. NotificationsTypeOK' /\ SweepsTyped' /\ OwedLinked' /\ MarkedMeansSent'
    BY <1>3 DEF NotifyInv, notifyVars, NotificationsTypeOK, SweepsTyped, OwedLinked, NtWants,
                MarkedMeansSent
  <2>3. SendsOwed'
    BY <1>3, <2>1 DEF NotifyInv, notifyVars, SendsOwed
  <2> QED BY <2>2, <2>3 DEF NotifyInv
<1> QED BY <1>1, <1>2, <1>3 DEF NotificationsNext, NtOutside

\* The rows, links, messages and sweeps of the notifications have their types, and a
\* sweep reads at most its limit (notifications/queries.go GetPendingSlackNotifications).
THEOREM NotificationsTypeCorrect == NotificationsSpec => []NotificationsTypeOK
<1>1. NotifyInv => NotificationsTypeOK
  BY DEF NotifyInv
<1> QED BY InitNotify, NotifyStep, <1>1, PTL DEF NotificationsSpec

\* A notification marked as delivered has reached every user who was linked when it
\* was written and still is (notifications/slack.go Deliver).
THEOREM MarkedIsSent == NotificationsSpec => []MarkedMeansSent
<1>1. NotifyInv => MarkedMeansSent
  BY DEF NotifyInv
<1> QED BY InitNotify, NotifyStep, <1>1, PTL DEF NotificationsSpec

=============================================================================
