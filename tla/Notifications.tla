--------------------------- MODULE Notifications ---------------------------
(***************************************************************************)
(* Slack notifications: the row a trigger writes when a job ends, the      *)
(* sweeps of internal/notifications that deliver it, and the requests that *)
(* connect a workspace, link its users and mark rows as read.              *)
(*                                                                         *)
(* An organisation has one workspace here; the loop over the workspaces of *)
(* an organisation treats a failure as the loop over its links does.       *)
(* Organisations share the sweeps and their limit and nothing else.        *)
(***************************************************************************)
EXTENDS Naturals, Sequences, FiniteSets

CONSTANTS
    NtOrgs, NtUsers,
    NtSweepers,     \* API processes: two while one replaces the other
    NtLimit,        \* notifications a sweep reads at most
    NtMaxNotes,     \* bound on the notifications
    NtMaxChanges,   \* bound on requests
    NtMaxFaults     \* bound on failed messages and calls, and restarts

ASSUME NtAssumption ==
    /\ NtOrgs # {} /\ NtSweepers # {} /\ NtLimit \in Nat \ {0}
    /\ NtMaxNotes \in Nat /\ NtMaxChanges \in Nat /\ NtMaxFaults \in Nat

VARIABLES
    ntNotes,        \* organisations of the notifications, oldest first
    ntDelivered,    \* those with slack_delivered_at
    ntRead,         \* those with read_at
    ntConn,         \* the workspace of an organisation and its token
    ntLinks,        \* slack_user_links, and whether they want messages
    ntSent,         \* messages in Slack, <<notification, user>>
    ntOwed,         \* users linked from the notification's creation until now
    ntSweep,        \* the sweep of a process
    ntChanges, ntFaults

notifyVars ==
    <<ntNotes, ntDelivered, ntRead, ntConn, ntLinks, ntSent, ntOwed, ntSweep, ntChanges,
      ntFaults>>

-----------------------------------------------------------------------------

NtIdle == [batch |-> {}, at |-> "idle", todo |-> {}, failed |-> FALSE]
NtWants(org) == {u \in NtUsers : ntLinks[org][u] = "on"}

NotificationsInit ==
    /\ ntNotes = <<>> /\ ntDelivered = {} /\ ntRead = {} /\ ntSent = {} /\ ntOwed = <<>>
    /\ ntConn = [org \in NtOrgs |-> "none"]
    /\ ntLinks = [org \in NtOrgs |-> [u \in NtUsers |-> "none"]]
    /\ ntSweep = [s \in NtSweepers |-> NtIdle]
    /\ ntChanges = 0 /\ ntFaults = 0

NtFault == ntFaults < NtMaxFaults /\ ntFaults' = ntFaults + 1
NtChange == ntChanges < NtMaxChanges /\ ntChanges' = ntChanges + 1

\* A job of the organisation completes or fails.
NtNotify(org) ==
    /\ Len(ntNotes) < NtMaxNotes
    /\ ntNotes' = Append(ntNotes, org) /\ ntOwed' = Append(ntOwed, NtWants(org))
    /\ UNCHANGED <<ntDelivered, ntRead, ntConn, ntLinks, ntSent, ntSweep, ntChanges, ntFaults>>

-----------------------------------------------------------------------------
(* Requests *)

\* The links of an organisation become these; who loses his is owed nothing more.
NtRelink(org, links) ==
    /\ ntLinks' = [ntLinks EXCEPT ![org] = links]
    /\ ntOwed' = [n \in DOMAIN ntOwed |->
                    IF ntNotes[n] = org THEN {u \in ntOwed[n] : links[u] = "on"} ELSE ntOwed[n]]

NtRequest == NtChange /\ UNCHANGED <<ntNotes, ntDelivered, ntRead, ntSent, ntSweep, ntFaults>>

\* The OAuth callback writes the connection and stores the token in a second
\* statement.  The insert links the users who signed in with Slack; connecting
\* again updates the row and links nobody.
NtConnect(org) ==
    /\ ntConn[org] # "connecting" /\ NtRequest
    /\ ntConn' = [ntConn EXCEPT ![org] = IF @ = "token" THEN @ ELSE "connecting"]
    /\ IF ntConn[org] = "none"
       THEN \E slackUsers \in SUBSET NtUsers :
                NtRelink(org, [u \in NtUsers |-> IF u \in slackUsers THEN "on" ELSE "none"])
       ELSE UNCHANGED <<ntLinks, ntOwed>>

NtStoreToken(org) ==
    /\ ntConn[org] = "connecting"
    /\ \/ ntConn' = [ntConn EXCEPT ![org] = "token"] /\ UNCHANGED ntFaults
       \/ ntConn' = [ntConn EXCEPT ![org] = "no token"] /\ NtFault
    /\ UNCHANGED <<ntNotes, ntDelivered, ntRead, ntLinks, ntSent, ntOwed, ntSweep, ntChanges>>

\* The links and the secret go with the connection.
NtDisconnect(org) ==
    /\ ntConn[org] # "none" /\ NtRequest
    /\ ntConn' = [ntConn EXCEPT ![org] = "none"]
    /\ NtRelink(org, [u \in NtUsers |-> "none"])

NtLink(org, u) ==
    /\ ntConn[org] # "none" /\ NtRequest /\ UNCHANGED ntConn
    /\ NtRelink(org, [ntLinks[org] EXCEPT ![u] = "on"])

NtUnlink(org, u) ==
    /\ ntLinks[org][u] # "none" /\ NtRequest /\ UNCHANGED ntConn
    /\ NtRelink(org, [ntLinks[org] EXCEPT ![u] = "none"])

NtSetMessages(org, u) ==
    /\ ntLinks[org][u] # "none" /\ NtRequest /\ UNCHANGED ntConn
    /\ \E wish \in {"on", "off"} : NtRelink(org, [ntLinks[org] EXCEPT ![u] = wish])

\* One notification, or all the organisation has, is marked as read.
NtMarkRead(org) ==
    /\ NtChange
    /\ LET own == {n \in DOMAIN ntNotes : ntNotes[n] = org}
       IN  \E read \in {{n} : n \in own} \cup {own} :
               ~(read \subseteq ntRead) /\ ntRead' = ntRead \cup read
    /\ UNCHANGED <<ntNotes, ntDelivered, ntConn, ntLinks, ntSent, ntOwed, ntSweep, ntFaults>>

-----------------------------------------------------------------------------
(* Sweeps *)

\* GetPendingSlackNotifications: the oldest of those whose organisation has a
\* workspace.
NtPending == {n \in DOMAIN ntNotes \ ntDelivered : ntConn[ntNotes[n]] # "none"}

\* Mutant: the newest come first.
NtNewest(pending) == {n \in pending : Cardinality({m \in pending : m > n}) < NtLimit}

NtOldest(pending) == {n \in pending : Cardinality({m \in pending : m < n}) < NtLimit}

\* The notification a sweep is at: the oldest of what is left of its batch.
NtHead(s) == CHOOSE n \in ntSweep[s].batch : \A m \in ntSweep[s].batch : n <= m

NtSweepTo(s, sweep) == ntSweep' = [ntSweep EXCEPT ![s] = sweep]
NtNext(s) ==
    LET rest == ntSweep[s].batch \ {NtHead(s)}
    IN  IF rest = {} THEN NtIdle ELSE [NtIdle EXCEPT !.batch = rest, !.at = "next"]

NtSwept == UNCHANGED <<ntNotes, ntRead, ntConn, ntLinks, ntOwed, ntChanges>>

NtBegin(s) ==
    /\ ntSweep[s].at = "idle" /\ NtPending # {}
    /\ NtSweepTo(s, [NtIdle EXCEPT !.batch = NtOldest(NtPending), !.at = "next"])
    /\ NtSwept /\ UNCHANGED <<ntDelivered, ntSent, ntFaults>>

\* Deliver reads the workspace, its token and the links that want messages.  No
\* workspace, or no link, is a delivery; no token is a failure.
NtDeliver(s) ==
    /\ ntSweep[s].at = "next"
    /\ LET org == ntNotes[NtHead(s)]
       IN  NtSweepTo(s,
             IF ntConn[org] \in {"connecting", "no token"} THEN NtNext(s)
             ELSE [ntSweep[s] EXCEPT !.at = "sending", !.todo = NtWants(org)])
    /\ NtSwept /\ UNCHANGED <<ntDelivered, ntSent, ntFaults>>

\* A message that fails does not stop the others.
NtSend(s) ==
    /\ ntSweep[s].at = "sending"
    /\ \E u \in ntSweep[s].todo :
        \/ /\ ntSent' = ntSent \cup {<<NtHead(s), u>>} /\ UNCHANGED ntFaults
           /\ NtSweepTo(s, [ntSweep[s] EXCEPT !.todo = @ \ {u}])
        \/ /\ NtFault /\ UNCHANGED ntSent
           /\ NtSweepTo(s, [ntSweep[s] EXCEPT !.todo = @ \ {u}, !.failed = TRUE])
    /\ NtSwept /\ UNCHANGED ntDelivered

\* Mutant: only a delivery that failed altogether counts as one that failed.
NtDoneDespiteFailure(sweep) == sweep.todo = {}

NtDone(sweep) == sweep.todo = {} /\ ~sweep.failed

NtMark(s) ==
    /\ ntSweep[s].at = "sending" /\ NtDone(ntSweep[s])
    /\ \/ ntDelivered' = ntDelivered \cup {NtHead(s)} /\ UNCHANGED ntFaults
       \/ NtFault /\ UNCHANGED ntDelivered
    /\ NtSweepTo(s, NtNext(s)) /\ NtSwept /\ UNCHANGED ntSent

\* A notification that was not delivered to everyone stays pending.
NtKeep(s) ==
    /\ ntSweep[s].at = "sending" /\ ntSweep[s].todo = {} /\ ntSweep[s].failed
    /\ NtSweepTo(s, NtNext(s)) /\ NtSwept /\ UNCHANGED <<ntDelivered, ntSent, ntFaults>>

NtRestart(s) ==
    /\ ntSweep[s].at # "idle" /\ NtFault /\ NtSweepTo(s, NtIdle)
    /\ NtSwept /\ UNCHANGED <<ntDelivered, ntSent>>

NtSweepStep(s) == NtBegin(s) \/ NtDeliver(s) \/ NtSend(s) \/ NtMark(s) \/ NtKeep(s)

NotificationsNext ==
    \/ \E org \in NtOrgs :
        \/ NtNotify(org) \/ NtConnect(org) \/ NtStoreToken(org) \/ NtDisconnect(org)
        \/ NtMarkRead(org)
        \/ \E u \in NtUsers : NtLink(org, u) \/ NtUnlink(org, u) \/ NtSetMessages(org, u)
    \/ \E s \in NtSweepers : NtSweepStep(s) \/ NtRestart(s)

NotificationsSpec == NotificationsInit /\ [][NotificationsNext]_notifyVars

-----------------------------------------------------------------------------
(* Properties *)

NotificationsTypeOK ==
    /\ ntNotes \in Seq(NtOrgs) /\ Len(ntNotes) <= NtMaxNotes
    /\ ntDelivered \subseteq DOMAIN ntNotes /\ ntRead \subseteq DOMAIN ntNotes
    /\ ntConn \in [NtOrgs -> {"none", "connecting", "no token", "token"}]
    /\ ntLinks \in [NtOrgs -> [NtUsers -> {"none", "off", "on"}]]
    /\ ntSent \subseteq (DOMAIN ntNotes) \X NtUsers
    /\ \A org \in NtOrgs : ntConn[org] = "none" => ntLinks[org] = [u \in NtUsers |-> "none"]
    /\ \A s \in NtSweepers : /\ ntSweep[s].batch \subseteq DOMAIN ntNotes
                             /\ Cardinality(ntSweep[s].batch) <= NtLimit
    /\ ntChanges \in 0..NtMaxChanges /\ ntFaults \in 0..NtMaxFaults

\* A notification marked as delivered has reached every user who was linked
\* when it was written and still is: messages that fail, a mark that fails, a
\* restart between messages, two processes sweeping at once and links that come
\* and go in the middle of a delivery may repeat messages and lose none.
MarkedMeansSent ==
    \A n \in ntDelivered : \A u \in ntOwed[n] : <<n, u>> \in ntSent

\* A notification is delivered in the end unless its workspace is disconnected
\* or has no token, or a whole sweep is taken up by older ones that can never be
\* delivered: they are read first every time, whatever organisation they belong
\* to.
NtStuck == {n \in NtPending : ntConn[ntNotes[n]] # "token"}

NtGivenUp(n) ==
    n \in DOMAIN ntNotes =>
        \/ ntConn[ntNotes[n]] # "token"
        \/ Cardinality({m \in NtStuck : m < n}) >= NtLimit

DeliveryServes ==
    \A n \in 1..NtMaxNotes :
        (n \in DOMAIN ntNotes) ~> (n \in ntDelivered \/ NtGivenUp(n))
=============================================================================
