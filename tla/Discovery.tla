----------------------------- MODULE Discovery -----------------------------
(***************************************************************************)
(* Which pages of a site become tasks of a job: robots.txt as              *)
(* crawler/robots.go reads it, sitemap discovery in the API process        *)
(* (JobManager.processSitemap), the single root task of a job without      *)
(* sitemaps, and the links the workers find (jobs/link_discovery.go) with  *)
(* the rules they cache per job.                                           *)
(*                                                                         *)
(* A robots.txt is a sequence of lines: <<"agent", who>> begins a section  *)
(* for "our" crawler, for "any" or for an "other" one, and <<"allow", x>>  *)
(* and <<"disallow", x>> name a page or, as "/*", every page.  "Disallow:  *)
(* /" is left out: the code ignores it on purpose.  What a job does with   *)
(* its tasks, its limits and its status otherwise is in JobRecords; the    *)
(* priorities are left out, so a category of links below MinPriority is    *)
(* one without links.                                                      *)
(***************************************************************************)
EXTENDS Naturals, Sequences, FiniteSets

CONSTANTS
    DsPages,        \* pages of the site
    DsRoot,         \* "/"
    DsExcluded,     \* pages the job's exclude_paths match
    DsMaxLines,     \* bound on the lines of robots.txt
    DsMaxFaults     \* bound on failed fetches and transactions

ASSUME DsAssumption ==
    /\ DsRoot \in DsPages /\ DsExcluded \subseteq DsPages
    /\ DsMaxLines \in Nat /\ DsMaxFaults \in Nat

VARIABLES
    dsSite,     \* robots.txt: the rules read from it and those it states
    dsJob,      \* where discovery is
    dsFound,    \* URLs that wait for their batch
    dsTasks,    \* pages with a task
    dsFallback, \* the root was enqueued because nothing else was left
    dsInfo,     \* the worker's cached rules of the job
    dsBlind,    \* some fetch of robots.txt failed
    dsFaults

discoveryVars ==
    <<dsSite, dsJob, dsFound, dsTasks, dsFallback, dsInfo, dsBlind, dsFaults>>

-----------------------------------------------------------------------------
(* robots.txt *)

DsPatterns == DsPages \cup {"/*"}
DsLines == ({"agent"} \X {"our", "any", "other"}) \cup ({"allow", "disallow"} \X DsPatterns)
DsFiles ==
    {f \in UNION {[1..n -> DsLines] : n \in 0..DsMaxLines} : f # <<>> => f[1][1] = "agent"}

\* Mutant: the rules collected for any crawler are kept when the section for
\* ours begins.
DsReadLineKeeping(read, line) ==
    IF line[1] = "agent"
    THEN [read EXCEPT !.section = line[2], !.own = @ \/ line[2] = "our"]
    ELSE [read EXCEPT !.wildcard = @ \cup (IF read.section = "any" THEN {line} ELSE {}),
                      !.rules = @ \cup (IF read.section # "other" THEN {line} ELSE {})]

\* One line, given the section it stands in and the rules collected so far.
DsReadLine(read, line) ==
    IF line[1] = "agent"
    THEN [section |-> line[2],
          own |-> read.own \/ line[2] = "our",
          rules |-> IF line[2] = "our" THEN {} ELSE read.rules,
          wildcard |-> read.wildcard]
    ELSE [section |-> read.section,
          own |-> read.own,
          rules |-> IF read.section = "our" \/ (read.section = "any" /\ read.own)
                    THEN read.rules \cup {line} ELSE read.rules,
          wildcard |-> IF read.section = "any" /\ ~read.own
                       THEN read.wildcard \cup {line} ELSE read.wildcard]

DsNothingRead == [section |-> "other", own |-> FALSE, rules |-> {}, wildcard |-> {}]

\* What is read after each line of the file.
DsReads(file) ==
    LET reads[n \in 0..Len(file)] ==
            IF n = 0 THEN DsNothingRead ELSE DsReadLine(reads[n - 1], file[n])
    IN  reads

DsParse(file) ==
    LET read == DsReads(file)[Len(file)]
    IN  IF read.own THEN read.rules ELSE read.wildcard

DsMatches(pg, pattern) == pattern = pg \/ pattern = "/*"

\* An Allow that matches wins over every Disallow.
DsAllowed(rules, pg) ==
    \/ \E line \in rules : line[1] = "allow" /\ DsMatches(pg, line[2])
    \/ ~\E line \in rules : line[1] = "disallow" /\ DsMatches(pg, line[2])

\* What the file states, without reading it line by line: the section for
\* our crawler if there is one, and the one for any crawler otherwise.
DsStandsIn(file, i, who) ==
    \E j \in 1..i : file[j] = <<"agent", who>> /\ \A k \in j+1..i : file[k][1] # "agent"
DsSection(file, n, who) ==
    {file[i] : i \in {k \in 1..n : file[k][1] # "agent" /\ DsStandsIn(file, k, who)}}
DsStated(file) ==
    LET named == \E i \in DOMAIN file : file[i] = <<"agent", "our">>
    IN  DsSection(file, Len(file), IF named THEN "our" ELSE "any")

\* Nothing for any crawler, and no second section for ours, follows ours.
DsOursLast(file) ==
    \A i, j \in DOMAIN file :
        i < j /\ file[i] = <<"agent", "our">> => file[j] \notin {<<"agent", "our">>, <<"agent", "any">>}

DsReadSite(file) ==
    [read |-> DsParse(file), stated |-> DsStated(file), oursLast |-> DsOursLast(file)]

-----------------------------------------------------------------------------

NotCached == {"not cached"}
DsRunning == dsJob \in {"enqueueing", "open"}

DiscoveryInit ==
    /\ dsSite \in {DsReadSite(file) : file \in DsFiles}
    /\ dsJob = "pending" /\ dsFound = {} /\ dsFallback = FALSE
    /\ dsTasks = {} /\ dsInfo = NotCached /\ dsBlind = FALSE /\ dsFaults = 0

\* A fetch of robots.txt and the rules it yields.  A fetch that fails is a
\* warning and yields no rules, which allow everything.
DsFetch(rules) ==
    \/ rules = dsSite.read /\ UNCHANGED <<dsBlind, dsFaults>>
    \/ /\ dsFaults < DsMaxFaults /\ dsFaults' = dsFaults + 1
       /\ rules = {} /\ dsBlind' = TRUE

DsFault == dsFaults < DsMaxFaults /\ dsFaults' = dsFaults + 1 /\ UNCHANGED dsBlind

-----------------------------------------------------------------------------
(* Discovery in the API process *)

\* processSitemap may only begin with a job that is still pending.
DsBegin ==
    /\ dsJob = "pending" /\ dsJob' = "initialising"
    /\ UNCHANGED <<dsSite, dsFound, dsTasks, dsFallback, dsInfo, dsBlind, dsFaults>>

\* The URLs of a sitemap that are not excluded and that the rules allow.
DsFiltered(urls, rules) == {pg \in urls \ DsExcluded : DsAllowed(rules, pg)}

\* Sitemaps that cannot be fetched or parsed list nothing, so any set of URLs
\* may come back, whatever became of robots.txt.  If no URL passes the filters
\* the root is enqueued, which no filter looks at.
DsDiscover ==
    /\ dsJob = "initialising"
    /\ \E urls \in SUBSET DsPages, rules \in {dsSite.read, {}} :
        /\ DsFetch(rules)
        /\ dsFound' = DsFiltered(urls, rules)
        /\ IF dsFound' # {}
           THEN dsJob' = "enqueueing" /\ UNCHANGED <<dsTasks, dsFallback>>
           ELSE dsJob' = "open" /\ dsTasks' = {DsRoot} /\ dsFallback' = TRUE
    /\ UNCHANGED <<dsSite, dsInfo>>

\* enqueueFallbackURL fails: the goroutine ends and the job stays as it is.
DsFallbackFails ==
    /\ dsJob = "initialising" /\ dsJob' = "abandoned" /\ DsFault
    /\ UNCHANGED <<dsSite, dsFound, dsTasks, dsFallback, dsInfo>>

\* The homepage is in the first batch.  The first batch that lands opens the
\* job to the workers; one whose transaction fails is left out.
DsEnqueueBatch ==
    /\ dsJob = "enqueueing"
    /\ \E batch \in SUBSET dsFound :
        /\ batch # {} /\ (DsRoot \in dsFound => DsRoot \in batch)
        /\ dsFound' = dsFound \ batch
        /\ \/ dsTasks' = dsTasks \cup batch /\ UNCHANGED <<dsBlind, dsFaults>>
           \/ DsFault /\ UNCHANGED dsTasks
    /\ dsJob' = IF dsFound' = {} THEN "open" ELSE dsJob
    /\ UNCHANGED <<dsSite, dsFallback, dsInfo>>

\* A job without sitemaps has one task, for the root, unless robots.txt
\* disallows the root.
DsManualRoot ==
    /\ dsJob = "pending"
    /\ \E rules \in {dsSite.read, {}} :
        /\ DsFetch(rules)
        /\ IF DsAllowed(rules, DsRoot)
           THEN dsJob' = "open" /\ dsTasks' = {DsRoot}
           ELSE dsJob' = "failed" /\ UNCHANGED dsTasks
    /\ UNCHANGED <<dsSite, dsFound, dsFallback, dsInfo>>

\* A terminal job ends the loop over the batches; EnqueueURLs refuses the rest.
DsJobStops ==
    /\ dsJob \in {"pending", "initialising", "enqueueing", "open"}
    /\ dsJob' = "stopped" /\ dsFound' = {}
    /\ UNCHANGED <<dsSite, dsTasks, dsFallback, dsInfo, dsBlind, dsFaults>>

-----------------------------------------------------------------------------
(* Links in the worker process *)

\* The rules are fetched once per job and kept until they expire.
DsLoadJobInfo ==
    /\ DsRunning /\ dsTasks # {} /\ dsInfo = NotCached
    /\ \E rules \in {dsSite.read, {}} : DsFetch(rules) /\ dsInfo' = rules
    /\ UNCHANGED <<dsSite, dsJob, dsFound, dsTasks, dsFallback>>

DsInfoExpires ==
    /\ dsInfo # NotCached /\ dsInfo' = NotCached
    /\ UNCHANGED <<dsSite, dsJob, dsFound, dsTasks, dsFallback, dsBlind, dsFaults>>

\* The links of a category the cached rules allow; include_paths and
\* exclude_paths are not looked at.
DsLinksKept(links) == {pg \in links : DsAllowed(dsInfo, pg)}

\* The links of a crawled page, those in header and footer on the homepage
\* only, are enqueued one category after another; a category whose transaction
\* fails is left out.
DsProcessLinks ==
    /\ DsRunning /\ dsTasks # {} /\ dsInfo # NotCached
    /\ \E links \in SUBSET DsPages : dsTasks' = dsTasks \cup DsLinksKept(links)
    /\ UNCHANGED <<dsSite, dsJob, dsFound, dsFallback, dsInfo, dsBlind, dsFaults>>

DiscoveryNext ==
    \/ DsBegin \/ DsDiscover \/ DsFallbackFails \/ DsEnqueueBatch \/ DsManualRoot
    \/ DsJobStops \/ DsLoadJobInfo \/ DsInfoExpires \/ DsProcessLinks

DiscoverySpec == DiscoveryInit /\ [][DiscoveryNext]_discoveryVars

-----------------------------------------------------------------------------
(* Properties *)

DiscoveryTypeOK ==
    /\ dsJob \in {"pending", "initialising", "enqueueing", "open", "abandoned", "failed", "stopped"}
    /\ dsFound \subseteq DsPages /\ dsTasks \subseteq DsPages
    /\ dsFallback \in BOOLEAN /\ dsBlind \in BOOLEAN
    /\ (dsFound # {} => dsJob = "enqueueing") /\ dsFaults \in 0..DsMaxFaults

\* A page that robots.txt disallows for the crawler has no task, whichever of
\* the three ways a page can enter a job is taken and in whatever order the
\* sections of the file stand, but for three cases the code knows: some fetch
\* of robots.txt failed, the page is the root of a job for which no URL was
\* left, or the section for any crawler comes after the one for ours (there
\* parseRobotsTxtContent adds its lines to ours).
RobotsKept ==
    dsSite.oursLast /\ ~dsBlind =>
        \A pg \in dsTasks \ (IF dsFallback THEN {DsRoot} ELSE {}) : DsAllowed(dsSite.stated, pg)
=============================================================================
