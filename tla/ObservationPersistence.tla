----------------------- MODULE ObservationPersistence -----------------------
(***************************************************************************)
(* quillan/response_page_observation_persistence.py: recording a scanned   *)
(* page as two files, the routed evidence (an image) and the observation   *)
(* that names the evidence with its digest; and the strict listing of      *)
(* quillan/response_page_observations.py that everything downstream reads. *)
(*                                                                         *)
(* Nothing locks the two directories.  Both files are put with an          *)
(* exclusive link from a temporary file beside them, evidence first; when  *)
(* the observation cannot be put the evidence is taken back.  The          *)
(* observation directory is also where the temporary of the observation    *)
(* lies, and a listing refuses a directory that holds anything else than   *)
(* observations.  Sessions persist the pages of a scan or list the         *)
(* directory; a session may die at every step.                             *)
(***************************************************************************)
EXTENDS Naturals, Sequences, FiniteSets

CONSTANTS
  Session,
  Page,       \* the scanned pages of one work: scan, page number, route, page id
  Foreign,    \* of them, pages that another module dispatched
  Rendering,  \* the bytes rendering a page may give (they vary with the renderer)
  Absent,     \* no file
  MaxFaults   \* bound on errors and process deaths

VARIABLES
  evidence,    \* Page -> the content of its routed evidence
  observation, \* Page -> the content whose digest its observation records
  temp,        \* Session -> the temporary of its observation is there
  stray,       \* a temporary nobody will remove is in the observation directory
  issued,      \* the issuance of the pages is still issued
  pc,
  todo,        \* Session -> the pages of its scan still to persist, in order
  content,     \* Session -> what it rendered of the page at hand
  unlisted,    \* Session -> the names its listing still has to verify
  answer,      \* Session -> what it last reported
  owner,       \* history: Page -> the session whose running call put its evidence
  faults

files == <<evidence, observation>>
vars == <<evidence, observation, temp, stray, issued, pc, todo, content, unlisted, answer,
          owner, faults>>

\* created and existing are successes; failed and integrity carry the paths
\* the caller is told to look at; the others are answers of a listing.
Status == {"none", "created", "existing", "failed", "integrity", "died", "listed",
           "observation_invalid", "observation_missing_evidence",
           "observation_evidence_hash_mismatch"}
Answer == [status : Status, page : Page \cup {Absent},
           namesObservation : BOOLEAN, namesEvidence : BOOLEAN]
Step == {"idle", "page", "look", "existing", "orphan", "temps", "linkEvidence",
         "inspectEvidence", "linkObservation", "inspectObservation", "rollback", "dropTemp",
         "reload", "cleanup", "list"}

NoAnswer == [status |-> "none", page |-> Absent, namesObservation |-> FALSE,
             namesEvidence |-> FALSE]

Init ==
  /\ evidence = [p \in Page |-> Absent]
  /\ observation = [p \in Page |-> Absent]
  /\ temp = [s \in Session |-> FALSE]
  /\ stray = FALSE
  /\ issued = TRUE
  /\ pc = [s \in Session |-> "idle"]
  /\ todo = [s \in Session |-> <<>>]
  /\ content = [s \in Session |-> Absent]
  /\ unlisted = [s \in Session |-> {}]
  /\ answer = [s \in Session |-> NoAnswer]
  /\ owner = [p \in Page |-> Absent]
  /\ faults = 0

Fault == faults < MaxFaults /\ faults' = faults + 1
Goto(s, step) == pc' = [pc EXCEPT ![s] = step]
Current(s) == Head(todo[s])

Report(s, status, obs, evi) ==
  answer' = [answer EXCEPT ![s] = [status |-> status, page |-> Current(s),
                                   namesObservation |-> obs, namesEvidence |-> evi]]

\* The page at hand has its answer; what is left is to drop temporaries.
EndPage(s, status, obs, evi) ==
  /\ Report(s, status, obs, evi)
  /\ Goto(s, "cleanup")
  /\ UNCHANGED <<temp, stray, todo, content>>

Remains == UNCHANGED <<todo, content, unlisted, answer>>

\* The evidence is the one whose digest the observation records.
Intact(p) == evidence[p] = observation[p]

\* What _inspect_destination says of a file that should hold this content.
Inspect(file, expected) ==
  IF file = Absent THEN "absent" ELSE IF file = expected THEN "exact" ELSE "contradictory"

-----------------------------------------------------------------------------
(* Persisting the successful pages of a scan, one after the other *)

\* persist_quillan_scan_observations; recovery passes a scan of one page.
Begin(s, scan) ==
  /\ pc[s] = "idle"
  /\ todo' = [todo EXCEPT ![s] = scan]
  /\ answer' = [answer EXCEPT ![s] = NoAnswer]
  /\ Goto(s, "page")
  /\ UNCHANGED <<evidence, observation, temp, stray, issued, content, unlisted, owner, faults>>

\* A page that another module dispatched is counted and left alone.
SkipForeign(s) ==
  /\ pc[s] = "page" /\ Current(s) \in Foreign
  /\ todo' = [todo EXCEPT ![s] = Tail(@)]
  /\ Goto(s, IF Len(todo[s]) = 1 THEN "idle" ELSE "page")
  /\ UNCHANGED <<evidence, observation, temp, stray, issued, content, unlisted, answer, owner, faults>>

\* The dispatch result is no authority for an issuance that is not issued.
Unauthorized(s) ==
  /\ pc[s] = "page" /\ Current(s) \notin Foreign /\ ~issued
  /\ EndPage(s, "failed", FALSE, FALSE)
  /\ UNCHANGED <<evidence, observation, issued, unlisted, owner, faults>>

\* The evidence is rendered in memory before any file is looked at.
Prepare(s, r) ==
  /\ pc[s] = "page" /\ Current(s) \notin Foreign /\ issued
  /\ content' = [content EXCEPT ![s] = r]
  /\ Goto(s, "look")
  /\ UNCHANGED <<evidence, observation, temp, stray, issued, todo, unlisted, answer, owner, faults>>

PrepareFault(s) ==
  /\ pc[s] = "page" /\ Current(s) \notin Foreign /\ issued /\ Fault
  /\ EndPage(s, "failed", FALSE, FALSE)
  /\ UNCHANGED <<evidence, observation, issued, unlisted, owner>>

LookForObservation(s) ==
  /\ pc[s] = "look"
  /\ Goto(s, IF observation[Current(s)] = Absent THEN "orphan" ELSE "existing")
  /\ UNCHANGED <<evidence, observation, temp, stray, issued, owner, faults>> /\ Remains

\* Mutant: replacing evidence that differs from what was rendered now.
ValidateExistingRepairing(s) ==
  /\ pc[s] = "existing"
  /\ evidence' = [evidence EXCEPT ![Current(s)] = content[s]]
  /\ EndPage(s, "existing", FALSE, FALSE)
  /\ UNCHANGED <<observation, issued, unlisted, owner, faults>>

\* The record must be the one this call would write, its evidence intact.
ValidateExisting(s) ==
  /\ pc[s] = "existing"
  /\ LET p == Current(s)
         same == observation[p] = content[s] /\ Intact(p)
     IN EndPage(s, IF same THEN "existing" ELSE "integrity", ~same, ~same)
  /\ UNCHANGED <<evidence, observation, issued, unlisted, owner, faults>>

\* Evidence at the destination counts as an orphan: the observation was not
\* there when it was looked for.
LookForOrphan(s) ==
  /\ pc[s] = "orphan"
  /\ IF evidence[Current(s)] # Absent
     THEN EndPage(s, "integrity", TRUE, TRUE)
     ELSE Goto(s, "temps") /\ UNCHANGED <<temp, stray, todo, content, answer>>
  /\ UNCHANGED <<evidence, observation, issued, unlisted, owner, faults>>

\* Preflight or writing a temporary fails; the error names what is there.
BeforeLinkFault(s) ==
  /\ pc[s] \in {"orphan", "temps"} /\ Fault
  /\ EndPage(s, "failed", observation[Current(s)] # Absent, evidence[Current(s)] # Absent)
  /\ UNCHANGED <<evidence, observation, issued, unlisted, owner>>

WriteTemporaries(s) ==
  /\ pc[s] = "temps"
  /\ temp' = [temp EXCEPT ![s] = TRUE]
  /\ Goto(s, "linkEvidence")
  /\ UNCHANGED <<evidence, observation, stray, issued, owner, faults>> /\ Remains

\* os.link: the destination must not exist.
PutEvidence(s) ==
  /\ evidence[Current(s)] = Absent
  /\ evidence' = [evidence EXCEPT ![Current(s)] = content[s]]
  /\ owner' = [owner EXCEPT ![Current(s)] = s]

LinkEvidence(s) ==
  /\ pc[s] = "linkEvidence" /\ PutEvidence(s)
  /\ Goto(s, "linkObservation")
  /\ UNCHANGED <<observation, temp, stray, issued, faults>> /\ Remains

LinkEvidenceCollides(s) ==
  /\ pc[s] = "linkEvidence" /\ evidence[Current(s)] # Absent
  /\ Goto(s, "inspectEvidence")
  /\ UNCHANGED <<evidence, observation, temp, stray, issued, owner, faults>> /\ Remains

\* The link is reported as failed, with or without effect, or it succeeded
\* and the temporary could not be removed: both ways the file is inspected.
LinkEvidenceFault(s) ==
  /\ pc[s] = "linkEvidence" /\ Fault
  /\ PutEvidence(s) \/ UNCHANGED <<evidence, owner>>
  /\ Goto(s, "inspectEvidence")
  /\ UNCHANGED <<observation, temp, stray, issued>> /\ Remains

\* Mutant: not telling the caller of evidence the failed link did put there.
InspectEvidenceSilently(s) ==
  /\ pc[s] = "inspectEvidence"
  /\ EndPage(s, "failed", FALSE, FALSE)
  /\ UNCHANGED <<evidence, observation, issued, unlisted, owner, faults>>

\* Evidence that is found is named to the caller and left where it is.
InspectEvidence(s) ==
  /\ pc[s] = "inspectEvidence"
  /\ LET state == Inspect(evidence[Current(s)], content[s])
     IN EndPage(s, IF state = "contradictory" THEN "integrity" ELSE "failed",
                FALSE, state # "absent")
  /\ UNCHANGED <<evidence, observation, issued, unlisted, owner, faults>>

\* Mutant: what the observation would record if it took the page for the digest.
PutObservationOfPage(s) ==
  /\ observation[Current(s)] = Absent
  /\ observation' = [observation EXCEPT ![Current(s)] = Current(s)]

PutObservation(s) ==
  /\ observation[Current(s)] = Absent
  /\ observation' = [observation EXCEPT ![Current(s)] = content[s]]

LinkObservation(s) ==
  /\ pc[s] = "linkObservation"
  /\ IF observation[Current(s)] = Absent
     THEN PutObservation(s) /\ Goto(s, "dropTemp")
     ELSE Goto(s, "inspectObservation") /\ UNCHANGED observation
  /\ UNCHANGED <<evidence, temp, stray, issued, owner, faults>> /\ Remains

LinkObservationFault(s) ==
  /\ pc[s] = "linkObservation" /\ Fault
  /\ PutObservation(s) \/ UNCHANGED observation
  /\ Goto(s, "inspectObservation")
  /\ UNCHANGED <<evidence, temp, stray, issued, owner>> /\ Remains

\* The installed observation still has its temporary beside it.
DropTemporary(s) ==
  /\ pc[s] = "dropTemp"
  /\ temp' = [temp EXCEPT ![s] = FALSE]
  /\ Goto(s, "reload")
  /\ UNCHANGED <<evidence, observation, stray, issued, owner, faults>> /\ Remains

DropTemporaryFault(s) ==
  /\ pc[s] = "dropTemp" /\ Fault
  /\ Goto(s, "inspectObservation")
  /\ UNCHANGED <<evidence, observation, temp, stray, issued, owner>> /\ Remains

\* Mutant: taking evidence back whenever the link was reported as failed.
InspectObservationNever(s) ==
  /\ pc[s] = "inspectObservation"
  /\ Goto(s, "rollback") /\ UNCHANGED <<temp, stray, todo, content, answer>>
  /\ UNCHANGED <<evidence, observation, issued, unlisted, owner, faults>>

\* Only an observation that is not there lets the evidence be taken back.
InspectObservation(s) ==
  /\ pc[s] = "inspectObservation"
  /\ LET state == Inspect(observation[Current(s)], content[s])
     IN IF state = "absent"
        THEN Goto(s, "rollback") /\ UNCHANGED <<temp, stray, todo, content, answer>>
        ELSE EndPage(s, IF state = "exact" THEN "failed" ELSE "integrity", TRUE, TRUE)
  /\ UNCHANGED <<evidence, observation, issued, unlisted, owner, faults>>

\* _remove_owned_file: only a file with exactly this call's bytes is removed.
RollBackEvidence(s) ==
  /\ pc[s] = "rollback"
  /\ LET p == Current(s)
         removed == evidence[p] \in {Absent, content[s]}
     IN /\ evidence' = [evidence EXCEPT ![p] = IF removed THEN Absent ELSE @]
        /\ owner' = [owner EXCEPT ![p] = IF removed THEN Absent ELSE @]
        /\ EndPage(s, "failed", ~removed, ~removed)
  /\ UNCHANGED <<observation, issued, unlisted, faults>>

RollBackFault(s) ==
  /\ pc[s] = "rollback" /\ Fault
  /\ EndPage(s, "failed", TRUE, TRUE)
  /\ UNCHANGED <<evidence, observation, issued, unlisted, owner>>

\* Both files are read again before the page counts as created.
Reload(s) ==
  /\ pc[s] = "reload"
  /\ LET p == Current(s)
         verified == observation[p] = content[s] /\ Intact(p)
     IN EndPage(s, IF verified THEN "created" ELSE "failed", ~verified, ~verified)
  /\ UNCHANGED <<evidence, observation, issued, unlisted, owner, faults>>

ReloadFault(s) ==
  /\ pc[s] = "reload" /\ Fault
  /\ EndPage(s, "failed", observation[Current(s)] # Absent, evidence[Current(s)] # Absent)
  /\ UNCHANGED <<evidence, observation, issued, unlisted, owner>>

Disown(s) == owner' = [p \in Page |-> IF owner[p] = s THEN Absent ELSE owner[p]]

\* Mutant: trying a failed page again at once.
NextPageAfterSuccess(s) ==
  /\ temp' = [temp EXCEPT ![s] = FALSE]
  /\ todo' = [todo EXCEPT ![s] = IF answer[s].status = "failed" THEN @ ELSE Tail(@)]
  /\ content' = [content EXCEPT ![s] = Absent]
  /\ Goto(s, IF todo'[s] = <<>> THEN "idle" ELSE "page")
  /\ Disown(s)
  /\ UNCHANGED <<evidence, observation, issued, unlisted, answer>>

\* The finally clause, and on to the next page of the batch.
NextPage(s) ==
  /\ temp' = [temp EXCEPT ![s] = FALSE]
  /\ todo' = [todo EXCEPT ![s] = Tail(@)]
  /\ content' = [content EXCEPT ![s] = Absent]
  /\ Goto(s, IF Len(todo[s]) = 1 THEN "idle" ELSE "page")
  /\ Disown(s)
  /\ UNCHANGED <<evidence, observation, issued, unlisted, answer>>

CleanUp(s) == pc[s] = "cleanup" /\ NextPage(s) /\ UNCHANGED <<stray, faults>>

\* An error while removing a temporary is swallowed: nobody hears of it.
CleanUpFault(s) == pc[s] = "cleanup" /\ temp[s] /\ Fault /\ NextPage(s) /\ stray' = TRUE

-----------------------------------------------------------------------------
(* Listing the observations, deaths, and the rest of the program *)

Litter == stray \/ \E t \in Session : temp[t]
Names == {p \in Page : observation[p] # Absent}

\* Any other name than an observation's makes the whole listing invalid.
OpenListing(s) ==
  /\ pc[s] = "idle"
  /\ IF Litter
     THEN /\ answer' = [answer EXCEPT ![s] = [NoAnswer EXCEPT !.status = "observation_invalid"]]
          /\ UNCHANGED <<pc, unlisted>>
     ELSE /\ unlisted' = [unlisted EXCEPT ![s] = Names]
          /\ Goto(s, "list")
          /\ answer' = [answer EXCEPT ![s] = NoAnswer]
  /\ UNCHANGED <<evidence, observation, temp, stray, issued, todo, content, owner, faults>>

\* Each named observation is loaded and its evidence held against the digest.
VerifyListed(s, p) ==
  /\ pc[s] = "list" /\ p \in unlisted[s]
  /\ IF Intact(p)
     THEN unlisted' = [unlisted EXCEPT ![s] = @ \ {p}] /\ UNCHANGED <<pc, answer>>
     ELSE /\ answer' = [answer EXCEPT ![s] = [NoAnswer EXCEPT
                          !.status = IF evidence[p] = Absent THEN "observation_missing_evidence"
                                     ELSE "observation_evidence_hash_mismatch"]]
          /\ unlisted' = [unlisted EXCEPT ![s] = {}]
          /\ Goto(s, "idle")
  /\ UNCHANGED <<evidence, observation, temp, stray, issued, todo, content, owner, faults>>

CloseListing(s) ==
  /\ pc[s] = "list" /\ unlisted[s] = {}
  /\ answer' = [answer EXCEPT ![s] = [NoAnswer EXCEPT !.status = "listed"]]
  /\ Goto(s, "idle")
  /\ UNCHANGED <<evidence, observation, temp, stray, issued, todo, content, unlisted, owner, faults>>

\* The process dies; its temporary stays.
Die(s) ==
  /\ pc[s] # "idle" /\ Fault
  /\ stray' = (stray \/ temp[s])
  /\ temp' = [temp EXCEPT ![s] = FALSE]
  /\ todo' = [todo EXCEPT ![s] = <<>>]
  /\ content' = [content EXCEPT ![s] = Absent]
  /\ unlisted' = [unlisted EXCEPT ![s] = {}]
  /\ answer' = [answer EXCEPT ![s] = [NoAnswer EXCEPT !.status = "died"]]
  /\ Goto(s, "idle") /\ Disown(s)
  /\ UNCHANGED <<evidence, observation, issued>>

\* A packet transition supersedes the issuance while scans are processed.
Supersede ==
  /\ issued /\ issued' = FALSE
  /\ UNCHANGED <<evidence, observation, temp, stray, pc, todo, content, unlisted, answer, owner, faults>>

-----------------------------------------------------------------------------
\* Scans of one or two different pages.
Scan == {<<p>> : p \in Page} \cup ({<<p, q>> : p, q \in Page} \ {<<p, p>> : p \in Page})
Works(s) ==
  \/ SkipForeign(s) \/ Unauthorized(s) \/ \E r \in Rendering : Prepare(s, r)
  \/ LookForObservation(s) \/ ValidateExisting(s) \/ LookForOrphan(s) \/ WriteTemporaries(s)
  \/ LinkEvidence(s) \/ LinkEvidenceCollides(s) \/ InspectEvidence(s)
  \/ LinkObservation(s) \/ DropTemporary(s) \/ InspectObservation(s) \/ RollBackEvidence(s)
  \/ Reload(s) \/ CleanUp(s)
  \/ \E p \in Page : VerifyListed(s, p)
  \/ CloseListing(s)
Fails(s) ==
  \/ PrepareFault(s) \/ BeforeLinkFault(s) \/ LinkEvidenceFault(s) \/ LinkObservationFault(s)
  \/ DropTemporaryFault(s) \/ RollBackFault(s) \/ ReloadFault(s) \/ CleanUpFault(s) \/ Die(s)

Next ==
  \/ \E s \in Session : Works(s) \/ Fails(s) \/ OpenListing(s) \/ \E scan \in Scan : Begin(s, scan)
  \/ Supersede

\* A call that runs goes on until it answers; nothing in it waits for another.
Spec == Init /\ [][Next]_vars
FairSpec == Spec /\ \A s \in Session : WF_vars(Works(s))

-----------------------------------------------------------------------------
(* Properties *)

\* The variables have their types.
TypeOK ==
  /\ evidence \in [Page -> Rendering \cup {Absent}]
  /\ observation \in [Page -> Rendering \cup {Absent}]
  /\ temp \in [Session -> BOOLEAN]
  /\ stray \in BOOLEAN /\ issued \in BOOLEAN
  /\ pc \in [Session -> Step]
  /\ todo \in [Session -> Seq(Page)]
  /\ content \in [Session -> Rendering \cup {Absent}]
  /\ unlisted \in [Session -> SUBSET Page]
  /\ answer \in [Session -> Answer]
  /\ owner \in [Page -> Session \cup {Absent}]
  /\ faults \in 0 .. MaxFaults

\* An observation has exactly the evidence it was recorded with, whatever
\* sessions persist the same page, collide, fail or take evidence back.
ObservationHasEvidence ==
  \A p \in Page : observation[p] # Absent => evidence[p] = observation[p]

\* What callers hear is true: a page reported created or existing is recorded;
\* an error that names no evidence leaves none that this call put there; and a
\* listing never meets an observation whose evidence is missing or different.
AnswersAreTrue ==
  \A s \in Session :
    /\ answer[s].status \in {"created", "existing"} => observation[answer[s].page] # Absent
    /\ pc[s] = "cleanup" /\ answer[s].status \in {"failed", "integrity"} /\ ~answer[s].namesEvidence
       => owner[answer[s].page] # s
    /\ answer[s].status \notin {"observation_missing_evidence", "observation_evidence_hash_mismatch"}

\* Evidence without observation that no running call put there: every later
\* attempt at that page is refused.
Orphans == {p \in Page : evidence[p] # Absent /\ observation[p] = Absent /\ owner[p] = Absent}

\* One error or death strands the evidence of at most one page, and without
\* one nothing stays in the directory that makes its listing invalid.
OneFaultOnePage == Cardinality(Orphans) <= faults /\ (stray => faults > 0)

\* A session that runs comes to an answer.
Answers == \A s \in Session : (pc[s] # "idle") ~> (pc[s] = "idle")

\* What is stored: the pages whose observation has the evidence it was recorded with.
Stored == [p \in Page |-> IF evidence[p] = observation[p] THEN observation[p] ELSE Absent]

\* Sessions, collisions, errors and deaths implement a store in which a page
\* appears with its evidence in one step and stays.
Store == INSTANCE ObservationStore WITH store <- Stored
Implements == Store!Spec
=============================================================================
