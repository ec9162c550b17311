------------------------------ MODULE Deployment ------------------------------
(***************************************************************************)
(* One team of an organisation: the builder session it is designed in, the *)
(* skills and the document collection it depends on, its published         *)
(* versions, and who runs it - members, and visitors with a share link.    *)
(*                                                                         *)
(* A request that publishes or deletes checks and commits under            *)
(* component_mutation_lock; a builder request that calls a model reads the *)
(* session, waits for the model and writes; a visitor's request reads the  *)
(* team once and compiles what it read.                                    *)
(***************************************************************************)
EXTENDS Naturals, FiniteSets

CONSTANTS
    Changes,        \* requests under the lock that may be open at once
    Designs,        \* the specifications a customer may end up with
    MaxChanges,     \* bound: requests under the lock
    MaxDrafts       \* bound: builder requests that call a model

VARIABLES
    skillRow,   \* SkillRecord "s" of the organisation and of the platform, with what it grants
    baseRow,    \* whether the collection "k" exists
    team,       \* the PipelineRecord: published at all, active, and the current version
    mutex,      \* holder of component_mutation_lock, or "free"
    change,     \* the requests that take it
    session,    \* the BuilderSession
    draft,      \* a builder request between its read and its write
    link,       \* the share link: "none", "minting", "active" or "revoked"
    visit,      \* the version a visitor's request has read, or NoVersion
    running,    \* runs started: who asked and with which tools
    recorded,   \* whether a run of the team has its row
    changes, drafts

deploymentVars == <<skillRow, baseRow, team, mutex, change, session, draft, link, visit,
                    running, recorded, changes, drafts>>

Tiers == {"own", "shared"}
Grants == {"nothing", "mail", "web"}

Design == [tools : SUBSET {"mail", "web"}, skill : BOOLEAN, base : BOOLEAN]

ASSUME DeploymentAssumption ==
    MaxChanges \in Nat /\ MaxDrafts \in Nat /\ Designs \subseteq Design /\ "free" \notin Changes

NoDesign == [tools |-> {}, skill |-> FALSE, base |-> FALSE]

\* pin is the SkillRecord the dependency row names; grants is the pinned, immutable version
Version == [design : Design, pin : Tiers \cup {"none"}, grants : Grants]
NoVersion == [design |-> NoDesign, pin |-> "none", grants |-> "nothing"]

Tools(v) == v.design.tools \cup ({v.grants} \ {"nothing"})
Contained(tools) == ~({"mail", "web"} \subseteq tools)

Acts == {"none", "publish_team", "go_live", "drop_team", "publish_skill", "drop_skill", "drop_base"}
NoChange == [pc |-> "idle", act |-> "none", design |-> NoDesign, tier |-> "own", grants |-> "nothing"]
Stages == {"intent", "requirements", "spec", "solution", "testing", "deployed"}
NoSession == [exists |-> FALSE, status |-> "intent", spec |-> NoDesign, has |-> FALSE, live |-> FALSE]
NoDraft == [stage |-> "none", spec |-> NoDesign]

ChangeStates == [pc : {"idle", "asked", "ready"}, act : Acts, design : Design, tier : Tiers, grants : Grants]
Sessions == [exists : BOOLEAN, status : Stages, spec : Design, has : BOOLEAN, live : BOOLEAN]

DeploymentInit ==
    /\ skillRow = [k \in Tiers |-> [exists |-> k = "shared", grants |-> "nothing"]]
    /\ baseRow = TRUE
    /\ team = [exists |-> FALSE, active |-> TRUE, version |-> NoVersion]
    /\ mutex = "free" /\ change = [c \in Changes |-> NoChange]
    /\ session = NoSession /\ draft = NoDraft
    /\ link = "none" /\ visit = NoVersion /\ running = {} /\ recorded = FALSE
    /\ changes = 0 /\ drafts = 0

DeploymentTypeOK ==
    /\ skillRow \in [Tiers -> [exists : BOOLEAN, grants : Grants]] /\ baseRow \in BOOLEAN
    /\ team \in [exists : BOOLEAN, active : BOOLEAN, version : Version]
    /\ mutex \in Changes \cup {"free"}
    /\ change \in [Changes -> ChangeStates]
    /\ mutex = "free" \/ change[mutex].pc = "ready"
    /\ session \in Sessions
    /\ session.live => session.exists /\ team.exists
    /\ draft \in [stage : Stages \cup {"none"}, spec : Design]
    /\ link \in {"none", "minting", "active", "revoked"} /\ visit \in Version
    /\ recorded \in BOOLEAN
    /\ running \subseteq [visitor : BOOLEAN, tools : SUBSET {"mail", "web"}]

----------------------------------------------------------------------------
(* Requests under component_mutation_lock.                                 *)

\* load_skills: an organisation's own skill shadows the platform's of that name.
Seen == IF skillRow["own"].exists THEN "own" ELSE IF skillRow["shared"].exists THEN "shared" ELSE "none"
GrantsSeen == IF Seen = "none" THEN "nothing" ELSE skillRow[Seen].grants

\* What publishing the design now would pin.
Resolved(d) == [design |-> d, pin |-> IF d.skill THEN Seen ELSE "none",
                grants |-> IF d.skill THEN GrantsSeen ELSE "nothing"]

\* The resources a version cannot be built without are there.
Builds(v) ==
    /\ v.design.skill => v.pin # "none" /\ skillRow[v.pin].exists
    /\ v.design.base => baseRow

\* Faulty: no lock.
MutexIgnored == TRUE

\* Nobody holds component_mutation_lock.
MutexFree == mutex = "free"

\* What the request asks; a session is read here, before the lock is taken.
AskChange(c) ==
    /\ change[c].pc = "idle" /\ changes < MaxChanges /\ changes' = changes + 1
    /\ \E act \in Acts \ {"none"}, d \in Designs, k \in Tiers, g \in Grants :
         /\ act = "go_live" => session.exists /\ session.has /\ d = session.spec
         /\ act \notin {"go_live", "publish_team"} => d = CHOOSE e \in Designs : TRUE
         /\ act \notin {"publish_skill", "drop_skill"} => k = "own"
         /\ act # "publish_skill" => g = "nothing"
         /\ change' = [change EXCEPT ![c] = [pc |-> "asked", act |-> act, design |-> d, tier |-> k, grants |-> g]]
    /\ UNCHANGED <<skillRow, baseRow, team, mutex, session, draft, link, visit, running, recorded, drafts>>

\* The checks of each handler, under the lock.
Accepted(q) ==
    CASE q.act \in {"publish_team", "go_live"} ->
            Builds(Resolved(q.design)) /\ Contained(Tools(Resolved(q.design)))
      [] q.act = "drop_team" -> team.exists /\ ~recorded /\ link # "active"
      [] q.act = "publish_skill" -> TRUE
      [] q.act = "drop_skill" -> skillRow[q.tier].exists /\ ~(team.exists /\ team.version.pin = q.tier)
      [] q.act = "drop_base" -> baseRow /\ ~(team.exists /\ team.version.design.base)

CheckChange(c) ==
    /\ change[c].pc = "asked" /\ MutexFree
    /\ \/ /\ Accepted(change[c]) /\ mutex' = c
          /\ change' = [change EXCEPT ![c].pc = "ready"]
       \/ \* refused, also for a model outside the catalog or a mailbox that is not connected
          change' = [change EXCEPT ![c] = NoChange] /\ UNCHANGED mutex
    /\ UNCHANGED <<skillRow, baseRow, team, session, draft, link, visit, running, recorded, changes, drafts>>

\* publish_pipeline_version: the dependencies are resolved again, and pinned.
PublishTeam(q) ==
    /\ team' = [team EXCEPT !.exists = TRUE, !.version = Resolved(q.design)]
    /\ UNCHANGED <<skillRow, baseRow, link>>

\* Faulty: the builder's sessions keep the id of the team.
DropTeamAlone ==
    /\ team' = [exists |-> FALSE, active |-> TRUE, version |-> NoVersion]
    /\ link' = IF link = "revoked" THEN "none" ELSE link
    /\ UNCHANGED <<skillRow, baseRow, session>>

\* delete_pipeline_config: its sessions let go of it, its revoked link goes too
DropTeam ==
    /\ team' = [exists |-> FALSE, active |-> TRUE, version |-> NoVersion]
    /\ session' = [session EXCEPT !.live = FALSE]
    /\ link' = IF link = "revoked" THEN "none" ELSE link
    /\ UNCHANGED <<skillRow, baseRow>>

CommitChange(c) ==
    LET q == change[c] IN
    /\ q.pc = "ready" /\ mutex' = "free" /\ change' = [change EXCEPT ![c] = NoChange]
    /\ \/ q.act = "publish_team" /\ PublishTeam(q) /\ UNCHANGED session
       \/ /\ q.act = "go_live"
          /\ IF session.exists
             THEN PublishTeam(q) /\ session' = [session EXCEPT !.status = "deployed", !.live = TRUE]
             ELSE UNCHANGED <<team, skillRow, baseRow, link, session>>     \* LookupError: rolled back
       \/ q.act = "drop_team" /\ DropTeam
       \/ /\ q.act \in {"publish_skill", "drop_skill"}
          /\ skillRow' = [skillRow EXCEPT ![q.tier] = [exists |-> q.act = "publish_skill", grants |-> q.grants]]
          /\ UNCHANGED <<team, baseRow, link, session>>
       \/ q.act = "drop_base" /\ baseRow' = FALSE /\ UNCHANGED <<team, skillRow, link, session>>
    /\ UNCHANGED <<draft, visit, running, recorded, changes, drafts>>

----------------------------------------------------------------------------
(* The builder.                                                            *)

OpenSession ==
    /\ ~session.exists
    /\ session' = [NoSession EXCEPT !.exists = TRUE]
    /\ UNCHANGED <<skillRow, baseRow, team, mutex, change, draft, link, visit, running, recorded, changes, drafts>>

\* A request reads the session and asks a model for requirements, for a specification or for
\* a redesign of the one there is; what it read before is only in the prompt.
StartDraft(stage) ==
    /\ draft.stage = "none" /\ session.exists /\ drafts < MaxDrafts /\ drafts' = drafts + 1
    /\ stage = "solution" => session.has
    /\ \E d \in Designs :
         /\ stage = "requirements" => d = CHOOSE e \in Designs : TRUE
         /\ draft' = [stage |-> stage, spec |-> d]
    /\ UNCHANGED <<skillRow, baseRow, team, mutex, change, session, link, visit, running, recorded, changes>>

\* update_session writes only its own fields, on whatever the session is by now; a session
\* that is gone, and a model that fails, end the request.
FinishDraft ==
    /\ draft.stage # "none" /\ draft' = NoDraft
    /\ \/ /\ session.exists
          /\ session' = IF draft.stage = "requirements"
                        THEN [session EXCEPT !.status = "requirements"]
                        ELSE [session EXCEPT !.status = draft.stage, !.spec = draft.spec, !.has = TRUE]
       \/ UNCHANGED session
    /\ UNCHANGED <<skillRow, baseRow, team, mutex, change, link, visit, running, recorded, changes, drafts>>

\* create_test_run builds the stored specification and starts a run nobody else sees
TestTeam ==
    /\ session.exists /\ session.has /\ Builds(Resolved(session.spec)) /\ session.status # "testing"
    /\ session' = [session EXCEPT !.status = "testing"]
    /\ UNCHANGED <<skillRow, baseRow, team, mutex, change, draft, link, visit, running, recorded, changes, drafts>>

DiscardSession ==
    /\ session.exists /\ ~session.live /\ session' = NoSession
    /\ UNCHANGED <<skillRow, baseRow, team, mutex, change, draft, link, visit, running, recorded, changes, drafts>>

----------------------------------------------------------------------------
(* Running the team.                                                       *)

PauseTeam ==
    /\ team.exists /\ team' = [team EXCEPT !.active = ~team.active]
    /\ UNCHANGED <<skillRow, baseRow, mutex, change, session, draft, link, visit, running, recorded, changes, drafts>>

\* create_run: of the version it resolves, with the skills that version pinned; the row
\* follows when a worker takes the run
RunTeam ==
    /\ team.exists /\ team.active /\ (team.version.design.base => baseRow)
    /\ running' = running \cup {[visitor |-> FALSE, tools |-> Tools(team.version)]}
    /\ UNCHANGED <<skillRow, baseRow, team, mutex, change, session, draft, link, visit, recorded, changes, drafts>>

RecordRun ==
    /\ running # {} /\ ~recorded /\ recorded' = TRUE
    /\ UNCHANGED <<skillRow, baseRow, team, mutex, change, session, draft, link, visit, running, changes, drafts>>

\* create_share_link_endpoint checks the team and commits the link, without the lock
StartLink ==
    /\ link = "none" /\ team.exists /\ "mail" \notin Tools(team.version) /\ link' = "minting"
    /\ UNCHANGED <<skillRow, baseRow, team, mutex, change, session, draft, visit, running, recorded, changes, drafts>>

MintLink ==
    /\ link = "minting" /\ link' = "active"
    /\ UNCHANGED <<skillRow, baseRow, team, mutex, change, session, draft, visit, running, recorded, changes, drafts>>

RevokeLink ==
    /\ link = "active" /\ link' = "revoked"
    /\ UNCHANGED <<skillRow, baseRow, team, mutex, change, session, draft, visit, running, recorded, changes, drafts>>

\* _resolve_shareable_pipeline: the team must be live and hold no email tool
VisitTeam ==
    /\ visit = NoVersion /\ link = "active" /\ team.exists /\ team.active
    /\ "mail" \notin Tools(team.version) /\ visit' = team.version
    /\ UNCHANGED <<skillRow, baseRow, team, mutex, change, session, draft, link, running, recorded, changes, drafts>>

\* Faulty: the team is read again.
CompiledAnew == team.version

\* The record is in the request's identity map (a team dropped and published again has the
\* same row id): what is compiled is the version that was checked.
Compiled == visit

\* The run and its row, or a refusal: the caps are ShareChat's.
AnswerVisitor ==
    /\ visit # NoVersion /\ visit' = NoVersion
    /\ \/ /\ team.exists /\ (Compiled.design.base => baseRow)
          /\ running' = running \cup {[visitor |-> TRUE, tools |-> Tools(Compiled)]}
          /\ recorded' = TRUE
       \/ UNCHANGED <<running, recorded>>
    /\ UNCHANGED <<skillRow, baseRow, team, mutex, change, session, draft, link, changes, drafts>>

----------------------------------------------------------------------------
DeploymentNext ==
    \/ \E c \in Changes : AskChange(c) \/ CheckChange(c) \/ CommitChange(c)
    \/ \E stage \in {"requirements", "spec", "solution"} : StartDraft(stage)
    \/ OpenSession \/ FinishDraft \/ TestTeam \/ DiscardSession
    \/ PauseTeam \/ RunTeam \/ RecordRun \/ StartLink \/ MintLink \/ RevokeLink \/ VisitTeam \/ AnswerVisitor

DeploymentSpec == DeploymentInit /\ [][DeploymentNext]_deploymentVars

\* A published team can be run: the skill it pins and the collection it names are there,
\* whatever was deleted around it.
PublishedTeamBuilds == team.exists => Builds(team.version)

\* A visitor never starts a run that holds an email tool, also when the team is published
\* again, with one, while the visitor's message is being taken.
VisitorsReadNoMail == \A r \in running : r.visitor => "mail" \notin r.tools
=============================================================================
