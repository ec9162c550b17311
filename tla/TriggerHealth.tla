---------------------------- MODULE TriggerHealth ----------------------------
(***************************************************************************)
(* What an organisation is told about its automatic runs: the health       *)
(* columns of its EmailTrigger row, the notifications raised from them,    *)
(* and their delivery to a webhook.                                        *)
(*                                                                         *)
(* The poller judges on the copy of the row it loaded at the start of its  *)
(* pass and a commit does not refresh it; the worker (and a retry that     *)
(* releases a stale run) judges on a session of its own.  A commit writes  *)
(* the columns that session changed.                                       *)
(***************************************************************************)
EXTENDS Naturals, Sequences, SequencesExt

CONSTANTS
    Threshold,      \* alert_threshold
    MaxDeliveries,  \* MAX_DELIVERY_ATTEMPTS
    MaxFaults,      \* bound: consecutive faults
    MaxNotices      \* bound: notifications waiting for delivery

ASSUME TriggerHealthAssumption ==
    /\ Threshold \in Nat \ {0} /\ MaxDeliveries \in Nat \ {0}
    /\ MaxFaults \in Nat /\ MaxNotices \in Nat

VARIABLES
    health,     \* consecutive_faults and alerted_fingerprint of the EmailTrigger row
    poller,     \* where the pass is, and its copy of the row
    judge,      \* the other session: its verdict and the row it read
    notices,    \* the pending Notification rows, oldest first: their delivery attempts
    secret,     \* whether the client secret's expiry is in a band that calls for a
                \* notification, and whether has_fingerprint finds that date and band
    told,       \* fingerprints whose last notice was an alert
    repeated,   \* whether a fingerprint was alerted twice with no recovery between
    raced       \* whether a verdict was committed over a row changed since it was read

healthVars == <<health, poller, judge, notices, secret, told, repeated, raced>>

FaultPrints == {"workflow", "mailbox", "run_timeout"}
Prints == FaultPrints \cup {"backlog"}

PrintOf == [workflow_fault |-> "workflow", mailbox_fault |-> "mailbox", run_timeout |-> "run_timeout"]
OkClears == [mailbox_ok |-> {"mailbox"}, workflow_ok |-> {"workflow", "run_timeout"}]
Verdicts == DOMAIN PrintOf \cup DOMAIN OkClears

Health == [faults : 0 .. MaxFaults, out : SUBSET Prints]
Healthy == [faults |-> 0, out |-> {}]
Nothing == [alert |-> {}, recovered |-> {}]

HealthInit ==
    /\ health = Healthy
    /\ poller = [pc |-> "idle", copy |-> Healthy]
    /\ judge = [verdict |-> "none", seen |-> Healthy]
    /\ notices = <<>> /\ secret = "far"
    /\ told = {} /\ repeated = FALSE /\ raced = FALSE

HealthTypeOK ==
    /\ health \in Health
    /\ poller \in [pc : {"idle", "loaded", "released", "checked", "upkeep"}, copy : Health]
    /\ judge \in [verdict : Verdicts \cup {"none"}, seen : Health]
    /\ repeated \in BOOLEAN /\ raced \in BOOLEAN /\ told \subseteq Prints
    /\ notices \in Seq(0 .. MaxDeliveries - 1) /\ Len(notices) <= MaxNotices
    /\ secret \in {"far", "near", "announced"}

----------------------------------------------------------------------------
(* Verdicts.                                                               *)

\* Faulty: the column remembers only the latest fingerprint.
AlertingLatest(out, f) == {f}

Alerting(out, f) == out \cup {f}

\* evaluate: the columns after a verdict, and what to tell.
Evaluate(verdict, h) ==
    IF verdict \in DOMAIN OkClears
    THEN LET cleared == h.out \cap OkClears[verdict]
         IN IF h.out \cap FaultPrints = {} THEN [health |-> [h EXCEPT !.faults = 0], say |-> Nothing]
            ELSE IF cleared # {} THEN [health |-> [faults |-> 0, out |-> h.out \ cleared],
                                       say |-> [Nothing EXCEPT !.recovered = cleared]]
            ELSE [health |-> h, say |-> Nothing]
    ELSE LET f == PrintOf[verdict]
             counted == [h EXCEPT !.faults = @ + 1]
             due == verdict = "run_timeout" \/ counted.faults >= Threshold
         IN IF due /\ f \notin h.out
            THEN [health |-> [counted EXCEPT !.out = Alerting(@, f)], say |-> [Nothing EXCEPT !.alert = {f}]]
            ELSE [health |-> counted, say |-> Nothing]

\* evaluate_backlog: the same column, its own fingerprint.
EvaluateBacklog(h, over) ==
    CASE over /\ "backlog" \notin h.out ->
            [health |-> [h EXCEPT !.out = Alerting(@, "backlog")], say |-> [Nothing EXCEPT !.alert = {"backlog"}]]
      [] ~over /\ "backlog" \in h.out ->
            [health |-> [h EXCEPT !.out = @ \ {"backlog"}], say |-> [Nothing EXCEPT !.recovered = {"backlog"}]]
      [] OTHER -> [health |-> h, say |-> Nothing]

\* The UPDATE names the columns that differ from what the session had read.
Changed(base, new) ==
    [c \in {"faults", "out"} |-> IF new[c] = base[c] THEN health[c] ELSE new[c]]

Raise == notices' = Append(notices, 0)

\* One commit: the columns and the notification.
CommitDecision(decision, base) ==
    /\ health' = Changed(base, decision.health)
    /\ raced' = (raced \/ health # base)
    /\ told' = IF raced' THEN {} ELSE (told \cup decision.say.alert) \ decision.say.recovered
    /\ repeated' = (~raced' /\ (repeated \/ decision.say.alert \cap told # {}))
    /\ IF decision.say = Nothing THEN UNCHANGED notices ELSE Len(notices) < MaxNotices /\ Raise

----------------------------------------------------------------------------
(* The poller's pass over this organisation.                               *)

LoadTriggers ==
    /\ poller.pc = "idle" /\ poller' = [pc |-> "loaded", copy |-> health]
    /\ UNCHANGED <<health, judge, notices, secret, told, repeated, raced>>

PollVerdict(verdict, next) ==
    /\ verdict \in DOMAIN PrintOf => poller.copy.faults < MaxFaults
    /\ LET decision == Evaluate(verdict, poller.copy)
       IN /\ CommitDecision(decision, poller.copy)
          /\ poller' = [pc |-> next, copy |-> decision.health]
    /\ UNCHANGED <<judge, secret>>

\* _release_stale_run, before the mailbox is looked at.
ReleaseStale == poller.pc = "loaded" /\ PollVerdict("run_timeout", "released")

CheckMailbox ==
    /\ poller.pc \in {"loaded", "released"}
    /\ \/ \E verdict \in {"mailbox_ok", "mailbox_fault"} : PollVerdict(verdict, "checked")
       \/ \* poll_org returned before it reached the mailbox
          /\ poller' = [poller EXCEPT !.pc = "checked"]
          /\ UNCHANGED <<health, judge, notices, secret, told, repeated, raced>>

ApplyBacklogHealth ==
    /\ poller.pc = "checked"
    /\ \E over \in BOOLEAN :
         LET decision == EvaluateBacklog(poller.copy, over)
         IN \/ /\ decision.health # poller.copy /\ CommitDecision(decision, poller.copy)
               /\ poller' = [pc |-> "upkeep", copy |-> decision.health]
            \/ \* nothing to say, or a failure that was rolled back
               /\ poller' = [pc |-> "upkeep", copy |-> health]
               /\ UNCHANGED <<health, notices, told, repeated, raced>>
    /\ UNCHANGED <<judge, secret>>

\* sweep_secret_expiry: once per band of each secret's expiry date; a budget alert
\* (_raise_budget_alert) is raised once per period the same way.
SweepExpiry ==
    /\ poller.pc = "upkeep" /\ secret = "near"
    /\ Len(notices) < MaxNotices /\ Raise /\ secret' = "announced"
    /\ UNCHANGED <<health, poller, judge, told, repeated, raced>>

\* dispatch_pending: every pending row, one commit after the last POST; a process that
\* dies before that commit has posted and will post again.
Undelivered(failed) ==
    FoldLeft(LAMBDA left, i : IF i \in failed /\ notices[i] + 1 < MaxDeliveries
                              THEN Append(left, notices[i] + 1) ELSE left,
             <<>>, [i \in 1 .. Len(notices) |-> i])

Dispatch ==
    /\ poller.pc = "upkeep" /\ secret # "near"
    /\ \E failed \in SUBSET (1 .. Len(notices)) : notices' = Undelivered(failed)
    /\ poller' = [pc |-> "idle", copy |-> Healthy]
    /\ UNCHANGED <<health, judge, secret, told, repeated, raced>>

\* Maintenance failed before dispatch_pending, or the process restarted.
EndPass ==
    /\ poller.pc # "idle" /\ poller' = [pc |-> "idle", copy |-> Healthy]
    /\ UNCHANGED <<health, judge, notices, secret, told, repeated, raced>>

----------------------------------------------------------------------------
(* Other sessions, and the world.                                          *)

\* A worker whose run is still the trigger's last one reads the row, as does a
\* retry that releases a stale run.
ReadRow ==
    /\ judge.verdict = "none"
    /\ \E verdict \in {"workflow_ok", "workflow_fault", "run_timeout"} :
         /\ verdict # "workflow_ok" => health.faults < MaxFaults
         /\ judge' = [verdict |-> verdict, seen |-> health]
    /\ UNCHANGED <<health, poller, notices, secret, told, repeated, raced>>

CommitVerdict ==
    /\ judge.verdict # "none"
    /\ CommitDecision(Evaluate(judge.verdict, judge.seen), judge.seen)
    /\ judge' = [verdict |-> "none", seen |-> Healthy]
    /\ UNCHANGED <<poller, secret>>

\* The date comes closer, the secret is renewed, or an earlier one is put back.
SecretMoves ==
    /\ secret' \in {"far", "near", "announced"} \ {secret}
    /\ UNCHANGED <<health, poller, judge, notices, told, repeated, raced>>

HealthNext ==
    \/ LoadTriggers \/ ReleaseStale \/ CheckMailbox \/ ApplyBacklogHealth \/ SweepExpiry \/ Dispatch \/ EndPass
    \/ ReadRow \/ CommitVerdict \/ SecretMoves

HealthSpec == HealthInit /\ [][HealthNext]_healthVars

----------------------------------------------------------------------------
(* Properties.                                                             *)

\* Alerts and recoveries alternate, fingerprint by fingerprint, although the
\* verdicts come from three places and share one column: unless one of them was
\* committed over a row that had changed since it was read, what the column
\* holds outstanding is what the organisation was last told, and no alert is
\* repeated.
AlertsMatchEpisodes == ~raced => health.out = told /\ ~repeated
=============================================================================
