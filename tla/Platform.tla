------------------------------- MODULE Platform ------------------------------
(***************************************************************************)
(* What outlives a run, for TLC: the document collections, a user's        *)
(* memory, the team that is deployed and shared, the logins, and what      *)
(* becomes of the drafts a batch left in the mailbox.                      *)
(*                                                                         *)
(* The components share no variable in the code: what one passes to        *)
(* another (an account, a run's end, a generation) each takes from         *)
(* everything the other could pass.  A behaviour is a behaviour of one of  *)
(* them, chosen by `focus`, while the others stay as they started: the     *)
(* state spaces add up and do not multiply.                                *)
(***************************************************************************)
EXTENDS Ingestion, UserMemory, Deployment, Login, MailAftermath

VARIABLE focus      \* the component whose behaviour this is

platformVars == <<focus, ingestVars, memoryVars, deploymentVars, loginVars, aftermathVars>>

AnyOf(S) == CHOOSE x \in S : TRUE

\* A component out of focus needs one of its initial states only.
PlatformInit ==
    /\ focus \in {"ingestion", "memory", "deployment", "login", "aftermath"}
    /\ IngestInit /\ MemoryInit /\ DeploymentInit /\ LoginInit /\ AftermathInit
    /\ focus # "memory" => account.org = AnyOf(Orgs) /\ AnyOf(memories).fact = AnyOf(Facts)
    /\ focus # "aftermath" => contract

PlatformNext ==
    /\ UNCHANGED focus
    /\ \/ /\ focus = "ingestion" /\ IngestNext
          /\ UNCHANGED <<memoryVars, deploymentVars, loginVars, aftermathVars>>
       \/ /\ focus = "memory" /\ MemoryNext
          /\ UNCHANGED <<ingestVars, deploymentVars, loginVars, aftermathVars>>
       \/ /\ focus = "deployment" /\ DeploymentNext
          /\ UNCHANGED <<ingestVars, memoryVars, loginVars, aftermathVars>>
       \/ /\ focus = "login" /\ LoginNext
          /\ UNCHANGED <<ingestVars, memoryVars, deploymentVars, aftermathVars>>
       \/ /\ focus = "aftermath" /\ AftermathNext
          /\ UNCHANGED <<ingestVars, memoryVars, deploymentVars, loginVars>>

PlatformSpec == PlatformInit /\ [][PlatformNext]_platformVars

\* What the run gives to Uploads and Designs.
TwoUploads == {{<<"a", "text">>, <<"b", "text">>}, {<<"a", "scan">>}}
TwoDesigns ==
    {[tools |-> {"mail"}, skill |-> TRUE, base |-> FALSE],
     [tools |-> {}, skill |-> TRUE, base |-> TRUE]}

\* Two states can differ in the component in focus only.
PlatformView ==
    CASE focus = "ingestion" -> <<focus, ingestVars>>
      [] focus = "memory" -> <<focus, memoryVars>>
      [] focus = "deployment" -> <<focus, deploymentVars>>
      [] focus = "login" -> <<focus, loginVars>>
      [] focus = "aftermath" -> <<focus, aftermathVars>>

\* Every variable of the component in focus has a value its columns, records and
\* messages allow; ids are unique, and no counter exceeds its limit.
PlatformTypeOK ==
    /\ focus = "ingestion" => IngestTypeOK
    /\ focus = "memory" => MemoryTypeOK
    /\ focus = "deployment" => DeploymentTypeOK
    /\ focus = "login" => LoginTypeOK
    /\ focus = "aftermath" => AftermathTypeOK
=============================================================================
