----------------------------- MODULE Reconcilers -----------------------------
(***************************************************************************)
(* What each of the fifteen reconcilers of internal/controller makes of    *)
(* the status it read: the pure part of Reconcile, between the Get and the *)
(* Status().Update.                                                        *)
(*                                                                         *)
(* A status is abstracted to the fields a reconciler or another writer     *)
(* can tell apart: the observed generation, the phase (for kinds without a *)
(* phase it stands for the rest of the status, which a reconciler carries  *)
(* along), and the Accepted condition.  Reasons and messages are constant  *)
(* per kind and are left out.                                              *)
(***************************************************************************)
EXTENDS Naturals

CONSTANT Phases   \* the promotion phases the model uses

NoPhase == ""

PromotionPhase ==
    {"Proposed", "Evaluating", "Blocked", "Approved", "MutatingGit",
     "WaitingForMerge", "WaitingForSync", "Verifying", "Succeeded",
     "Failed", "RolledBack", "Canceled"}

ASSUME PhasesAssumption ==
    /\ Phases \subseteq PromotionPhase
    /\ "Proposed" \in Phases

(* The Accepted condition's status; "" stands for "no such condition".     *)
ConditionStatus == {"", "True", "False"}

Status == [observedGeneration : Nat,
           phase              : Phases \cup {NoPhase},
           accepted           : ConditionStatus,
           acceptedGeneration : Nat]

EmptyStatus == [observedGeneration |-> 0, phase |-> NoPhase,
                accepted |-> "", acceptedGeneration |-> 0]

-----------------------------------------------------------------------------
(* apimeta.SetStatusCondition with Type Accepted, Status True: adds the    *)
(* condition or overwrites the one that is there.                          *)
SetStatusCondition(s, generation) ==
    [s EXCEPT !.accepted = "True", !.acceptedGeneration = generation]

(* Seeded bug: the condition keeps the generation it was first set for.    *)
AcceptStaleCondition(s, generation) ==
    SetStatusCondition([s EXCEPT !.observedGeneration = generation],
                       IF s.accepted = "" THEN generation ELSE s.acceptedGeneration)

(* The two assignments every reconciler shares.                            *)
Accept(s, generation) ==
    SetStatusCondition([s EXCEPT !.observedGeneration = generation], generation)

ApplicationReconciler(s, g)      == Accept(s, g)
ApprovalReconciler(s, g)         == Accept(s, g)
CellReconciler(s, g)             == Accept(s, g)
DeploymentReconciler(s, g)       == Accept(s, g)
DeploymentTargetReconciler(s, g) == Accept(s, g)
EnvironmentReconciler(s, g)      == Accept(s, g)
FreezeWindowReconciler(s, g)     == Accept(s, g)
HealthCheckReconciler(s, g)      == Accept(s, g)
NotifierReconciler(s, g)         == Accept(s, g)
PromotionPolicyReconciler(s, g)  == Accept(s, g)
ReleaseReconciler(s, g)          == Accept(s, g)
SourceReconciler(s, g)           == Accept(s, g)
SyncPlanReconciler(s, g)         == Accept(s, g)
SyncRunReconciler(s, g)          == Accept(s, g)

(* Seeded bugs: the phase is reset on every pass, or set outside its enum. *)
PromotionReconcilerResets(s, g)  == Accept([s EXCEPT !.phase = "Proposed"], g)
PromotionReconcilerPending(s, g) ==
    Accept([s EXCEPT !.phase = IF @ = NoPhase THEN "Pending" ELSE @], g)

(* A promotion nobody has advanced yet starts its life cycle at Proposed.  *)
PromotionReconciler(s, g) ==
    Accept([s EXCEPT !.phase = IF @ = NoPhase THEN "Proposed" ELSE @], g)

-----------------------------------------------------------------------------
(* The kinds whose controllers cmd/manager registers before it starts.     *)
Kinds == {"Application", "Source", "Release", "Environment", "Cell",
          "DeploymentTarget", "Deployment", "Promotion", "PromotionPolicy",
          "Approval", "FreezeWindow", "SyncPlan", "SyncRun", "HealthCheck",
          "Notifier"}

(* The status the controller of a kind wants for an object it has read.    *)
Reconciled(kind, s, g) ==
    CASE kind = "Application"      -> ApplicationReconciler(s, g)
      [] kind = "Source"           -> SourceReconciler(s, g)
      [] kind = "Release"          -> ReleaseReconciler(s, g)
      [] kind = "Environment"      -> EnvironmentReconciler(s, g)
      [] kind = "Cell"             -> CellReconciler(s, g)
      [] kind = "DeploymentTarget" -> DeploymentTargetReconciler(s, g)
      [] kind = "Deployment"       -> DeploymentReconciler(s, g)
      [] kind = "Promotion"        -> PromotionReconciler(s, g)
      [] kind = "PromotionPolicy"  -> PromotionPolicyReconciler(s, g)
      [] kind = "Approval"         -> ApprovalReconciler(s, g)
      [] kind = "FreezeWindow"     -> FreezeWindowReconciler(s, g)
      [] kind = "SyncPlan"         -> SyncPlanReconciler(s, g)
      [] kind = "SyncRun"          -> SyncRunReconciler(s, g)
      [] kind = "HealthCheck"      -> HealthCheckReconciler(s, g)
      [] kind = "Notifier"         -> NotifierReconciler(s, g)
=============================================================================
