------------------------------ MODULE DeepCopies ------------------------------
(***************************************************************************)
(* What api/v1alpha1/zz_generated.deepcopy.go does for each struct.  Every *)
(* DeepCopyInto begins with *out = *in, after which the two share every    *)
(* reference; each following statement is recorded under the field it      *)
(* names.  A struct with no further statement has an empty record.         *)
(* DeepCopy and DeepCopyObject allocate and call DeepCopyInto.             *)
(***************************************************************************)
EXTENDS ResourceTypes

Assign  == "out.F = in.F"                      \* the same sharing as *out = *in
Into    == "in.F.DeepCopyInto(&out.F)"
Copy    == "make; copy(*out, *in)"             \* new array, elements as they are
Each    == "make; (*in)[i].DeepCopyInto"       \* new array, each element deep
New     == "new; **out = **in"                 \* new struct, its fields as they are
NewInto == "new; (*in).DeepCopyInto(*out)"
Clone   == "*out = (*in).DeepCopy()"

(* The statements that give the copy memory of its own for the field, and  *)
(* the ones that go on inside what the field holds.                        *)
Allocating == {Copy, Each, New, NewInto, Clone}
Descending == {Into, Each, NewInto, Clone}

MetaCopy == [ObjectMeta |-> [Labels |-> Copy],
             ListMeta   |-> [RemainingItemCount |-> New],
             Condition |-> Flat, Time |-> Flat, Duration |-> Flat,
             string |-> Flat, int64 |-> Flat]

ObjectCopy     == [ObjectMeta |-> Into, Spec |-> Into, Status |-> Into]
FlatSpecCopy   == [ObjectMeta |-> Into, Spec |-> Assign, Status |-> Into]
ListCopy       == [ListMeta |-> Into, Items |-> Each]
ConditionsCopy == [Conditions |-> Each]

-----------------------------------------------------------------------------
ApplicationCopy ==
    [Application           |-> ObjectCopy,
     ApplicationDeployment |-> [Manifest |-> Assign],
     ApplicationList       |-> ListCopy,
     ApplicationManifest   |-> Flat]

ApplicationSpecCopy ==
    [ApplicationSpec |-> [Owner |-> Assign, SourceRefs |-> Copy,
                          Deployment |-> Assign, Topology |-> Into],
     ApplicationStatus   |-> ConditionsCopy,
     ApplicationTopology |-> [Environments |-> Copy]]

ApprovalCopy ==
    [Approval       |-> FlatSpecCopy,
     ApprovalList   |-> ListCopy,
     ApprovalSpec   |-> [PromotionRef |-> Assign],
     ApprovalStatus |-> [RecordedAt |-> Clone, Conditions |-> Each]]

CellCopy ==
    [Cell       |-> ObjectCopy,
     CellList   |-> ListCopy,
     CellSpec   |-> [Regions |-> Copy],
     CellStatus |-> ConditionsCopy]

DeploymentCopy ==
    [Deployment       |-> FlatSpecCopy,
     DeploymentList   |-> ListCopy,
     DeploymentSpec   |-> [TargetRef |-> Assign],
     DeploymentStatus |-> ConditionsCopy]

(* Seeded bug: the target's secret reference is left to *out = *in.        *)
DeploymentTargetCopySharedSecret ==
    [DeploymentTarget        |-> ObjectCopy,
     DeploymentTargetCluster |-> Flat,
     DeploymentTargetList    |-> ListCopy,
     DeploymentTargetSpec    |-> [Cluster |-> Into],
     DeploymentTargetStatus  |-> [Conditions |-> Each, LastContactedAt |-> Clone]]

DeploymentTargetCopy ==
    [DeploymentTarget        |-> ObjectCopy,
     DeploymentTargetCluster |-> [KubeconfigSecretRef |-> New],
     DeploymentTargetList    |-> ListCopy,
     DeploymentTargetSpec    |-> [Cluster |-> Into],
     DeploymentTargetStatus  |-> [Conditions |-> Each, LastContactedAt |-> Clone]]

EnvironmentCopy ==
    [Environment              |-> FlatSpecCopy,
     EnvironmentChangeControl |-> Flat,
     EnvironmentList          |-> ListCopy,
     EnvironmentSpec          |-> [ChangeControl |-> Assign],
     EnvironmentStatus        |-> ConditionsCopy]

FreezeWindowCopy ==
    [FreezeWindow     |-> ObjectCopy,
     FreezeWindowList |-> ListCopy,
     FreezeWindowSpec |-> [Start |-> Into, End |-> Into,
                           Environments |-> Copy, Cells |-> Copy],
     FreezeWindowStatus |-> ConditionsCopy]

HealthCheckCopy ==
    [HealthCheck       |-> ObjectCopy,
     HealthCheckList   |-> ListCopy,
     HealthCheckSpec   |-> [TargetRef |-> New],
     HealthCheckStatus |-> ConditionsCopy]

CommonCopy == [LocalObjectReference |-> Flat, OwnerInfo |-> Flat, SecretKeyRef |-> Flat]

NotifierCopy ==
    [Notifier              |-> ObjectCopy,
     NotifierDelivery      |-> [Timeout |-> New],
     NotifierEndpoint      |-> [Webhook |-> NewInto],
     NotifierEventSelector |-> [Include |-> Copy, Exclude |-> Copy],
     NotifierFilters       |-> [Environments |-> Copy, Applications |-> Copy]]

NotifierSpecCopy ==
    [NotifierList |-> ListCopy,
     NotifierSpec |-> [Endpoint |-> Into, Events |-> Into,
                       Filters  |-> Into, Delivery |-> Into],
     NotifierStatus          |-> ConditionsCopy,
     NotifierWebhookEndpoint |-> [AuthSecretRef |-> New]]

PromotionCopy ==
    [Promotion       |-> ObjectCopy,
     PromotionChange |-> Flat,
     PromotionFrom   |-> Flat,
     PromotionList   |-> ListCopy]

PromotionPolicyCopy ==
    [PromotionPolicy       |-> ObjectCopy,
     PromotionPolicyList   |-> ListCopy,
     PromotionPolicySpec   |-> [Required |-> Copy],
     PromotionPolicyStatus |-> ConditionsCopy]

(* Seeded bug: a promotion's status keeps sharing its conditions.          *)
PromotionSpecCopySharedConditions ==
    [PromotionSpec   |-> [From |-> Assign, To |-> Into,
                          Change |-> Assign, PolicyRefs |-> Copy],
     PromotionStatus |-> [Blockers |-> Copy],
     PromotionTo     |-> [Cells |-> Copy, Regions |-> Copy]]

PromotionSpecCopy ==
    [PromotionSpec   |-> [From |-> Assign, To |-> Into,
                          Change |-> Assign, PolicyRefs |-> Copy],
     PromotionStatus |-> [Blockers |-> Copy, Conditions |-> Each],
     PromotionTo     |-> [Cells |-> Copy, Regions |-> Copy]]

ReleaseCopy ==
    [Release           |-> ObjectCopy,
     ReleaseArtifact   |-> Flat,
     ReleaseList       |-> ListCopy,
     ReleaseProvenance |-> Flat,
     ReleaseSpec       |-> [Artifacts |-> Copy, Provenance |-> Assign],
     ReleaseStatus     |-> ConditionsCopy]

SourceCopy ==
    [Source                 |-> FlatSpecCopy,
     SourceList             |-> ListCopy,
     SourceObservedRevision |-> [ObservedAt |-> Clone],
     SourceSpec             |-> [Verify |-> Assign],
     SourceStatus           |-> [Conditions |-> Each, LatestRevision |-> NewInto],
     SourceVerify           |-> Flat]

SyncPlanCopy ==
    [SyncPlan       |-> ObjectCopy,
     SyncPlanList   |-> ListCopy,
     SyncPlanSpec   |-> [TargetRefs |-> Copy],
     SyncPlanStatus |-> ConditionsCopy]

SyncRunCopy ==
    [SyncRun       |-> FlatSpecCopy,
     SyncRunList   |-> ListCopy,
     SyncRunSpec   |-> [PlanRef |-> Assign, TargetRef |-> Assign],
     SyncRunStatus |-> [StartedAt |-> Clone, CompletedAt |-> Clone,
                        Conditions |-> Each]]

-----------------------------------------------------------------------------
CopyTables ==
    {MetaCopy, CommonCopy, ApplicationCopy, ApplicationSpecCopy, ApprovalCopy, CellCopy,
     DeploymentCopy, DeploymentTargetCopy, EnvironmentCopy, FreezeWindowCopy,
     HealthCheckCopy, NotifierCopy, NotifierSpecCopy, PromotionCopy,
     PromotionPolicyCopy, PromotionSpecCopy, ReleaseCopy, SourceCopy, SyncPlanCopy,
     SyncRunCopy}

Copies == Merged(CopyTables)

(* The references of a T of which DeepCopyInto gives the copy its own.     *)
Fresh[T \in DOMAIN Types] ==
    UNION { LET d     == Types[T][f]
                code  == Copies[T][f]
                below == IF code \in Descending
                         THEN {<<f>> \o p : p \in Fresh[d.type]}
                         ELSE {}
            IN  IF d.form # "value" /\ code \in Allocating
                THEN {<<f>>} \cup below ELSE below :
            f \in DOMAIN Types[T] \cap DOMAIN Copies[T] }
==============================================================================
