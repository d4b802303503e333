---------------------------- MODULE ResourceTypes ----------------------------
(***************************************************************************)
(* The memory layout of the custom resources, as api/v1alpha1/*_types.go   *)
(* declares it: for each struct, the fields through which an object holds  *)
(* memory of its own, or that lead to such a field.  A field holds a       *)
(* struct by value, points to one, or is a slice of them; what holds no    *)
(* reference of any depth (a string, a number, a Boolean, an enum) is      *)
(* copied by the struct assignment and is left out, so a struct of such    *)
(* fields only has an empty layout.                                        *)
(***************************************************************************)
EXTENDS Sequences

Value(T) == [form |-> "value", type |-> T]
Ptr(T)   == [form |-> "pointer", type |-> T]
Slice(T) == [form |-> "slice", type |-> T]

Flat == <<>>          \* a struct whose fields hold no reference

(* Structs of apimachinery.  The labels, annotations, owner references and *)
(* the other references of an ObjectMeta stand together as one.            *)
MetaTypes ==
    [ObjectMeta |-> [Labels |-> Slice("string")],
     ListMeta   |-> [RemainingItemCount |-> Ptr("int64")],
     Condition |-> Flat, Time |-> Flat, Duration |-> Flat,
     string |-> Flat, int64 |-> Flat]

CommonTypes ==
    [LocalObjectReference |-> Flat, SecretKeyRef |-> Flat, OwnerInfo |-> Flat]

(* The two structs every types file declares for its kind.                 *)
Resource(spec, status) == [ObjectMeta |-> Value("ObjectMeta"),
                           Spec |-> Value(spec), Status |-> Value(status)]
ListOf(kind) == [ListMeta |-> Value("ListMeta"), Items |-> Slice(kind)]

Conditions == Slice("Condition")

-----------------------------------------------------------------------------
ApplicationTypes ==
    [ApplicationManifest   |-> Flat,
     ApplicationDeployment |-> [Manifest |-> Value("ApplicationManifest")],
     ApplicationTopology   |-> [Environments |-> Slice("string")],
     ApplicationSpec |-> [Owner      |-> Value("OwnerInfo"),
                          SourceRefs |-> Slice("LocalObjectReference"),
                          Deployment |-> Value("ApplicationDeployment"),
                          Topology   |-> Value("ApplicationTopology")],
     ApplicationStatus |-> [Conditions |-> Conditions],
     Application       |-> Resource("ApplicationSpec", "ApplicationStatus"),
     ApplicationList   |-> ListOf("Application")]

ApprovalTypes ==
    [ApprovalSpec   |-> [PromotionRef |-> Value("LocalObjectReference")],
     ApprovalStatus |-> [RecordedAt |-> Ptr("Time"), Conditions |-> Conditions],
     Approval       |-> Resource("ApprovalSpec", "ApprovalStatus"),
     ApprovalList   |-> ListOf("Approval")]

CellTypes ==
    [CellSpec   |-> [Regions |-> Slice("string")],
     CellStatus |-> [Conditions |-> Conditions],
     Cell       |-> Resource("CellSpec", "CellStatus"),
     CellList   |-> ListOf("Cell")]

DeploymentTypes ==
    [DeploymentSpec   |-> [TargetRef |-> Value("LocalObjectReference")],
     DeploymentStatus |-> [Conditions |-> Conditions],
     Deployment       |-> Resource("DeploymentSpec", "DeploymentStatus"),
     DeploymentList   |-> ListOf("Deployment")]

DeploymentTargetTypes ==
    [DeploymentTargetCluster |->
         [KubeconfigSecretRef |-> Ptr("LocalObjectReference")],
     DeploymentTargetSpec   |-> [Cluster |-> Value("DeploymentTargetCluster")],
     DeploymentTargetStatus |-> [Conditions      |-> Conditions,
                                 LastContactedAt |-> Ptr("Time")],
     DeploymentTarget     |-> Resource("DeploymentTargetSpec", "DeploymentTargetStatus"),
     DeploymentTargetList |-> ListOf("DeploymentTarget")]

EnvironmentTypes ==
    [EnvironmentChangeControl |-> Flat,
     EnvironmentSpec   |-> [ChangeControl |-> Value("EnvironmentChangeControl")],
     EnvironmentStatus |-> [Conditions |-> Conditions],
     Environment       |-> Resource("EnvironmentSpec", "EnvironmentStatus"),
     EnvironmentList   |-> ListOf("Environment")]

FreezeWindowTypes ==
    [FreezeWindowSpec |-> [Start |-> Value("Time"), End |-> Value("Time"),
                           Environments |-> Slice("string"),
                           Cells        |-> Slice("string")],
     FreezeWindowStatus |-> [Conditions |-> Conditions],
     FreezeWindow       |-> Resource("FreezeWindowSpec", "FreezeWindowStatus"),
     FreezeWindowList   |-> ListOf("FreezeWindow")]

HealthCheckTypes ==
    [HealthCheckSpec   |-> [TargetRef |-> Ptr("LocalObjectReference")],
     HealthCheckStatus |-> [Conditions |-> Conditions],
     HealthCheck       |-> Resource("HealthCheckSpec", "HealthCheckStatus"),
     HealthCheckList   |-> ListOf("HealthCheck")]

NotifierSpecTypes ==
    [NotifierSpec |-> [Endpoint |-> Value("NotifierEndpoint"),
                       Events   |-> Value("NotifierEventSelector"),
                       Filters  |-> Value("NotifierFilters"),
                       Delivery |-> Value("NotifierDelivery")],
     NotifierEndpoint        |-> [Webhook |-> Ptr("NotifierWebhookEndpoint")],
     NotifierWebhookEndpoint |-> [AuthSecretRef |-> Ptr("SecretKeyRef")],
     NotifierEventSelector   |-> [Include |-> Slice("string"),
                                  Exclude |-> Slice("string")],
     NotifierFilters         |-> [Environments |-> Slice("string"),
                                  Applications |-> Slice("string")],
     NotifierDelivery        |-> [Timeout |-> Ptr("Duration")]]

NotifierTypes ==
    [NotifierStatus |-> [Conditions |-> Conditions],
     Notifier       |-> Resource("NotifierSpec", "NotifierStatus"),
     NotifierList   |-> ListOf("Notifier")]

PromotionTypes ==
    [PromotionFrom   |-> Flat,
     PromotionTo     |-> [Cells |-> Slice("string"), Regions |-> Slice("string")],
     PromotionChange |-> Flat,
     PromotionSpec   |-> [From |-> Value("PromotionFrom"),
                          To   |-> Value("PromotionTo"),
                          Change     |-> Value("PromotionChange"),
                          PolicyRefs |-> Slice("LocalObjectReference")],
     PromotionStatus |-> [Blockers |-> Slice("string"), Conditions |-> Conditions],
     Promotion       |-> Resource("PromotionSpec", "PromotionStatus"),
     PromotionList   |-> ListOf("Promotion")]

PromotionPolicyTypes ==
    [PromotionPolicySpec   |-> [Required |-> Slice("string")],
     PromotionPolicyStatus |-> [Conditions |-> Conditions],
     PromotionPolicy       |-> Resource("PromotionPolicySpec", "PromotionPolicyStatus"),
     PromotionPolicyList   |-> ListOf("PromotionPolicy")]

ReleaseTypes ==
    [ReleaseArtifact   |-> Flat,
     ReleaseProvenance |-> Flat,
     ReleaseSpec       |-> [Artifacts  |-> Slice("ReleaseArtifact"),
                            Provenance |-> Value("ReleaseProvenance")],
     ReleaseStatus     |-> [Conditions |-> Conditions],
     Release           |-> Resource("ReleaseSpec", "ReleaseStatus"),
     ReleaseList       |-> ListOf("Release")]

SourceTypes ==
    [SourceVerify           |-> Flat,
     SourceSpec             |-> [Verify |-> Value("SourceVerify")],
     SourceObservedRevision |-> [ObservedAt |-> Ptr("Time")],
     SourceStatus |-> [Conditions     |-> Conditions,
                       LatestRevision |-> Ptr("SourceObservedRevision")],
     Source       |-> Resource("SourceSpec", "SourceStatus"),
     SourceList   |-> ListOf("Source")]

SyncPlanTypes ==
    [SyncPlanSpec   |-> [TargetRefs |-> Slice("LocalObjectReference")],
     SyncPlanStatus |-> [Conditions |-> Conditions],
     SyncPlan       |-> Resource("SyncPlanSpec", "SyncPlanStatus"),
     SyncPlanList   |-> ListOf("SyncPlan")]

SyncRunTypes ==
    [SyncRunSpec   |-> [PlanRef   |-> Value("LocalObjectReference"),
                        TargetRef |-> Value("LocalObjectReference")],
     SyncRunStatus |-> [StartedAt   |-> Ptr("Time"),
                        CompletedAt |-> Ptr("Time"),
                        Conditions  |-> Conditions],
     SyncRun       |-> Resource("SyncRunSpec", "SyncRunStatus"),
     SyncRunList   |-> ListOf("SyncRun")]

-----------------------------------------------------------------------------
TypeTables ==
    {MetaTypes, CommonTypes, ApplicationTypes, ApprovalTypes, CellTypes,
     DeploymentTypes, DeploymentTargetTypes, EnvironmentTypes, FreezeWindowTypes,
     HealthCheckTypes, NotifierSpecTypes, NotifierTypes, PromotionTypes,
     PromotionPolicyTypes, ReleaseTypes, SourceTypes, SyncPlanTypes, SyncRunTypes}

(* One function from tables whose domains are disjoint.                    *)
Merged(tables) ==
    [T \in UNION {DOMAIN t : t \in tables} |->
        (CHOOSE t \in tables : T \in DOMAIN t)[T]]

Types == Merged(TypeTables)

(* The path of every reference an object of type T can hold.  A slice is   *)
(* represented by one element: the copy loops treat all elements alike.    *)
Refs[T \in DOMAIN Types] ==
    UNION { LET d     == Types[T][f]
                below == {<<f>> \o p : p \in Refs[d.type]}
            IN  IF d.form = "value" THEN below ELSE {<<f>>} \cup below :
            f \in DOMAIN Types[T] }
==============================================================================
