------------------------- MODULE ObjectCopiesProofs -------------------------
(***************************************************************************)
(* The proofs about ObjectCopies.  The first part is about the tables: the *)
(* types nest in at most five levels, so Refs and Fresh are what their     *)
(* recursive definitions say, and every reference a type declares is one   *)
(* its generated copy code allocates.  The second part is the inductive    *)
(* invariant of the reconcile that works on such copies.                   *)
(***************************************************************************)
EXTENDS ObjectCopies, SequenceTheorems, TLAPS

(* How deep structs nest below a type, as the declarations have it: a      *)
(* struct at one height holds structs of lower heights only.               *)
FlatTypes ==
    {"ApplicationManifest", "Condition", "Duration",
     "EnvironmentChangeControl", "LocalObjectReference", "OwnerInfo",
     "PromotionChange", "PromotionFrom", "ReleaseArtifact",
     "ReleaseProvenance", "SecretKeyRef", "SourceVerify", "Time", "int64",
     "string"}

Height1 ==
    {"ApplicationDeployment", "ApplicationStatus", "ApplicationTopology",
     "ApprovalSpec", "ApprovalStatus", "CellSpec", "CellStatus",
     "DeploymentSpec", "DeploymentStatus", "DeploymentTargetCluster",
     "DeploymentTargetStatus", "EnvironmentSpec", "EnvironmentStatus",
     "FreezeWindowSpec", "FreezeWindowStatus", "HealthCheckSpec",
     "HealthCheckStatus", "ListMeta", "NotifierDelivery",
     "NotifierEventSelector", "NotifierFilters", "NotifierStatus",
     "NotifierWebhookEndpoint", "ObjectMeta", "PromotionPolicySpec",
     "PromotionPolicyStatus", "PromotionStatus", "PromotionTo", "ReleaseSpec",
     "ReleaseStatus", "SourceObservedRevision", "SourceSpec", "SyncPlanSpec",
     "SyncPlanStatus", "SyncRunSpec", "SyncRunStatus"}

Height2 ==
    {"ApplicationSpec", "Approval", "Cell", "Deployment",
     "DeploymentTargetSpec", "Environment", "FreezeWindow", "HealthCheck",
     "NotifierEndpoint", "PromotionPolicy", "PromotionSpec", "Release",
     "SourceStatus", "SyncPlan", "SyncRun"}

Height3 ==
    {"Application", "ApprovalList", "CellList", "DeploymentList",
     "DeploymentTarget", "EnvironmentList", "FreezeWindowList",
     "HealthCheckList", "NotifierSpec", "Promotion", "PromotionPolicyList",
     "ReleaseList", "Source", "SyncPlanList", "SyncRunList"}

Height4 ==
    {"ApplicationList", "DeploymentTargetList", "Notifier", "PromotionList",
     "SourceList"}

Height5 == {"NotifierList"}

TypeNames == FlatTypes \cup Height1 \cup Height2 \cup Height3 \cup Height4 \cup Height5

Height(T) == IF T \in FlatTypes THEN 0
             ELSE IF T \in Height1 THEN 1
             ELSE IF T \in Height2 THEN 2
             ELSE IF T \in Height3 THEN 3
             ELSE IF T \in Height4 THEN 4 ELSE 5

(* The structs without any reference: their copy is the assignment.        *)
PlainTypes ==
    FlatTypes \cup {"ApplicationDeployment", "ApprovalSpec", "DeploymentSpec",
                     "EnvironmentSpec", "SourceSpec", "SyncRunSpec"}

(* What makes the entry of a type sound: its fields are of types declared  *)
(* below it, a field that is a reference is allocated by the copy, and the *)
(* copy goes on inside a field that leads to references.                   *)
FieldSound(T, f) ==
    /\ Types[T][f].type \in TypeNames
    /\ Height(Types[T][f].type) < Height(T)
    /\ Types[T][f].form # "value" =>
           f \in DOMAIN Copies[T] /\ Copies[T][f] \in Allocating
    /\ Types[T][f].type \notin PlainTypes =>
           f \in DOMAIN Copies[T] /\ Copies[T][f] \in Descending
    /\ T \in PlainTypes => Types[T][f].form = "value" /\ Types[T][f].type \in FlatTypes

EntrySound(T) == \A f \in DOMAIN Types[T] : FieldSound(T, f)

-----------------------------------------------------------------------------
(* A table is the only one of some tables to have its names.               *)
Owns(tables, t) == \A u \in tables, T \in DOMAIN t : T \in DOMAIN u => u = t

(* What a merged function says of the names of a table.                    *)
Entries(merged, t) == \A T \in DOMAIN t : T \in DOMAIN merged /\ merged[T] = t[T]

(* A table that shares no name with another decides the merged entries.    *)
LEMMA MergedEntries ==
    ASSUME NEW tables, NEW t \in tables, Owns(tables, t)
    PROVE  Entries(Merged(tables), t)
<1> SUFFICES ASSUME NEW T \in DOMAIN t
             PROVE  T \in DOMAIN Merged(tables) /\ Merged(tables)[T] = t[T]
  BY DEF Entries
<1>1. (CHOOSE u \in tables : T \in DOMAIN u) = t
  BY DEF Owns
<1>2. T \in UNION {DOMAIN u : u \in tables}
  BY DEF Owns
<1> QED
  BY <1>1, <1>2 DEF Merged

(* No struct is declared in two of the tables of types, so each of them is *)
(* a part of Types.                                                        *)
LEMMA TypeEntries ==
    /\ Entries(Types, MetaTypes)
    /\ Entries(Types, CommonTypes)
    /\ Entries(Types, ApplicationTypes)
    /\ Entries(Types, ApprovalTypes)
    /\ Entries(Types, CellTypes)
    /\ Entries(Types, DeploymentTypes)
    /\ Entries(Types, DeploymentTargetTypes)
    /\ Entries(Types, EnvironmentTypes)
    /\ Entries(Types, FreezeWindowTypes)
    /\ Entries(Types, HealthCheckTypes)
    /\ Entries(Types, NotifierSpecTypes)
    /\ Entries(Types, NotifierTypes)
    /\ Entries(Types, PromotionTypes)
    /\ Entries(Types, PromotionPolicyTypes)
    /\ Entries(Types, ReleaseTypes)
    /\ Entries(Types, SourceTypes)
    /\ Entries(Types, SyncPlanTypes)
    /\ Entries(Types, SyncRunTypes)
<1>1. DOMAIN MetaTypes =
        {"Condition", "Duration", "ListMeta", "ObjectMeta", "Time", "int64",
         "string"}
  BY DEF MetaTypes
<1>2. DOMAIN CommonTypes = {"LocalObjectReference", "OwnerInfo", "SecretKeyRef"}
  BY DEF CommonTypes
<1>3. DOMAIN ApplicationTypes =
        {"Application", "ApplicationDeployment", "ApplicationList",
         "ApplicationManifest", "ApplicationSpec", "ApplicationStatus",
         "ApplicationTopology"}
  BY DEF ApplicationTypes
<1>4. DOMAIN ApprovalTypes =
        {"Approval", "ApprovalList", "ApprovalSpec", "ApprovalStatus"}
  BY DEF ApprovalTypes
<1>5. DOMAIN CellTypes = {"Cell", "CellList", "CellSpec", "CellStatus"}
  BY DEF CellTypes
<1>6. DOMAIN DeploymentTypes =
        {"Deployment", "DeploymentList", "DeploymentSpec", "DeploymentStatus"}
  BY DEF DeploymentTypes
<1>7. DOMAIN DeploymentTargetTypes =
        {"DeploymentTarget", "DeploymentTargetCluster", "DeploymentTargetList",
         "DeploymentTargetSpec", "DeploymentTargetStatus"}
  BY DEF DeploymentTargetTypes
<1>8. DOMAIN EnvironmentTypes =
        {"Environment", "EnvironmentChangeControl", "EnvironmentList",
         "EnvironmentSpec", "EnvironmentStatus"}
  BY DEF EnvironmentTypes
<1>9. DOMAIN FreezeWindowTypes =
        {"FreezeWindow", "FreezeWindowList", "FreezeWindowSpec",
         "FreezeWindowStatus"}
  BY DEF FreezeWindowTypes
<1>10. DOMAIN HealthCheckTypes =
        {"HealthCheck", "HealthCheckList", "HealthCheckSpec",
         "HealthCheckStatus"}
  BY DEF HealthCheckTypes
<1>11. DOMAIN NotifierSpecTypes =
        {"NotifierDelivery", "NotifierEndpoint", "NotifierEventSelector",
         "NotifierFilters", "NotifierSpec", "NotifierWebhookEndpoint"}
  BY DEF NotifierSpecTypes
<1>12. DOMAIN NotifierTypes = {"Notifier", "NotifierList", "NotifierStatus"}
  BY DEF NotifierTypes
<1>13. DOMAIN PromotionTypes =
        {"Promotion", "PromotionChange", "PromotionFrom", "PromotionList",
         "PromotionSpec", "PromotionStatus", "PromotionTo"}
  BY DEF PromotionTypes
<1>14. DOMAIN PromotionPolicyTypes =
        {"PromotionPolicy", "PromotionPolicyList", "PromotionPolicySpec",
         "PromotionPolicyStatus"}
  BY DEF PromotionPolicyTypes
<1>15. DOMAIN ReleaseTypes =
        {"Release", "ReleaseArtifact", "ReleaseList", "ReleaseProvenance",
         "ReleaseSpec", "ReleaseStatus"}
  BY DEF ReleaseTypes
<1>16. DOMAIN SourceTypes =
        {"Source", "SourceList", "SourceObservedRevision", "SourceSpec",
         "SourceStatus", "SourceVerify"}
  BY DEF SourceTypes
<1>17. DOMAIN SyncPlanTypes =
        {"SyncPlan", "SyncPlanList", "SyncPlanSpec", "SyncPlanStatus"}
  BY DEF SyncPlanTypes
<1>18. DOMAIN SyncRunTypes =
        {"SyncRun", "SyncRunList", "SyncRunSpec", "SyncRunStatus"}
  BY DEF SyncRunTypes
<1>19. /\ MetaTypes \in TypeTables
       /\ CommonTypes \in TypeTables
       /\ ApplicationTypes \in TypeTables
       /\ ApprovalTypes \in TypeTables
       /\ CellTypes \in TypeTables
       /\ DeploymentTypes \in TypeTables
       /\ DeploymentTargetTypes \in TypeTables
       /\ EnvironmentTypes \in TypeTables
       /\ FreezeWindowTypes \in TypeTables
       /\ HealthCheckTypes \in TypeTables
       /\ NotifierSpecTypes \in TypeTables
       /\ NotifierTypes \in TypeTables
       /\ PromotionTypes \in TypeTables
       /\ PromotionPolicyTypes \in TypeTables
       /\ ReleaseTypes \in TypeTables
       /\ SourceTypes \in TypeTables
       /\ SyncPlanTypes \in TypeTables
       /\ SyncRunTypes \in TypeTables
  BY DEF TypeTables
<1> USE <1>1, <1>2, <1>3, <1>4, <1>5, <1>6, <1>7, <1>8, <1>9, <1>10, <1>11,
        <1>12, <1>13, <1>14, <1>15, <1>16, <1>17, <1>18
<1>20. Owns(TypeTables, MetaTypes)
  BY SMTT(60) DEF Owns, TypeTables
<1>21. Owns(TypeTables, CommonTypes)
  BY SMTT(60) DEF Owns, TypeTables
<1>22. Owns(TypeTables, ApplicationTypes)
  BY SMTT(60) DEF Owns, TypeTables
<1>23. Owns(TypeTables, ApprovalTypes)
  BY SMTT(60) DEF Owns, TypeTables
<1>24. Owns(TypeTables, CellTypes)
  BY SMTT(60) DEF Owns, TypeTables
<1>25. Owns(TypeTables, DeploymentTypes)
  BY SMTT(60) DEF Owns, TypeTables
<1>26. Owns(TypeTables, DeploymentTargetTypes)
  BY SMTT(60) DEF Owns, TypeTables
<1>27. Owns(TypeTables, EnvironmentTypes)
  BY SMTT(60) DEF Owns, TypeTables
<1>28. Owns(TypeTables, FreezeWindowTypes)
  BY SMTT(60) DEF Owns, TypeTables
<1>29. Owns(TypeTables, HealthCheckTypes)
  BY SMTT(60) DEF Owns, TypeTables
<1>30. Owns(TypeTables, NotifierSpecTypes)
  BY SMTT(60) DEF Owns, TypeTables
<1>31. Owns(TypeTables, NotifierTypes)
  BY SMTT(60) DEF Owns, TypeTables
<1>32. Owns(TypeTables, PromotionTypes)
  BY SMTT(60) DEF Owns, TypeTables
<1>33. Owns(TypeTables, PromotionPolicyTypes)
  BY SMTT(60) DEF Owns, TypeTables
<1>34. Owns(TypeTables, ReleaseTypes)
  BY SMTT(60) DEF Owns, TypeTables
<1>35. Owns(TypeTables, SourceTypes)
  BY SMTT(60) DEF Owns, TypeTables
<1>36. Owns(TypeTables, SyncPlanTypes)
  BY SMTT(60) DEF Owns, TypeTables
<1>37. Owns(TypeTables, SyncRunTypes)
  BY SMTT(60) DEF Owns, TypeTables
<1> HIDE <1>1, <1>2, <1>3, <1>4, <1>5, <1>6, <1>7, <1>8, <1>9, <1>10, <1>11,
         <1>12, <1>13, <1>14, <1>15, <1>16, <1>17, <1>18
<1>38. Entries(Types, MetaTypes)
  BY <1>20, <1>19, MergedEntries DEF Types
<1>39. Entries(Types, CommonTypes)
  BY <1>21, <1>19, MergedEntries DEF Types
<1>40. Entries(Types, ApplicationTypes)
  BY <1>22, <1>19, MergedEntries DEF Types
<1>41. Entries(Types, ApprovalTypes)
  BY <1>23, <1>19, MergedEntries DEF Types
<1>42. Entries(Types, CellTypes)
  BY <1>24, <1>19, MergedEntries DEF Types
<1>43. Entries(Types, DeploymentTypes)
  BY <1>25, <1>19, MergedEntries DEF Types
<1>44. Entries(Types, DeploymentTargetTypes)
  BY <1>26, <1>19, MergedEntries DEF Types
<1>45. Entries(Types, EnvironmentTypes)
  BY <1>27, <1>19, MergedEntries DEF Types
<1>46. Entries(Types, FreezeWindowTypes)
  BY <1>28, <1>19, MergedEntries DEF Types
<1>47. Entries(Types, HealthCheckTypes)
  BY <1>29, <1>19, MergedEntries DEF Types
<1>48. Entries(Types, NotifierSpecTypes)
  BY <1>30, <1>19, MergedEntries DEF Types
<1>49. Entries(Types, NotifierTypes)
  BY <1>31, <1>19, MergedEntries DEF Types
<1>50. Entries(Types, PromotionTypes)
  BY <1>32, <1>19, MergedEntries DEF Types
<1>51. Entries(Types, PromotionPolicyTypes)
  BY <1>33, <1>19, MergedEntries DEF Types
<1>52. Entries(Types, ReleaseTypes)
  BY <1>34, <1>19, MergedEntries DEF Types
<1>53. Entries(Types, SourceTypes)
  BY <1>35, <1>19, MergedEntries DEF Types
<1>54. Entries(Types, SyncPlanTypes)
  BY <1>36, <1>19, MergedEntries DEF Types
<1>55. Entries(Types, SyncRunTypes)
  BY <1>37, <1>19, MergedEntries DEF Types
<1> QED
  BY Zenon, <1>38, <1>39, <1>40, <1>41, <1>42, <1>43, <1>44, <1>45, <1>46,
     <1>47, <1>48, <1>49, <1>50, <1>51, <1>52, <1>53, <1>54, <1>55

(* No struct has copy code in two of the tables of copies, so each of them *)
(* is a part of Copies.                                                    *)
LEMMA CopyEntries ==
    /\ Entries(Copies, MetaCopy)
    /\ Entries(Copies, CommonCopy)
    /\ Entries(Copies, ApplicationCopy)
    /\ Entries(Copies, ApplicationSpecCopy)
    /\ Entries(Copies, ApprovalCopy)
    /\ Entries(Copies, CellCopy)
    /\ Entries(Copies, DeploymentCopy)
    /\ Entries(Copies, DeploymentTargetCopy)
    /\ Entries(Copies, EnvironmentCopy)
    /\ Entries(Copies, FreezeWindowCopy)
    /\ Entries(Copies, HealthCheckCopy)
    /\ Entries(Copies, NotifierCopy)
    /\ Entries(Copies, NotifierSpecCopy)
    /\ Entries(Copies, PromotionCopy)
    /\ Entries(Copies, PromotionPolicyCopy)
    /\ Entries(Copies, PromotionSpecCopy)
    /\ Entries(Copies, ReleaseCopy)
    /\ Entries(Copies, SourceCopy)
    /\ Entries(Copies, SyncPlanCopy)
    /\ Entries(Copies, SyncRunCopy)
<1>1. DOMAIN MetaCopy =
        {"Condition", "Duration", "ListMeta", "ObjectMeta", "Time", "int64",
         "string"}
  BY DEF MetaCopy
<1>2. DOMAIN CommonCopy = {"LocalObjectReference", "OwnerInfo", "SecretKeyRef"}
  BY DEF CommonCopy
<1>3. DOMAIN ApplicationCopy =
        {"Application", "ApplicationDeployment", "ApplicationList",
         "ApplicationManifest"}
  BY DEF ApplicationCopy
<1>4. DOMAIN ApplicationSpecCopy =
        {"ApplicationSpec", "ApplicationStatus", "ApplicationTopology"}
  BY DEF ApplicationSpecCopy
<1>5. DOMAIN ApprovalCopy =
        {"Approval", "ApprovalList", "ApprovalSpec", "ApprovalStatus"}
  BY DEF ApprovalCopy
<1>6. DOMAIN CellCopy = {"Cell", "CellList", "CellSpec", "CellStatus"}
  BY DEF CellCopy
<1>7. DOMAIN DeploymentCopy =
        {"Deployment", "DeploymentList", "DeploymentSpec", "DeploymentStatus"}
  BY DEF DeploymentCopy
<1>8. DOMAIN DeploymentTargetCopy =
        {"DeploymentTarget", "DeploymentTargetCluster", "DeploymentTargetList",
         "DeploymentTargetSpec", "DeploymentTargetStatus"}
  BY DEF DeploymentTargetCopy
<1>9. DOMAIN EnvironmentCopy =
        {"Environment", "EnvironmentChangeControl", "EnvironmentList",
         "EnvironmentSpec", "EnvironmentStatus"}
  BY DEF EnvironmentCopy
<1>10. DOMAIN FreezeWindowCopy =
        {"FreezeWindow", "FreezeWindowList", "FreezeWindowSpec",
         "FreezeWindowStatus"}
  BY DEF FreezeWindowCopy
<1>11. DOMAIN HealthCheckCopy =
        {"HealthCheck", "HealthCheckList", "HealthCheckSpec",
         "HealthCheckStatus"}
  BY DEF HealthCheckCopy
<1>12. DOMAIN NotifierCopy =
        {"Notifier", "NotifierDelivery", "NotifierEndpoint",
         "NotifierEventSelector", "NotifierFilters"}
  BY DEF NotifierCopy
<1>13. DOMAIN NotifierSpecCopy =
        {"NotifierList", "NotifierSpec", "NotifierStatus",
         "NotifierWebhookEndpoint"}
  BY DEF NotifierSpecCopy
<1>14. DOMAIN PromotionCopy =
        {"Promotion", "PromotionChange", "PromotionFrom", "PromotionList"}
  BY DEF PromotionCopy
<1>15. DOMAIN PromotionPolicyCopy =
        {"PromotionPolicy", "PromotionPolicyList", "PromotionPolicySpec",
         "PromotionPolicyStatus"}
  BY DEF PromotionPolicyCopy
<1>16. DOMAIN PromotionSpecCopy =
        {"PromotionSpec", "PromotionStatus", "PromotionTo"}
  BY DEF PromotionSpecCopy
<1>17. DOMAIN ReleaseCopy =
        {"Release", "ReleaseArtifact", "ReleaseList", "ReleaseProvenance",
         "ReleaseSpec", "ReleaseStatus"}
  BY DEF ReleaseCopy
<1>18. DOMAIN SourceCopy =
        {"Source", "SourceList", "SourceObservedRevision", "SourceSpec",
         "SourceStatus", "SourceVerify"}
  BY DEF SourceCopy
<1>19. DOMAIN SyncPlanCopy =
        {"SyncPlan", "SyncPlanList", "SyncPlanSpec", "SyncPlanStatus"}
  BY DEF SyncPlanCopy
<1>20. DOMAIN SyncRunCopy =
        {"SyncRun", "SyncRunList", "SyncRunSpec", "SyncRunStatus"}
  BY DEF SyncRunCopy
<1>21. /\ MetaCopy \in CopyTables
       /\ CommonCopy \in CopyTables
       /\ ApplicationCopy \in CopyTables
       /\ ApplicationSpecCopy \in CopyTables
       /\ ApprovalCopy \in CopyTables
       /\ CellCopy \in CopyTables
       /\ DeploymentCopy \in CopyTables
       /\ DeploymentTargetCopy \in CopyTables
       /\ EnvironmentCopy \in CopyTables
       /\ FreezeWindowCopy \in CopyTables
       /\ HealthCheckCopy \in CopyTables
       /\ NotifierCopy \in CopyTables
       /\ NotifierSpecCopy \in CopyTables
       /\ PromotionCopy \in CopyTables
       /\ PromotionPolicyCopy \in CopyTables
       /\ PromotionSpecCopy \in CopyTables
       /\ ReleaseCopy \in CopyTables
       /\ SourceCopy \in CopyTables
       /\ SyncPlanCopy \in CopyTables
       /\ SyncRunCopy \in CopyTables
  BY DEF CopyTables
<1> USE <1>1, <1>2, <1>3, <1>4, <1>5, <1>6, <1>7, <1>8, <1>9, <1>10, <1>11,
        <1>12, <1>13, <1>14, <1>15, <1>16, <1>17, <1>18, <1>19, <1>20
<1>22. Owns(CopyTables, MetaCopy)
  BY SMTT(60) DEF Owns, CopyTables
<1>23. Owns(CopyTables, CommonCopy)
  BY SMTT(60) DEF Owns, CopyTables
<1>24. Owns(CopyTables, ApplicationCopy)
  BY SMTT(60) DEF Owns, CopyTables
<1>25. Owns(CopyTables, ApplicationSpecCopy)
  BY SMTT(60) DEF Owns, CopyTables
<1>26. Owns(CopyTables, ApprovalCopy)
  BY SMTT(60) DEF Owns, CopyTables
<1>27. Owns(CopyTables, CellCopy)
  BY SMTT(60) DEF Owns, CopyTables
<1>28. Owns(CopyTables, DeploymentCopy)
  BY SMTT(60) DEF Owns, CopyTables
<1>29. Owns(CopyTables, DeploymentTargetCopy)
  BY SMTT(60) DEF Owns, CopyTables
<1>30. Owns(CopyTables, EnvironmentCopy)
  BY SMTT(60) DEF Owns, CopyTables
<1>31. Owns(CopyTables, FreezeWindowCopy)
  BY SMTT(60) DEF Owns, CopyTables
<1>32. Owns(CopyTables, HealthCheckCopy)
  BY SMTT(60) DEF Owns, CopyTables
<1>33. Owns(CopyTables, NotifierCopy)
  BY SMTT(60) DEF Owns, CopyTables
<1>34. Owns(CopyTables, NotifierSpecCopy)
  BY SMTT(60) DEF Owns, CopyTables
<1>35. Owns(CopyTables, PromotionCopy)
  BY SMTT(60) DEF Owns, CopyTables
<1>36. Owns(CopyTables, PromotionPolicyCopy)
  BY SMTT(60) DEF Owns, CopyTables
<1>37. Owns(CopyTables, PromotionSpecCopy)
  BY SMTT(60) DEF Owns, CopyTables
<1>38. Owns(CopyTables, ReleaseCopy)
  BY SMTT(60) DEF Owns, CopyTables
<1>39. Owns(CopyTables, SourceCopy)
  BY SMTT(60) DEF Owns, CopyTables
<1>40. Owns(CopyTables, SyncPlanCopy)
  BY SMTT(60) DEF Owns, CopyTables
<1>41. Owns(CopyTables, SyncRunCopy)
  BY SMTT(60) DEF Owns, CopyTables
<1> HIDE <1>1, <1>2, <1>3, <1>4, <1>5, <1>6, <1>7, <1>8, <1>9, <1>10, <1>11,
         <1>12, <1>13, <1>14, <1>15, <1>16, <1>17, <1>18, <1>19, <1>20
<1>42. Entries(Copies, MetaCopy)
  BY <1>22, <1>21, MergedEntries DEF Copies
<1>43. Entries(Copies, CommonCopy)
  BY <1>23, <1>21, MergedEntries DEF Copies
<1>44. Entries(Copies, ApplicationCopy)
  BY <1>24, <1>21, MergedEntries DEF Copies
<1>45. Entries(Copies, ApplicationSpecCopy)
  BY <1>25, <1>21, MergedEntries DEF Copies
<1>46. Entries(Copies, ApprovalCopy)
  BY <1>26, <1>21, MergedEntries DEF Copies
<1>47. Entries(Copies, CellCopy)
  BY <1>27, <1>21, MergedEntries DEF Copies
<1>48. Entries(Copies, DeploymentCopy)
  BY <1>28, <1>21, MergedEntries DEF Copies
<1>49. Entries(Copies, DeploymentTargetCopy)
  BY <1>29, <1>21, MergedEntries DEF Copies
<1>50. Entries(Copies, EnvironmentCopy)
  BY <1>30, <1>21, MergedEntries DEF Copies
<1>51. Entries(Copies, FreezeWindowCopy)
  BY <1>31, <1>21, MergedEntries DEF Copies
<1>52. Entries(Copies, HealthCheckCopy)
  BY <1>32, <1>21, MergedEntries DEF Copies
<1>53. Entries(Copies, NotifierCopy)
  BY <1>33, <1>21, MergedEntries DEF Copies
<1>54. Entries(Copies, NotifierSpecCopy)
  BY <1>34, <1>21, MergedEntries DEF Copies
<1>55. Entries(Copies, PromotionCopy)
  BY <1>35, <1>21, MergedEntries DEF Copies
<1>56. Entries(Copies, PromotionPolicyCopy)
  BY <1>36, <1>21, MergedEntries DEF Copies
<1>57. Entries(Copies, PromotionSpecCopy)
  BY <1>37, <1>21, MergedEntries DEF Copies
<1>58. Entries(Copies, ReleaseCopy)
  BY <1>38, <1>21, MergedEntries DEF Copies
<1>59. Entries(Copies, SourceCopy)
  BY <1>39, <1>21, MergedEntries DEF Copies
<1>60. Entries(Copies, SyncPlanCopy)
  BY <1>40, <1>21, MergedEntries DEF Copies
<1>61. Entries(Copies, SyncRunCopy)
  BY <1>41, <1>21, MergedEntries DEF Copies
<1> QED
  BY Zenon, <1>42, <1>43, <1>44, <1>45, <1>46, <1>47, <1>48, <1>49, <1>50,
     <1>51, <1>52, <1>53, <1>54, <1>55, <1>56, <1>57, <1>58, <1>59,
     <1>60, <1>61

(* The entry of every struct, table by table: what the types file declares *)
(* and what the generated copy code does.                                  *)
LEMMA EntriesSound == \A T \in DOMAIN Types : EntrySound(T)
<1> USE DEF EntrySound, FieldSound, Height, TypeNames, PlainTypes, FlatTypes, Height1,
            Height2, Height3, Height4, Height5, Resource, ListOf, Conditions, Value,
            Ptr, Slice, Flat, Allocating, Descending, ObjectCopy,
            FlatSpecCopy, ListCopy, ConditionsCopy
<1>1. \A T \in DOMAIN MetaTypes : EntrySound(T)
  <2>1. Entries(Types, MetaTypes) /\ Entries(Copies, MetaCopy)
    BY TypeEntries, CopyEntries, Zenon
  <2> QED
    BY SMTT(60), <2>1 DEF Entries, MetaTypes, MetaCopy
<1>2. \A T \in DOMAIN CommonTypes : EntrySound(T)
  <2>1. Entries(Types, CommonTypes) /\ Entries(Copies, CommonCopy)
    BY TypeEntries, CopyEntries, Zenon
  <2> QED
    BY SMTT(60), <2>1 DEF Entries, CommonTypes, CommonCopy
<1>3. \A T \in DOMAIN ApplicationTypes : EntrySound(T)
  <2>1. /\ Entries(Types, ApplicationTypes) /\ Entries(Copies, ApplicationCopy)
        /\ Entries(Copies, ApplicationSpecCopy)
    BY TypeEntries, CopyEntries, Zenon
  <2> QED
    BY SMTT(60), <2>1 DEF Entries, ApplicationTypes, ApplicationCopy, ApplicationSpecCopy
<1>4. \A T \in DOMAIN ApprovalTypes : EntrySound(T)
  <2>1. Entries(Types, ApprovalTypes) /\ Entries(Copies, ApprovalCopy)
    BY TypeEntries, CopyEntries, Zenon
  <2> QED
    BY SMTT(60), <2>1 DEF Entries, ApprovalTypes, ApprovalCopy
<1>5. \A T \in DOMAIN CellTypes : EntrySound(T)
  <2>1. Entries(Types, CellTypes) /\ Entries(Copies, CellCopy)
    BY TypeEntries, CopyEntries, Zenon
  <2> QED
    BY SMTT(60), <2>1 DEF Entries, CellTypes, CellCopy
<1>6. \A T \in DOMAIN DeploymentTypes : EntrySound(T)
  <2>1. Entries(Types, DeploymentTypes) /\ Entries(Copies, DeploymentCopy)
    BY TypeEntries, CopyEntries, Zenon
  <2> QED
    BY SMTT(60), <2>1 DEF Entries, DeploymentTypes, DeploymentCopy
<1>7. \A T \in DOMAIN DeploymentTargetTypes : EntrySound(T)
  <2>1. Entries(Types, DeploymentTargetTypes) /\ Entries(Copies, DeploymentTargetCopy)
    BY TypeEntries, CopyEntries, Zenon
  <2> QED
    BY SMTT(60), <2>1 DEF Entries, DeploymentTargetTypes, DeploymentTargetCopy
<1>8. \A T \in DOMAIN EnvironmentTypes : EntrySound(T)
  <2>1. Entries(Types, EnvironmentTypes) /\ Entries(Copies, EnvironmentCopy)
    BY TypeEntries, CopyEntries, Zenon
  <2> QED
    BY SMTT(60), <2>1 DEF Entries, EnvironmentTypes, EnvironmentCopy
<1>9. \A T \in DOMAIN FreezeWindowTypes : EntrySound(T)
  <2>1. Entries(Types, FreezeWindowTypes) /\ Entries(Copies, FreezeWindowCopy)
    BY TypeEntries, CopyEntries, Zenon
  <2> QED
    BY SMTT(60), <2>1 DEF Entries, FreezeWindowTypes, FreezeWindowCopy
<1>10. \A T \in DOMAIN HealthCheckTypes : EntrySound(T)
  <2>1. Entries(Types, HealthCheckTypes) /\ Entries(Copies, HealthCheckCopy)
    BY TypeEntries, CopyEntries, Zenon
  <2> QED
    BY SMTT(60), <2>1 DEF Entries, HealthCheckTypes, HealthCheckCopy
<1>11. \A T \in DOMAIN NotifierSpecTypes : EntrySound(T)
  <2>1. /\ Entries(Types, NotifierSpecTypes) /\ Entries(Copies, NotifierCopy)
        /\ Entries(Copies, NotifierSpecCopy)
    BY TypeEntries, CopyEntries, Zenon
  <2> QED
    BY SMTT(60), <2>1 DEF Entries, NotifierSpecTypes, NotifierCopy, NotifierSpecCopy
<1>12. \A T \in DOMAIN NotifierTypes : EntrySound(T)
  <2>1. /\ Entries(Types, NotifierTypes) /\ Entries(Copies, NotifierCopy)
        /\ Entries(Copies, NotifierSpecCopy)
    BY TypeEntries, CopyEntries, Zenon
  <2> QED
    BY SMTT(60), <2>1 DEF Entries, NotifierTypes, NotifierCopy, NotifierSpecCopy
<1>13. \A T \in DOMAIN PromotionTypes : EntrySound(T)
  <2>1. /\ Entries(Types, PromotionTypes) /\ Entries(Copies, PromotionCopy)
        /\ Entries(Copies, PromotionSpecCopy)
    BY TypeEntries, CopyEntries, Zenon
  <2> QED
    BY SMTT(60), <2>1 DEF Entries, PromotionTypes, PromotionCopy, PromotionSpecCopy
<1>14. \A T \in DOMAIN PromotionPolicyTypes : EntrySound(T)
  <2>1. Entries(Types, PromotionPolicyTypes) /\ Entries(Copies, PromotionPolicyCopy)
    BY TypeEntries, CopyEntries, Zenon
  <2> QED
    BY SMTT(60), <2>1 DEF Entries, PromotionPolicyTypes, PromotionPolicyCopy
<1>15. \A T \in DOMAIN ReleaseTypes : EntrySound(T)
  <2>1. Entries(Types, ReleaseTypes) /\ Entries(Copies, ReleaseCopy)
    BY TypeEntries, CopyEntries, Zenon
  <2> QED
    BY SMTT(60), <2>1 DEF Entries, ReleaseTypes, ReleaseCopy
<1>16. \A T \in DOMAIN SourceTypes : EntrySound(T)
  <2>1. Entries(Types, SourceTypes) /\ Entries(Copies, SourceCopy)
    BY TypeEntries, CopyEntries, Zenon
  <2> QED
    BY SMTT(60), <2>1 DEF Entries, SourceTypes, SourceCopy
<1>17. \A T \in DOMAIN SyncPlanTypes : EntrySound(T)
  <2>1. Entries(Types, SyncPlanTypes) /\ Entries(Copies, SyncPlanCopy)
    BY TypeEntries, CopyEntries, Zenon
  <2> QED
    BY SMTT(60), <2>1 DEF Entries, SyncPlanTypes, SyncPlanCopy
<1>18. \A T \in DOMAIN SyncRunTypes : EntrySound(T)
  <2>1. Entries(Types, SyncRunTypes) /\ Entries(Copies, SyncRunCopy)
    BY TypeEntries, CopyEntries, Zenon
  <2> QED
    BY SMTT(60), <2>1 DEF Entries, SyncRunTypes, SyncRunCopy
<1>19. \A T \in DOMAIN Types : \E t \in TypeTables : T \in DOMAIN t
  BY DEF Types, Merged
<1> HIDE DEF EntrySound
<1> QED
  BY <1>1, <1>2, <1>3, <1>4, <1>5, <1>6, <1>7, <1>8, <1>9, <1>10, <1>11,
     <1>12, <1>13, <1>14, <1>15, <1>16, <1>17, <1>18, <1>19 DEF TypeTables

(* Every name a height lists is declared.                                  *)
LEMMA NamesDeclared == TypeNames \subseteq DOMAIN Types
<1> USE DEF MetaTypes, CommonTypes, ApplicationTypes, ApprovalTypes, CellTypes,
            DeploymentTypes, DeploymentTargetTypes, EnvironmentTypes, FreezeWindowTypes,
            HealthCheckTypes, NotifierSpecTypes, NotifierTypes, PromotionTypes,
            PromotionPolicyTypes, ReleaseTypes, SourceTypes, SyncPlanTypes, SyncRunTypes
<1>1. FlatTypes \subseteq UNION {DOMAIN t : t \in TypeTables}
  BY DEF TypeTables, FlatTypes
<1>2. Height1 \subseteq UNION {DOMAIN t : t \in TypeTables}
  BY DEF TypeTables, Height1
<1>3. Height2 \subseteq UNION {DOMAIN t : t \in TypeTables}
  BY DEF TypeTables, Height2
<1>4. Height3 \subseteq UNION {DOMAIN t : t \in TypeTables}
  BY DEF TypeTables, Height3
<1>5. Height4 \cup Height5 \subseteq UNION {DOMAIN t : t \in TypeTables}
  BY DEF TypeTables, Height4, Height5
<1> QED
  BY <1>1, <1>2, <1>3, <1>4, <1>5 DEF TypeNames, Types, Merged

(* The types of a struct's fields are declared, one height lower at least. *)
LEMMA FieldTypes ==
    ASSUME NEW T \in DOMAIN Types, NEW f \in DOMAIN Types[T]
    PROVE  /\ Types[T][f].type \in DOMAIN Types
           /\ Height(Types[T][f].type) < Height(T)
  BY EntriesSound, NamesDeclared DEF EntrySound, FieldSound

(* A height is a number up to five.                                        *)
LEMMA Heights == \A T : Height(T) \in 0 .. 5
  BY DEF Height

-----------------------------------------------------------------------------
(* The bodies of the two recursive definitions, a field at a time.         *)
RefsVia(R, T, f) ==
    LET d     == Types[T][f]
        below == {<<f>> \o p : p \in R[d.type]}
    IN  IF d.form = "value" THEN below ELSE {<<f>>} \cup below

FreshVia(R, T, f) ==
    LET d     == Types[T][f]
        code  == Copies[T][f]
        below == IF code \in Descending
                 THEN {<<f>> \o p : p \in R[d.type]}
                 ELSE {}
    IN  IF d.form # "value" /\ code \in Allocating
        THEN {<<f>>} \cup below ELSE below

RefsStep(R, T)  == UNION {RefsVia(R, T, f) : f \in DOMAIN Types[T]}
FreshStep(R, T) ==
    UNION {FreshVia(R, T, f) : f \in DOMAIN Types[T] \cap DOMAIN Copies[T]}

NoPaths == [T \in DOMAIN Types |-> {}]
DeeperRefs(R)  == [T \in DOMAIN Types |-> RefsStep(R, T)]
DeeperFresh(R) == [T \in DOMAIN Types |-> FreshStep(R, T)]

AgreeBelow(n, R, S) == \A T \in DOMAIN Types : Height(T) < n => R[T] = S[T]

(* Tables that agree below a height give steps that agree at it.           *)
LEMMA StepsAgree ==
    ASSUME NEW n \in Nat, NEW R, NEW S, AgreeBelow(n, R, S)
    PROVE  /\ AgreeBelow(n + 1, DeeperRefs(R), DeeperRefs(S))
           /\ AgreeBelow(n + 1, DeeperFresh(R), DeeperFresh(S))
<1> SUFFICES ASSUME NEW T \in DOMAIN Types, Height(T) < n + 1
             PROVE  RefsStep(R, T) = RefsStep(S, T) /\ FreshStep(R, T) = FreshStep(S, T)
  BY DEF AgreeBelow, DeeperRefs, DeeperFresh
<1>1. ASSUME NEW f \in DOMAIN Types[T]
      PROVE  R[Types[T][f].type] = S[Types[T][f].type]
  BY FieldTypes, Heights DEF AgreeBelow
<1>2. \A f \in DOMAIN Types[T] : RefsVia(R, T, f) = RefsVia(S, T, f)
  BY <1>1 DEF RefsVia
<1>3. \A f \in DOMAIN Types[T] : FreshVia(R, T, f) = FreshVia(S, T, f)
  BY <1>1 DEF FreshVia
<1>4. RefsStep(R, T) = RefsStep(S, T)
  BY <1>2 DEF RefsStep
<1>5. FreshStep(R, T) = FreshStep(S, T)
  BY <1>3 DEF FreshStep
<1> QED
  BY <1>4, <1>5

(* Tables agree on all the types below height six.                         *)
LEMMA AgreeEverywhere ==
    ASSUME NEW R, NEW S, AgreeBelow(6, R, S)
    PROVE  \A T \in DOMAIN Types : R[T] = S[T]
  BY Heights DEF AgreeBelow

(* Six steps from nothing reach a fixed point, so the recursive definition *)
(* of Refs has a solution and Refs is one.                                 *)
LEMMA RefsEquation ==
    Refs = DeeperRefs(Refs)
<1> DEFINE G1 == DeeperRefs(NoPaths)
           G2 == DeeperRefs(G1)
           G3 == DeeperRefs(G2)
           G4 == DeeperRefs(G3)
           G5 == DeeperRefs(G4)
           G6 == DeeperRefs(G5)
<1>0. AgreeBelow(0, NoPaths, G1)
  BY Heights DEF AgreeBelow
<1> HIDE DEF G1
<1>1. AgreeBelow(1, G1, G2)
  BY <1>0, StepsAgree, 0 + 1 = 1 DEF G1
<1> HIDE DEF G2
<1>2. AgreeBelow(2, G2, G3)
  BY <1>1, StepsAgree, 1 + 1 = 2 DEF G2
<1> HIDE DEF G3
<1>3. AgreeBelow(3, G3, G4)
  BY <1>2, StepsAgree, 2 + 1 = 3 DEF G3
<1> HIDE DEF G4
<1>4. AgreeBelow(4, G4, G5)
  BY <1>3, StepsAgree, 3 + 1 = 4 DEF G4
<1> HIDE DEF G5
<1>5. AgreeBelow(5, G5, G6)
  BY <1>4, StepsAgree, 4 + 1 = 5 DEF G5
<1> HIDE DEF G6
<1>6. AgreeBelow(6, G6, DeeperRefs(G6))
  BY <1>5, StepsAgree, 5 + 1 = 6 DEF G6
<1>7. \A T \in DOMAIN Types : G6[T] = RefsStep(G6, T)
  BY <1>6, AgreeEverywhere DEF DeeperRefs
<1>8. G6 = DeeperRefs(G6)
  BY <1>7 DEF G6, DeeperRefs
<1>9. \E g : g = DeeperRefs(g)
  BY <1>8
<1> QED
  BY <1>9, Zenon DEF Refs, DeeperRefs, RefsStep, RefsVia

(* The same for Fresh.                                                     *)
LEMMA FreshEquation ==
    Fresh = DeeperFresh(Fresh)
<1> DEFINE G1 == DeeperFresh(NoPaths)
           G2 == DeeperFresh(G1)
           G3 == DeeperFresh(G2)
           G4 == DeeperFresh(G3)
           G5 == DeeperFresh(G4)
           G6 == DeeperFresh(G5)
<1>0. AgreeBelow(0, NoPaths, G1)
  BY Heights DEF AgreeBelow
<1> HIDE DEF G1
<1>1. AgreeBelow(1, G1, G2)
  BY <1>0, StepsAgree, 0 + 1 = 1 DEF G1
<1> HIDE DEF G2
<1>2. AgreeBelow(2, G2, G3)
  BY <1>1, StepsAgree, 1 + 1 = 2 DEF G2
<1> HIDE DEF G3
<1>3. AgreeBelow(3, G3, G4)
  BY <1>2, StepsAgree, 2 + 1 = 3 DEF G3
<1> HIDE DEF G4
<1>4. AgreeBelow(4, G4, G5)
  BY <1>3, StepsAgree, 3 + 1 = 4 DEF G4
<1> HIDE DEF G5
<1>5. AgreeBelow(5, G5, G6)
  BY <1>4, StepsAgree, 4 + 1 = 5 DEF G5
<1> HIDE DEF G6
<1>6. AgreeBelow(6, G6, DeeperFresh(G6))
  BY <1>5, StepsAgree, 5 + 1 = 6 DEF G6
<1>7. \A T \in DOMAIN Types : G6[T] = FreshStep(G6, T)
  BY <1>6, AgreeEverywhere DEF DeeperFresh
<1>8. G6 = DeeperFresh(G6)
  BY <1>7 DEF G6, DeeperFresh
<1>9. \E g : g = DeeperFresh(g)
  BY <1>8
<1> QED
  BY <1>9, Zenon DEF Fresh, DeeperFresh, FreshStep, FreshVia

-----------------------------------------------------------------------------
(* A plain struct holds no reference.                                      *)
LEMMA PlainRefs == \A T \in PlainTypes \cap DOMAIN Types : Refs[T] = {}
<1>1. ASSUME NEW T \in FlatTypes \cap DOMAIN Types
      PROVE  Refs[T] = {}
  <2>1. Height(T) = 0
    BY DEF Height
  <2>2. ASSUME NEW f \in DOMAIN Types[T]
        PROVE  FALSE
    <3>1. Height(Types[T][f].type) < 0
      BY <2>1, FieldTypes
    <3> QED
      BY <3>1, Heights
  <2>3. RefsStep(Refs, T) = {}
    BY <2>2 DEF RefsStep
  <2> QED
    BY <2>3, RefsEquation DEF DeeperRefs
<1>2. ASSUME NEW T \in PlainTypes \cap DOMAIN Types
      PROVE  Refs[T] = {}
  <2>1. ASSUME NEW f \in DOMAIN Types[T]
        PROVE  RefsVia(Refs, T, f) = {}
    <3>1. Types[T][f].form = "value" /\ Types[T][f].type \in FlatTypes \cap DOMAIN Types
      BY FieldTypes, EntriesSound DEF EntrySound, FieldSound
    <3> QED
      BY <3>1, <1>1 DEF RefsVia
  <2>2. RefsStep(Refs, T) = {}
    BY <2>1 DEF RefsStep
  <2> QED
    BY <2>2, RefsEquation DEF DeeperRefs
<1> QED
  BY <1>2

(* The types below a height are copied in full.                            *)
CopiedBelow(n) == \A T \in DOMAIN Types : Height(T) < n => Refs[T] \subseteq Fresh[T]

(* If what is below a height is copied in full, so is what is at it.       *)
LEMMA CopiedAbove ==
    ASSUME NEW n \in Nat, CopiedBelow(n)
    PROVE  CopiedBelow(n + 1)
<1> SUFFICES ASSUME NEW T \in DOMAIN Types, Height(T) < n + 1,
                    NEW p \in Refs[T]
             PROVE  p \in Fresh[T]
  BY DEF CopiedBelow
<1>0. Refs[T] = RefsStep(Refs, T)
  BY RefsEquation DEF DeeperRefs
<1>1. PICK f \in DOMAIN Types[T] : p \in RefsVia(Refs, T, f)
  BY <1>0 DEF RefsStep
<1> DEFINE U == Types[T][f].type
<1>2. U \in DOMAIN Types /\ Refs[U] \subseteq Fresh[U]
  BY FieldTypes, Heights DEF CopiedBelow
<1>3. FieldSound(T, f)
  BY EntriesSound DEF EntrySound
<1>4. p \in FreshVia(Fresh, T, f) /\ f \in DOMAIN Copies[T]
  <2>1. CASE p = <<f>> /\ Types[T][f].form # "value"
    BY <2>1, <1>3 DEF FreshVia, FieldSound
  <2>2. CASE \E q \in Refs[U] : p = <<f>> \o q
    <3>1. U \notin PlainTypes
      BY <2>2, <1>2, PlainRefs
    <3>2. f \in DOMAIN Copies[T] /\ Copies[T][f] \in Descending
      BY <3>1, <1>3 DEF FieldSound
    <3>3. p \in {<<f>> \o q : q \in Fresh[U]}
      BY <2>2, <1>2
    <3> QED
      BY <3>2, <3>3 DEF FreshVia
  <2> QED
    BY <2>1, <2>2, <1>1 DEF RefsVia
<1>5. p \in FreshStep(Fresh, T)
  BY <1>4 DEF FreshStep
<1> QED
  BY <1>5, FreshEquation DEF DeeperFresh

(* The generated code of every struct gives the copy its own memory for    *)
(* every reference the struct declares, at every depth.                    *)
THEOREM CopiesAreDeep == \A T \in DOMAIN Types : Refs[T] \subseteq Fresh[T]
<1>0. CopiedBelow(0)
  BY Heights DEF CopiedBelow
<1>1. CopiedBelow(1)
  BY <1>0, CopiedAbove, 0 + 1 = 1
<1>2. CopiedBelow(2)
  BY <1>1, CopiedAbove, 1 + 1 = 2
<1>3. CopiedBelow(3)
  BY <1>2, CopiedAbove, 2 + 1 = 3
<1>4. CopiedBelow(4)
  BY <1>3, CopiedAbove, 3 + 1 = 4
<1>5. CopiedBelow(5)
  BY <1>4, CopiedAbove, 4 + 1 = 5
<1>6. CopiedBelow(6)
  BY <1>5, CopiedAbove, 5 + 1 = 6
<1> QED
  BY <1>6, Heights DEF CopiedBelow

-----------------------------------------------------------------------------
Fields == UNION {DOMAIN Types[T] : T \in DOMAIN Types}

(* The paths of the types below a height are sequences of fields.          *)
PathsBelow(n) == \A T \in DOMAIN Types : Height(T) < n => Refs[T] \subseteq Seq(Fields)

(* If the paths below a height are sequences of fields, so are those at    *)
(* it.                                                                     *)
LEMMA PathsAbove ==
    ASSUME NEW n \in Nat, PathsBelow(n)
    PROVE  PathsBelow(n + 1)
<1> SUFFICES ASSUME NEW T \in DOMAIN Types, Height(T) < n + 1,
                    NEW p \in Refs[T]
             PROVE  p \in Seq(Fields)
  BY DEF PathsBelow
<1>0. Refs[T] = RefsStep(Refs, T)
  BY RefsEquation DEF DeeperRefs
<1>1. PICK f \in DOMAIN Types[T] : p \in RefsVia(Refs, T, f)
  BY <1>0 DEF RefsStep
<1> DEFINE U == Types[T][f].type
<1>2. U \in DOMAIN Types /\ Refs[U] \subseteq Seq(Fields)
  BY FieldTypes, Heights DEF PathsBelow
<1>3. f \in Fields
  BY DEF Fields
<1>4. <<f>> \in Seq(Fields)
  BY <1>3
<1>5. CASE \E q \in Refs[U] : p = <<f>> \o q
  BY <1>5, <1>2, <1>4, ConcatProperties
<1> QED
  BY <1>1, <1>4, <1>5 DEF RefsVia

(* Every path of a reference is a sequence of fields.                      *)
LEMMA PathsAreSequences == \A T \in DOMAIN Types : Refs[T] \subseteq Seq(Fields)
<1>0. PathsBelow(0)
  BY Heights DEF PathsBelow
<1>1. PathsBelow(1)
  BY <1>0, PathsAbove, 0 + 1 = 1
<1>2. PathsBelow(2)
  BY <1>1, PathsAbove, 1 + 1 = 2
<1>3. PathsBelow(3)
  BY <1>2, PathsAbove, 2 + 1 = 3
<1>4. PathsBelow(4)
  BY <1>3, PathsAbove, 3 + 1 = 4
<1>5. PathsBelow(5)
  BY <1>4, PathsAbove, 4 + 1 = 5
<1>6. PathsBelow(6)
  BY <1>5, PathsAbove, 5 + 1 = 6
<1> QED
  BY <1>6, Heights DEF PathsBelow

(* A path that starts with a field goes on with a path of its type.        *)
LEMMA FirstField ==
    ASSUME NEW T \in DOMAIN Types, NEW f \in DOMAIN Types[T],
           NEW q \in Refs[Types[T][f].type]
    PROVE  (<<f>> \o q)[1] = f
<1>1. <<f>> \in Seq(Fields) /\ Len(<<f>>) = 1 /\ <<f>>[1] = f
  BY DEF Fields
<1>2. q \in Seq(Fields)
  BY FieldTypes, PathsAreSequences
<1> QED
  BY <1>1, <1>2, ConcatProperties

(* A path of one field joined with another is the path of the two.         *)
LEMMA PairOfFields == \A a, b : <<a>> \o <<b>> = <<a, b>>
<1> SUFFICES ASSUME NEW a, NEW b
             PROVE  <<a>> \o <<b>> = <<a, b>>
  OBVIOUS
<1>1. <<a>> \in Seq({a, b}) /\ <<b>> \in Seq({a, b}) /\ <<a, b>> \in Seq({a, b})
  OBVIOUS
<1>2. /\ Len(<<a>>) = 1 /\ Len(<<b>>) = 1 /\ Len(<<a, b>>) = 2
      /\ <<a>>[1] = a /\ <<b>>[1] = b /\ <<a, b>>[1] = a /\ <<a, b>>[2] = b
  OBVIOUS
<1>3. /\ <<a>> \o <<b>> \in Seq({a, b})
      /\ Len(<<a>> \o <<b>>) = 2
      /\ (<<a>> \o <<b>>)[1] = a
      /\ (<<a>> \o <<b>>)[2] = b
  BY <1>1, <1>2, ConcatProperties
<1>4. PICK s : s = <<a>> \o <<b>>
  OBVIOUS
<1>5. PICK t : t = <<a, b>>
  OBVIOUS
<1>6. \A i \in 1 .. Len(s) : s[i] = t[i]
  <2>1. \A i \in 1 .. 2 : i = 1 \/ i = 2
    OBVIOUS
  <2> QED
    BY <1>2, <1>3, <1>4, <1>5, <2>1, Zenon
<1>7. s = t
  BY <1>1, <1>2, <1>3, <1>4, <1>5, <1>6, SeqEqual, Zenon
<1> QED
  BY <1>4, <1>5, <1>7

(* The references of a kind that begin with its status are those of its    *)
(* status type, the conditions among them.                                 *)
LEMMA StatusPaths ==
    ASSUME NEW k \in Kinds
    PROVE  /\ \A p \in Refs[k] :
                  p[1] = "Status" => \E q \in Refs[StatusOf(k)] : p = InStatus(q)
           /\ \A q \in Refs[StatusOf(k)] : InStatus(q)[1] = "Status"
           /\ StatusOf(k) \in DOMAIN Types
           /\ ConditionsPath \in Refs[k]
           /\ ConditionsPath[1] = "Status"
<1> DEFINE S == StatusOf(k)
<1>1. /\ k \in DOMAIN Types
      /\ HasConditions(k)
  BY KindsAssumption
<1>2. /\ S \in DOMAIN Types
      /\ "Status" \in DOMAIN Types[k]
      /\ Types[k]["Status"].form = "value"
      /\ Types[k]["Status"].type = S
      /\ "Conditions" \in DOMAIN Types[S]
      /\ Types[S]["Conditions"].form # "value"
  BY <1>1 DEF HasConditions, StatusOf
<1>3. Refs[k] = RefsStep(Refs, k) /\ Refs[S] = RefsStep(Refs, S)
  BY <1>1, <1>2, RefsEquation DEF DeeperRefs
<1> HIDE DEF S
<1>4. RefsVia(Refs, k, "Status") = {InStatus(q) : q \in Refs[S]}
  BY <1>2 DEF RefsVia, InStatus
<1>5. ASSUME NEW q \in Refs[S]
      PROVE  InStatus(q)[1] = "Status" /\ InStatus(q) \in Refs[k]
  <2>1. InStatus(q)[1] = "Status"
    BY <1>1, <1>2, FirstField DEF InStatus
  <2>2. InStatus(q) \in RefsStep(Refs, k)
    BY <1>2, <1>4 DEF RefsStep
  <2> QED
    BY <2>1, <2>2, <1>3
<1>6. ASSUME NEW p \in Refs[k], p[1] = "Status"
      PROVE  \E q \in Refs[S] : p = InStatus(q)
  <2>1. PICK f \in DOMAIN Types[k] : p \in RefsVia(Refs, k, f)
    BY <1>3 DEF RefsStep
  <2>2. p[1] = f
    BY <2>1, <1>1, FirstField DEF RefsVia
  <2> QED
    BY <2>1, <2>2, <1>4, <1>6
<1>7. <<"Conditions">> \in Refs[S]
  <2>1. <<"Conditions">> \in RefsVia(Refs, S, "Conditions")
    BY <1>2 DEF RefsVia
  <2> QED
    BY <2>1, <1>2, <1>3 DEF RefsStep
<1>8. InStatus(<<"Conditions">>) = ConditionsPath
  BY PairOfFields, Zenon DEF InStatus, ConditionsPath
<1> QED
  BY <1>2, <1>5, <1>6, <1>7, <1>8 DEF S

-----------------------------------------------------------------------------
(* The inductive invariant.  A worker's object and its saved status are    *)
(* made of cells of their own, and what these hold is known until the      *)
(* comparison.                                                             *)
Reconciling == {"saved", "set", "unchanged", "sent", "written"}

TypeInv ==
    /\ kind \in Kinds \cup Lists
    /\ present \subseteq Refs[kind]
    /\ pending \in IF kind \in Kinds THEN Pendings(present) ELSE {{}}
    /\ pc \in {"queued", "read", "reused"} \cup Reconciling
    /\ pc \in Reconciling => kind \in Kinds
    /\ DOMAIN inline = {"obj", "before"}

CacheInv == /\ CacheCells \subseteq DOMAIN mem
            /\ CacheIntact

(* No cell of the worker's object is the cache's.                          *)
ObjectApart ==
    \A p \in DOMAIN obj : obj[p] \in {Cell("obj", p), Cell("append", p)}

(* The object as it was read.                                              *)
ObjectRead ==
    /\ DOMAIN obj = present
    /\ inline.obj = "stored"
    /\ \A p \in present : /\ obj[p] = Cell("obj", p)
                          /\ obj[p] \in DOMAIN mem
                          /\ mem[obj[p]] = "stored"

(* The object with the status Reconcile wants.                             *)
ObjectSet ==
    /\ DOMAIN obj = present \cup (IF "append" \in pending THEN {ConditionsPath} ELSE {})
    /\ inline.obj = IF "inline" \in pending THEN "wanted" ELSE "stored"
    /\ \A p \in DOMAIN obj :
           mem[obj[p]] = IF p = ConditionsPath /\ "condition" \in pending
                         THEN "wanted" ELSE "stored"

(* The saved status is the status as it was read.                          *)
StatusSaved ==
    /\ DOMAIN before = {q \in Refs[StatusOf(kind)] : InStatus(q) \in present}
    /\ inline.before = "stored"
    /\ \A q \in DOMAIN before : /\ before[q] = Cell("before", q)
                                /\ before[q] \in DOMAIN mem
                                /\ mem[before[q]] = "stored"

CopyInv ==
    /\ TypeInv
    /\ CacheInv
    /\ ObjectApart
    /\ pc \in {"read", "saved"} => ObjectRead
    /\ pc = "set" => ObjectSet
    /\ pc \in {"saved", "set"} => StatusSaved
    /\ ChangeNoticed

-----------------------------------------------------------------------------
(* A cell is told by its owner and its path.                               *)
LEMMA CellsDiffer ==
    \A o1, p1, o2, p2 : Cell(o1, p1) = Cell(o2, p2) <=> o1 = o2 /\ p1 = p2
  BY DEF Cell

(* A copy o of the references at that is made of the owner's own cells,    *)
(* each with what the original holds; m leaves the other cells alone.      *)
OwnCopy(own, at, o, m) ==
    /\ DOMAIN o = DOMAIN at
    /\ \A p \in DOMAIN at : /\ o[p] = Cell(own, p)
                            /\ Cell(own, p) \in DOMAIN m
                            /\ m[Cell(own, p)] = mem[at[p]]
    /\ \A c \in DOMAIN mem : /\ c \in DOMAIN m
                             /\ (\A p : c # Cell(own, p)) => m[c] = mem[c]

(* The generated code makes such copies.                                   *)
LEMMA CopyOwnsCells ==
    ASSUME NEW own, NEW T \in DOMAIN Types, NEW at, DOMAIN at \subseteq Refs[T],
           NEW m, m = Over(Contents(own, T, at), mem)
    PROVE  OwnCopy(own, at, Copied(own, T, at), m)
<1>1. \A p \in DOMAIN at : p \in Fresh[T]
  BY CopiesAreDeep
<1>2. /\ DOMAIN Copied(own, T, at) = DOMAIN at
      /\ \A p \in DOMAIN at : Copied(own, T, at)[p] = Cell(own, p)
  BY <1>1 DEF Copied
<1>3. PICK C : C = Contents(own, T, at)
  OBVIOUS
<1>4. /\ DOMAIN C = {Cell(own, p) : p \in DOMAIN at}
      /\ \A p \in DOMAIN at : C[Cell(own, p)] = mem[at[p]]
  <2>1. DOMAIN at \cap Fresh[T] = DOMAIN at
    BY <1>1
  <2>2. C = [c \in {Cell(own, p) : p \in DOMAIN at} |-> mem[at[c[2]]]]
    BY <1>3, <2>1 DEF Contents
  <2>3. \A p : Cell(own, p)[2] = p
    BY DEF Cell
  <2> QED
    BY <2>2, <2>3
<1>5. /\ DOMAIN m = DOMAIN C \cup DOMAIN mem
      /\ \A x \in DOMAIN C : m[x] = C[x]
      /\ \A x \in DOMAIN mem : x \notin DOMAIN C => m[x] = mem[x]
  BY <1>3 DEF Over
<1> QED
  BY <1>2, <1>4, <1>5 DEF OwnCopy

(* Every state before the first read satisfies the invariant.              *)
LEMMA CopyInvInit == Init => CopyInv
<1> SUFFICES ASSUME Init PROVE CopyInv
  OBVIOUS
<1>1. present \subseteq Refs[kind]
  BY DEF Init, Populations
<1>2. CacheInv
  BY DEF Init, CacheInv, CacheIntact
<1>3. TypeInv
  BY <1>1 DEF Init, TypeInv, Reconciling
<1>4. ObjectApart
  <2>1. DOMAIN obj = {}
    BY DEF Init
  <2> QED
    BY <2>1 DEF ObjectApart
<1>5. ChangeNoticed /\ pc = "queued"
  BY DEF Init, ChangeNoticed
<1> QED
  BY <1>2, <1>3, <1>4, <1>5 DEF CopyInv

(* Get hands out an object of its own.                                     *)
LEMMA GetKeeps ==
    ASSUME CopyInv, Get
    PROVE  CopyInv'
<1>1. PICK at : at = [p \in present |-> Cell("cache", p)]
  OBVIOUS
<1>2. /\ obj' = Copied("obj", kind, at)
      /\ mem' = Over(Contents("obj", kind, at), mem)
      /\ kind' = kind /\ present' = present /\ pending' = pending
      /\ pc' = "read" /\ inline' = [inline EXCEPT !.obj = "stored"]
  BY <1>1 DEF Get
<1>3. kind \in DOMAIN Types /\ DOMAIN at = present /\ present \subseteq Refs[kind]
  BY <1>1, KindsAssumption DEF CopyInv, TypeInv
<1>4. /\ DOMAIN obj' = present
      /\ \A p \in present : /\ obj'[p] = Cell("obj", p)
                            /\ Cell("obj", p) \in DOMAIN mem'
                            /\ mem'[Cell("obj", p)] = mem[at[p]]
      /\ \A c \in DOMAIN mem : /\ c \in DOMAIN mem'
                               /\ (\A p : c # Cell("obj", p)) => mem'[c] = mem[c]
  <2>1. PICK m, k : m = mem' /\ k = kind
    OBVIOUS
  <2>2. /\ k \in DOMAIN Types /\ DOMAIN at \subseteq Refs[k]
        /\ m = Over(Contents("obj", k, at), mem)
    BY <2>1, <1>2, <1>3
  <2>3. OwnCopy("obj", at, Copied("obj", k, at), m)
    BY <2>2, CopyOwnsCells
  <2> QED
    BY <2>1, <2>3, <1>2, <1>3 DEF OwnCopy
<1>5. \A p \in present : Cell("cache", p) \in DOMAIN mem /\ mem[at[p]] = "stored"
  BY <1>1 DEF CopyInv, CacheInv, CacheIntact, CacheCells
<1>6. CacheInv'
  BY <1>2, <1>4, <1>5, <1>1, CellsDiffer DEF CacheInv, CacheIntact, CacheCells
<1>7. TypeInv'
  BY <1>2 DEF CopyInv, TypeInv, Reconciling, Pendings
<1>8. ObjectApart'
  BY <1>4 DEF ObjectApart
<1>9. ObjectRead'
  BY <1>2, <1>4, <1>5 DEF ObjectRead, CopyInv, TypeInv
<1> QED
  BY <1>2, <1>6, <1>7, <1>8, <1>9 DEF CopyInv, ChangeNoticed

(* The saved status has memory of its own too.                             *)
LEMMA SaveKeeps ==
    ASSUME CopyInv, Save
    PROVE  CopyInv'
<1> PICK T : T = StatusOf(kind)
  OBVIOUS
<1>1. PICK at :
        at = [p \in {q \in Refs[T] : InStatus(q) \in DOMAIN obj} |-> obj[InStatus(p)]]
  OBVIOUS
<1>2. /\ before' = Copied("before", T, at)
      /\ mem' = Over(Contents("before", T, at), mem)
      /\ kind' = kind /\ present' = present /\ pending' = pending /\ obj' = obj
      /\ pc = "read" /\ kind \in Kinds
      /\ pc' = "saved" /\ inline' = [inline EXCEPT !.before = inline.obj]
  BY <1>1 DEF Save
<1>3. ObjectRead
  BY <1>2 DEF CopyInv
<1>4. /\ T \in DOMAIN Types
      /\ DOMAIN at = {q \in Refs[T] : InStatus(q) \in present}
      /\ \A q \in DOMAIN at : mem[at[q]] = "stored"
  BY <1>1, <1>2, <1>3, StatusPaths DEF ObjectRead
<1>5. /\ DOMAIN before' = DOMAIN at
      /\ \A p \in DOMAIN at : /\ before'[p] = Cell("before", p)
                              /\ Cell("before", p) \in DOMAIN mem'
                              /\ mem'[Cell("before", p)] = mem[at[p]]
      /\ \A c \in DOMAIN mem : /\ c \in DOMAIN mem'
                               /\ (\A p : c # Cell("before", p)) => mem'[c] = mem[c]
  <2>1. PICK m, k : m = mem' /\ k = T
    OBVIOUS
  <2>2. /\ k \in DOMAIN Types /\ DOMAIN at \subseteq Refs[k]
        /\ m = Over(Contents("before", k, at), mem)
    BY <2>1, <1>2, <1>4
  <2>3. OwnCopy("before", at, Copied("before", k, at), m)
    BY <2>2, CopyOwnsCells
  <2> QED
    BY <2>1, <2>3, <1>2, <1>4 DEF OwnCopy
<1>6. CacheInv'
  BY <1>2, <1>5, CellsDiffer DEF CopyInv, CacheInv, CacheIntact, CacheCells
<1>7. TypeInv'
  BY <1>2 DEF CopyInv, TypeInv, Reconciling, Pendings
<1>8. ObjectApart'
  BY <1>2 DEF CopyInv, ObjectApart
<1>9. ObjectRead'
  BY <1>2, <1>3, <1>5, CellsDiffer DEF ObjectRead, CopyInv, TypeInv
<1>10. StatusSaved'
  BY <1>2, <1>3, <1>4, <1>5 DEF StatusSaved, ObjectRead, CopyInv, TypeInv
<1> QED
  BY <1>2, <1>6, <1>7, <1>8, <1>9, <1>10 DEF CopyInv, ChangeNoticed

(* A pending append is a pending condition, and a condition that is not    *)
(* appended is there to be overwritten.                                    *)
LEMMA PendingShape ==
    ASSUME TypeInv, kind \in Kinds
    PROVE  /\ "append" \in pending => "condition" \in pending
           /\ "condition" \in pending /\ "append" \notin pending => ConditionsPath \in present
           /\ pending # {} => "inline" \in pending \/ "condition" \in pending
           /\ pending = {} => /\ "inline" \notin pending
                              /\ "condition" \notin pending
                              /\ "append" \notin pending
  BY DEF TypeInv, Pendings

(* SetStatus writes into the object's own cells only.                      *)
LEMMA SetStatusKeeps ==
    ASSUME CopyInv, SetStatus
    PROVE  CopyInv'
<1>1. /\ pc = "saved" /\ pc' = "set"
      /\ kind' = kind /\ present' = present /\ pending' = pending /\ before' = before
      /\ inline' = [inline EXCEPT !.obj = IF "inline" \in pending THEN "wanted" ELSE @]
  BY DEF SetStatus
<1>2. ObjectRead /\ StatusSaved /\ TypeInv /\ CacheInv /\ ObjectApart /\ kind \in Kinds
  BY <1>1 DEF CopyInv, TypeInv, Reconciling
<1>3. TypeInv'
  BY <1>1, <1>2 DEF TypeInv, Reconciling, Pendings
<1>4. /\ inline'.obj = IF "inline" \in pending THEN "wanted" ELSE "stored"
      /\ inline'.before = "stored"
  BY <1>1, <1>2 DEF TypeInv, ObjectRead, StatusSaved
<1>5. CASE "append" \in pending
  <2> DEFINE A == Cell("append", ConditionsPath)
  <2>1. /\ obj' = Over([p \in {ConditionsPath} |-> Cell("append", p)], obj)
        /\ mem' = Over([c \in {A} |-> "wanted"], mem)
    BY <1>5 DEF SetStatus
  <2> HIDE DEF A
  <2>2. /\ DOMAIN obj' = present \cup {ConditionsPath}
        /\ obj'[ConditionsPath] = A
        /\ \A p \in present : p # ConditionsPath => obj'[p] = Cell("obj", p)
    BY <2>1, <1>2 DEF Over, ObjectRead, A
  <2>3. /\ mem'[A] = "wanted"
        /\ \A c \in DOMAIN mem : c \in DOMAIN mem' /\ (c # A => mem'[c] = mem[c])
    BY <2>1 DEF Over
  <2>4. \A p : Cell("cache", p) # A /\ Cell("obj", p) # A /\ Cell("before", p) # A
    BY CellsDiffer DEF A
  <2>5. CacheInv'
    BY <1>1, <1>2, <2>3, <2>4 DEF CacheInv, CacheIntact, CacheCells
  <2>6. ObjectApart'
    BY <2>2 DEF ObjectApart, A
  <2>7. StatusSaved'
    BY <1>1, <1>2, <1>4, <2>3, <2>4 DEF StatusSaved
  <2>8. "condition" \in pending
    BY <1>2, <1>5, PendingShape
  <2>9. ObjectSet'
    <3>1. DOMAIN obj' = present' \cup (IF "append" \in pending' THEN {ConditionsPath} ELSE {})
      BY <1>1, <1>5, <2>2
    <3>2. ASSUME NEW p \in DOMAIN obj'
          PROVE  mem'[obj'[p]] = IF p = ConditionsPath /\ "condition" \in pending'
                                 THEN "wanted" ELSE "stored"
      <4>1. CASE p = ConditionsPath
        BY <4>1, <1>1, <2>2, <2>3, <2>8
      <4>2. CASE p # ConditionsPath
        <5>1. p \in present /\ obj'[p] = Cell("obj", p) /\ obj[p] = Cell("obj", p)
          BY <4>2, <2>2, <1>2 DEF ObjectRead
        <5>2. obj[p] \in DOMAIN mem /\ mem[obj[p]] = "stored"
          BY <5>1, <1>2 DEF ObjectRead
        <5> QED
          BY <5>1, <5>2, <2>3, <2>4, <4>2
      <4> QED
        BY <4>1, <4>2
    <3> QED
      BY <3>1, <3>2, <1>1, <1>4 DEF ObjectSet
  <2> QED
    BY <1>1, <1>3, <2>5, <2>6, <2>7, <2>9 DEF CopyInv, ChangeNoticed
<1>6. CASE "condition" \in pending /\ "append" \notin pending
  <2>1. ConditionsPath \in present
    BY <1>2, <1>6, PendingShape
  <2>2. PICK A : A = Cell("obj", ConditionsPath)
    OBVIOUS
  <2>3. obj' = obj /\ mem' = [mem EXCEPT ![A] = "wanted"] /\ A \in DOMAIN mem
    BY <1>2, <1>6, <2>1, <2>2 DEF SetStatus, ObjectRead
  <2>4. /\ DOMAIN mem' = DOMAIN mem
        /\ mem'[A] = "wanted"
        /\ \A c \in DOMAIN mem : c # A => mem'[c] = mem[c]
    BY <2>3
  <2>5. /\ \A p : Cell("cache", p) # A /\ Cell("before", p) # A
        /\ \A p : p # ConditionsPath => Cell("obj", p) # A
    BY <2>2, CellsDiffer
  <2>6. CacheInv'
    BY <1>1, <1>2, <2>4, <2>5 DEF CacheInv, CacheIntact, CacheCells
  <2>7. ObjectApart'
    BY <2>3, <1>2 DEF ObjectApart
  <2>8. StatusSaved'
    BY <1>1, <1>2, <1>4, <2>4, <2>5 DEF StatusSaved
  <2>9. ObjectSet'
    BY <1>1, <1>2, <1>4, <1>6, <2>2, <2>3, <2>4, <2>5 DEF ObjectSet, ObjectRead
  <2> QED
    BY <1>1, <1>3, <2>6, <2>7, <2>8, <2>9 DEF CopyInv, ChangeNoticed
<1>7. CASE "condition" \notin pending /\ "append" \notin pending
  <2>1. obj' = obj /\ mem' = mem
    BY <1>7 DEF SetStatus
  <2>2. CacheInv' /\ ObjectApart'
    BY <1>1, <1>2, <2>1 DEF CacheInv, CacheIntact, CacheCells, ObjectApart
  <2>3. StatusSaved'
    BY <1>1, <1>2, <1>4, <2>1 DEF StatusSaved
  <2>4. ObjectSet'
    BY <1>1, <1>2, <1>4, <1>7, <2>1 DEF ObjectSet, ObjectRead
  <2> QED
    BY <1>1, <1>3, <2>2, <2>3, <2>4 DEF CopyInv, ChangeNoticed
<1> QED
  BY <1>5, <1>6, <1>7

(* The comparison tells a status with something pending from one without.  *)
LEMMA DeepEqualDecides ==
    ASSUME CopyInv, pc = "set"
    PROVE  DeepEqual <=> pending = {}
<1>1. ObjectSet /\ StatusSaved /\ TypeInv /\ kind \in Kinds
  BY DEF CopyInv, TypeInv, Reconciling
<1> PICK k : k = kind
  OBVIOUS
<1>2. k \in Kinds /\ present \subseteq Refs[k]
  BY <1>1 DEF TypeInv
<1>3. ASSUME pending = {}
      PROVE  DeepEqual
  <2>1. inline.before = inline.obj
    BY <1>1, <1>3 DEF ObjectSet, StatusSaved
  <2>2. DOMAIN obj = present /\ \A p \in present : mem[obj[p]] = "stored"
    BY <1>1, <1>3 DEF ObjectSet
  <2>3. DOMAIN before = {q \in Refs[StatusOf(k)] : InStatus(q) \in present}
    BY <1>1 DEF StatusSaved
  <2>4. {InStatus(p) : p \in DOMAIN before} = {q \in DOMAIN obj : q[1] = "Status"}
    BY <1>2, <2>2, <2>3, StatusPaths
  <2>5. \A p \in DOMAIN before : mem[before[p]] = mem[obj[InStatus(p)]]
    BY <1>1, <2>2, <2>3 DEF StatusSaved
  <2> QED
    BY <2>1, <2>4, <2>5 DEF DeepEqual
<1>4. ASSUME pending # {}, DeepEqual
      PROVE  FALSE
  <2>1. CASE "inline" \in pending
    BY <2>1, <1>1, <1>4 DEF ObjectSet, StatusSaved, DeepEqual
  <2>2. CASE "condition" \in pending
    <3>1. ConditionsPath \in DOMAIN obj /\ ConditionsPath[1] = "Status"
      BY <2>2, <1>1, <1>2, PendingShape, StatusPaths DEF ObjectSet
    <3>2. PICK p \in DOMAIN before : InStatus(p) = ConditionsPath
      BY <3>1, <1>4 DEF DeepEqual
    <3>3. mem[before[p]] = "stored"
      BY <1>1 DEF StatusSaved
    <3>4. mem[obj[ConditionsPath]] = "wanted"
      BY <1>1, <2>2, <3>1 DEF ObjectSet
    <3>5. mem[before[p]] = mem[obj[InStatus(p)]]
      BY <1>4 DEF DeepEqual
    <3> QED
      BY <3>2, <3>3, <3>4, <3>5
  <2> QED
    BY <2>1, <2>2, <1>1, <1>4, PendingShape
<1> QED
  BY <1>3, <1>4

(* The comparison sends the worker where what is pending says.             *)
LEMMA CompareKeeps ==
    ASSUME CopyInv, Compare
    PROVE  CopyInv'
<1>1. /\ pc = "set" /\ pc' = IF DeepEqual THEN "unchanged" ELSE "sent"
      /\ UNCHANGED <<kind, present, pending, mem, obj, before, inline>>
  BY DEF Compare
<1>2. TypeInv' /\ CacheInv' /\ ObjectApart'
  BY <1>1 DEF CopyInv, TypeInv, Reconciling, Pendings, CacheInv, CacheIntact, CacheCells,
              ObjectApart
<1>3. ChangeNoticed'
  BY <1>1, DeepEqualDecides DEF ChangeNoticed
<1> QED
  BY <1>1, <1>2, <1>3 DEF CopyInv

(* A decoded answer is written through the object's own references.        *)
LEMMA DecodeKeeps ==
    ASSUME CopyInv, present' = present,
           mem' = [c \in DOMAIN mem |-> IF c \in Range(obj) THEN "answer" ELSE mem[c]]
    PROVE  CacheInv'
<1>1. ASSUME NEW p \in present
      PROVE  Cell("cache", p) \notin Range(obj)
  BY CellsDiffer DEF CopyInv, ObjectApart, Range
<1> QED
  BY <1>1 DEF CopyInv, CacheInv, CacheIntact, CacheCells

(* A successful update leaves the cache as it was.                         *)
LEMMA UpdateAnsweredKeeps ==
    ASSUME CopyInv, UpdateAnswered
    PROVE  CopyInv'
<1>1. /\ pc = "sent" /\ pc' = "written"
      /\ UNCHANGED <<kind, present, pending, obj, before>>
      /\ inline' = [inline EXCEPT !.obj = "answer"]
  BY DEF UpdateAnswered
<1>2. TypeInv' /\ ObjectApart'
  BY <1>1 DEF CopyInv, TypeInv, Reconciling, Pendings, ObjectApart
<1>3. CacheInv'
  BY <1>1, DecodeKeeps DEF UpdateAnswered
<1>4. ChangeNoticed'
  BY <1>1 DEF CopyInv, ChangeNoticed
<1> QED
  BY <1>1, <1>2, <1>3, <1>4 DEF CopyInv

(* A failed update drops the worker's memory and nothing of the cache.     *)
LEMMA UpdateFailedKeeps ==
    ASSUME CopyInv, UpdateFailed
    PROVE  CopyInv'
<1>1. /\ pc = "sent" /\ pc' = "queued"
      /\ UNCHANGED <<kind, present, pending, inline>>
      /\ obj' = << >> /\ mem' = Restrict(mem, CacheCells)
  BY DEF UpdateFailed
<1>2. TypeInv'
  BY <1>1 DEF CopyInv, TypeInv, Reconciling, Pendings
<1>3. ObjectApart'
  <2>1. DOMAIN obj' = {}
    BY <1>1
  <2> QED
    BY <2>1 DEF ObjectApart
<1>4. CacheInv'
  BY <1>1 DEF CopyInv, CacheInv, CacheIntact, CacheCells, Restrict
<1> QED
  BY <1>1, <1>2, <1>3, <1>4 DEF CopyInv, ChangeNoticed

(* A watch event replaces the cached object; an appended condition is one  *)
(* of its declared references.                                             *)
LEMMA WatchEventKeeps ==
    ASSUME CopyInv, WatchEvent
    PROVE  CopyInv'
<1>1. /\ pc = "written" /\ pc' = "queued"
      /\ UNCHANGED <<kind, inline>>
      /\ pending' = {} /\ obj' = << >>
      /\ present' = present \cup (IF "append" \in pending THEN {ConditionsPath} ELSE {})
      /\ mem' = [c \in {Cell("cache", p) : p \in present'} |-> "stored"]
  BY DEF WatchEvent
<1> PICK k : k = kind
  OBVIOUS
<1>2. k \in Kinds /\ present \subseteq Refs[k]
  BY <1>1 DEF CopyInv, TypeInv, Reconciling
<1>3. present' \subseteq Refs[k]
  BY <1>1, <1>2, StatusPaths
<1>4. TypeInv'
  BY <1>1, <1>2, <1>3 DEF CopyInv, TypeInv, Reconciling, Pendings
<1>5. ObjectApart'
  <2>1. DOMAIN obj' = {}
    BY <1>1
  <2> QED
    BY <2>1 DEF ObjectApart
<1>6. CacheInv'
  BY <1>1 DEF CacheInv, CacheIntact, CacheCells
<1> QED
  BY <1>1, <1>4, <1>5, <1>6 DEF CopyInv, ChangeNoticed

(* A reused list is decoded into its own memory.                           *)
LEMMA ReuseListKeeps ==
    ASSUME CopyInv, ReuseList
    PROVE  CopyInv'
<1>1. /\ pc' = "reused"
      /\ UNCHANGED <<kind, present, pending, obj, before>>
      /\ inline' = [inline EXCEPT !.obj = "answer"]
  BY DEF ReuseList
<1>2. TypeInv' /\ ObjectApart'
  BY <1>1 DEF CopyInv, TypeInv, Reconciling, Pendings, ObjectApart
<1>3. CacheInv'
  BY <1>1, DecodeKeeps DEF ReuseList
<1> QED
  BY <1>1, <1>2, <1>3 DEF CopyInv, ChangeNoticed

(* A step that changes nothing keeps the invariant.                        *)
LEMMA CopyInvStutter ==
    ASSUME CopyInv, UNCHANGED vars
    PROVE  CopyInv'
  BY DEF vars, CopyInv, TypeInv, Pendings, CacheInv, CacheIntact, CacheCells, ObjectApart,
         ObjectRead, ObjectSet, StatusSaved, ChangeNoticed

-----------------------------------------------------------------------------
(* The invariant holds of every behaviour, for every choice of kinds among *)
(* the declared types and any number of attempts.                          *)
THEOREM CopyInvariant == Spec => []CopyInv
<1>1. CopyInv /\ [Next]_vars => CopyInv'
  BY GetKeeps, SaveKeeps, SetStatusKeeps, CompareKeeps, UpdateAnsweredKeeps,
     UpdateFailedKeeps, WatchEventKeeps, ReuseListKeeps, CopyInvStutter DEF Next
<1> QED
  BY <1>1, CopyInvInit, PTL DEF Spec

(* No reconcile and no reuse of a list writes memory the informer's object *)
(* can reach.                                                              *)
THEOREM CacheStaysIntact == Spec => []CacheIntact
<1>1. CopyInv => CacheIntact
  BY DEF CopyInv, CacheInv
<1> QED
  BY <1>1, CopyInvariant, PTL

(* The update is skipped only when the status has all that is wanted, and  *)
(* is sent only when something is missing.                                 *)
THEOREM ChangesAreNoticed == Spec => []ChangeNoticed
<1>1. CopyInv => ChangeNoticed
  BY DEF CopyInv
<1> QED
  BY <1>1, CopyInvariant, PTL
=============================================================================
