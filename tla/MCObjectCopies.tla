--------------------------- MODULE MCObjectCopies ---------------------------
EXTENDS ObjectCopies

AllKinds == {"Application", "Approval", "Cell", "Deployment", "DeploymentTarget",
             "Environment", "FreezeWindow", "HealthCheck", "Notifier", "Promotion",
             "PromotionPolicy", "Release", "Source", "SyncPlan", "SyncRun"}

AllLists == {"ApplicationList", "ApprovalList", "CellList", "DeploymentList",
             "DeploymentTargetList", "EnvironmentList", "FreezeWindowList",
             "HealthCheckList", "NotifierList", "PromotionList", "PromotionPolicyList",
             "ReleaseList", "SourceList", "SyncPlanList", "SyncRunList"}
=============================================================================
