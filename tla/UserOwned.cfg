SPECIFICATION UpgradeSpec
CONSTANTS
    Guardrails = {"guardrail"}
    Templates = {"template"}
    Managed = {"skill"}
    Config = "config"
    Shipped <- MCShipped
    MaxSuffix = 2
    MaxEdits = 2
    MaxCrashes = 1
PROPERTIES UserOwnedSkipped
CHECK_DEADLOCK FALSE
