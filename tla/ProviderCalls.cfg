SPECIFICATION Spec
CONSTANTS
    Provider = {"proxmox", "nutanix", "vmware", "esxi"}
    MaxCalls = 1
    MaxVM = 5
    Disks = 2
    PageLength = 1
    FaultClass = {"auth", "locked", "timeout", "other"}
    MaxFaults = 2
    MaxAdmin = 1
INVARIANTS
    CreatedOnce
    
    DisksFollowClone
PROPERTY
    Contract
