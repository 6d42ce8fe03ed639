SPECIFICATION Spec
CONSTANTS
    Networks <- LitecoinRestarts
    retargeting_interval_seconds = 6
    block_spacing_seconds = 2
    retargeting_factor = 2
    Expand <- MCExpand
    TargetSpan = 512
    MaxTime = 32
    max_timewarp = 2
    median_time_past_interval = 3
    bip34_activation_sample = 3
    bip34_activation_threshold = 2
    bip34_enforcement_threshold = 3
    version_of <- MCVersionOf
    VersionSpan = 64
    bip9_version_base = 8
    bip90_height <- MCFreeze
    bip16_activation_time = 8
    bip30_reactivate_height = 5
INVARIANTS
    PatchedPeriodStart
