CONSTANTS
    primary = primary
    secondary = secondary
    unknown = unknown
    fallback = fallback
    ra = ra
    rb = rb
    rs = rs
    None = None
    Providers = {primary, secondary, unknown, fallback}
    Requests = {ra, rb, rs}
    Streaming = {rs}
    Preferred <- MCPreferred
    Order <- MCOrder
    Registered = {primary, secondary, fallback}
    Guarded = {primary, secondary}
    Reliable = {fallback}
    FailureThreshold = 2
    SuccessThreshold = 2
    HalfOpenMaxCalls = 1
SPECIFICATION Spec
INVARIANT HalfOpenLimit
