\* buildLimit, buildColumns2Handle with FindHandle, ExtractOnCondition
\* against their references, over 3-bit integers; Propose with
\* inspect and checkConfChange against the peer's documented rules.
CONSTANTS
    IntWidth = 3
SPECIFICATION Spec
INVARIANT LimitMatchesReference
INVARIANT HandleMatchesReference
INVARIANT OnConditionsSound
INVARIANT ProposeMatchesReference
INVARIANT LimitPushDownSound
INVARIANT TopNPushDownSound
INVARIANT AggPushDownSound
