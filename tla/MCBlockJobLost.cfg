\* One page, one call of BlockJob and nobody else.
SPECIFICATION Spec
CONSTANTS
    p1 = p1
    p2 = p2
    p3 = p3
    cancel = cancel
    cancel2 = cancel2
    block = block
    Pages = {p1}
    Cancellers = {}
    Blockers = {block}
    Sources = {"sitemap"}
    MaxPages = 0
SYMMETRY MCSymmetry
INVARIANTS LostToTerminalOnly
\* A job that was stopped before its first row stays as it is.
CHECK_DEADLOCK FALSE
