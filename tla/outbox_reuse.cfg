\* One drain and no fault but a failed delivery.
CONSTANTS
    Msgs = {m1, m2}
    Drains = {d1}
    MaxSeq = 2
    Faults = {}
    Target = "worker"
    None = None
    Empty = Empty
    Asked = Asked
    Other = Other
    Unset = Unset
SPECIFICATION Spec
SYMMETRY Interchangeable
INVARIANT Durable
