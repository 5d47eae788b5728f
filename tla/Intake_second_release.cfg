SPECIFICATION IntakeSpec
CONSTANTS
    a1 = a1  s1 = s1
    essay = essay  notes = notes  text = text  markdown = markdown
    None = None  Absent = Absent
    Activities = {a1}
    Submissions = {}
    Slots = {s1}
    Owner <- MCOwner
    Calls = {r1, r2}
    Requests = {r1, r2}
    Bytes = {essay, notes}
    Types = {text, markdown}
    SizeOf <- MCSizeOf
    Readable <- MCReadable
    MaxAttempts = 2
    Keys = {k1, k2}
    Prints <- MCPrints
    Descriptors <- MCDescriptors
SYMMETRY MCSymmetry
\* The requests may all have ended.
INVARIANTS OneHandlerPerKey
CHECK_DEADLOCK FALSE
