SPECIFICATION ExportsSpec
CONSTANTS
    a1 = a1
    a2 = a2
    ana = ana
    eva = eva
    c1 = c1
    s1 = s1
    e1 = e1
    e2 = e2
    reportlab = reportlab
    weasyprint = weasyprint
    Assessments = {a1, a2}
    Actors = {ana, eva}
    Requests <- MCRequests
    Calls = {c1}
    Approvals = {s1}
    Viewable <- MCViewable
    OneKey = TRUE
    MaxVersion = 2
    Exported = {a2}
    Kinds <- MCKinds
    Modes = {reportlab, weasyprint}
    Exporters = {e1, e2}
INVARIANTS RecordTruthful ApprovalsReported EvidenceFirst ExportReadable
PROPERTIES ExportKept
SYMMETRY MCSymmetry
