CONSTANTS
    Scrape = {s1, s2}
    MaxLines = 2
    MaxEpoch = 1
    Faults = {"crash", "full", "open"}
SPECIFICATION ExporterSpec
CONSTRAINTS BeforeOverlap FewRecounts
SYMMETRY Symmetry
INVARIANTS CountedOnce FailsOnlyWhenTorn LossIsKnown
