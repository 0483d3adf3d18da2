SPECIFICATION Spec
CONSTANTS
    NoFunc = NoFunc
    Programs <- MCPrograms
    Specs <- MCSpecs
INVARIANTS
    MarkExact
    ReportSound
    LocalNeverWidens
PROPERTY
    SearchesEnd
\* An analysis that failed or was cancelled is over.
CHECK_DEADLOCK FALSE
