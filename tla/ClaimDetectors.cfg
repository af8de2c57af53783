\* Four reports are enough for a Passport, the journal of the plane, a flow
\* and one other.  The sources fall silent at the bound: no deadlock check.
SPECIFICATION Spec
SYMMETRY Alike
CONSTANTS
    x = x
    y = y
    Agents = {x, y}
    Procs = {"p"}
    Providers = {"prov1"}
    Written = {"prov1", " prov1", "own", " "}
    Normalized <- MCNormalized
    Absent = Absent
    Scans = {Absent, {"prov1"}}
    ProviderOf <- MCProviderOf
    PublicHosts = {"web"}
    PrivateHosts = {"lan"}
    Declarations <- MCDeclarations
    MaxReports = 4
INVARIANTS
    DirectEgressIsFound
    ReportAgreesWithDetectors
PROPERTIES
    SensorNeverSilences
CHECK_DEADLOCK FALSE
