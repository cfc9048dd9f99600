\* The settings round trip: one administrator, two edits.
CONSTANTS
    Datadirs = {"backend_1", "datadir_1"}
    Recognised = {"backend_1"}
    Shares = {"music"}
    Domains = {"example.org"}
    Users = {"nobody", "alice"}
    Bootstraps <- MCBootstraps
    Editable <- MCEditable
    MaxEdits = 2
SPECIFICATION SettingsSpec
INVARIANTS
    ExportRoundTrips
PROPERTY PageKeepsTheRest
