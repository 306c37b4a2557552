\* Two columns, two rows, eleven cell values.
CONSTANTS
    Fields <- MCFields
    Headers <- MCHeaders
    NCols = 2
    MaxRows = 2
SPECIFICATION Spec
INVARIANTS
    ExportRoundTrips
