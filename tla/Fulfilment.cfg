CONSTANTS
    Requests = {q1, q2}
    AWBs = {q1, q2}
    NoAWB = NoAWB
    Scans <- MCScans
    MaxScans = 3
    Faults = TRUE
SYMMETRY Symmetry
SPECIFICATION FulfilmentSpec
INVARIANTS FulfilmentTypeOK OneWaybillPerOrder OrderShowsItsWaybill OrderNeverAhead ShipmentLeads
PROPERTY CancelSticks
