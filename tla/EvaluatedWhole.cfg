SPECIFICATION ServiceSpec
CONSTANTS
    p1 = p1
    p2 = p2
    upload = upload
    other = other
    delete = delete
    NoOne = NoOne
    Processes <- MCProcesses
    Uploads <- MCUploads
    Deletes <- MCDeletes
    ProcessOf <- MCProcessOf
    TargetOf <- MCTargetOf
INVARIANT EvaluatedWhole
