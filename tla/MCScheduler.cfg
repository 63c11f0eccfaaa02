SPECIFICATION FairSpec
CONSTANTS
    host = host
    files = files
    Jobs = {host, files, device_scan}
    DeviceScan = device_scan
    Timetable <- MCTimetable
    Devices = {d1}
    Worker = worker
    Callers = {c1}
    None = None
INVARIANTS TypeOK NoOverlap
PROPERTIES  AcceptedClicksRun DueJobsRun
