----------------------------- MODULE MCScheduler -----------------------------
(* Two timetabled jobs, the device scan and two request threads.           *)
EXTENDS SchedulerProps
CONSTANTS host, files
MCTimetable == <<host, files>>
==============================================================================
