------------------------------- MODULE Report -------------------------------
(***************************************************************************)
(* `grafiti delete --report': after a run that ends well, deleteARNs reads *)
(* the log file back and prints the entries of failed deletions            *)
(* (PrintLogFileReport, deleter/deleter.go).                               *)
(***************************************************************************)
EXTENDS DeleteRun

VARIABLES
  rStep,     \* "waiting", "reading" or "done"
  unread,    \* log entries not decoded yet
  reported   \* the objects the report shows

reportVars == <<rStep, unread, reported>>

ReportInit == Init /\ rStep = "waiting" /\ unread = {} /\ reported = {}

Run == Next /\ exit = "running" /\ UNCHANGED reportVars

\* A run that ends with an error returns before its report.
StartReport ==
  /\ exit = "nil" /\ rStep = "waiting"
  /\ rStep' = "reading" /\ unread' = log
  /\ UNCHANGED <<vars, reported>>

\* decodeLogEntry: logrus writes the error as a string, and encoding/json decodes no
\* string into the field Error, whose type is the interface `error'.
IsDecodable(e) == e[2] = "deleted"

\* formatReportLogEntry: an entry without an error gives an empty line, which is not
\* printed.
Printed(e) == IF e[2] = "deleted" THEN {} ELSE {e[1]}

ReadEntry ==
  /\ rStep = "reading"
  /\ \E e \in unread :
       IF IsDecodable(e)
       THEN unread' = unread \ {e} /\ reported' = reported \cup Printed(e) /\ UNCHANGED rStep
       ELSE rStep' = "done" /\ UNCHANGED <<unread, reported>>
  /\ UNCHANGED vars

EndReport ==
  /\ rStep = "reading" /\ unread = {}
  /\ rStep' = "done"
  /\ UNCHANGED <<vars, unread, reported>>

ReportTerminated == (exit = "error" \/ rStep = "done") /\ UNCHANGED <<vars, reportVars>>

ReportNext == Run \/ StartReport \/ ReadEntry \/ EndReport \/ ReportTerminated

ReportSpec == ReportInit /\ [][ReportNext]_<<vars, reportVars>>

\* "The `--report` flag will enable `grafiti delete` to aggregate all failed resource
\* deletions and pretty-print them after a run." (usage-notes-and-tips.md:25)
ReportShowsFailures == rStep = "done" => \A o \in Object : Failed(o) => o \in reported
=============================================================================
