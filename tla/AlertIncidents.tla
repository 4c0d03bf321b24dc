------------------------------- MODULE AlertIncidents -------------------------------
(***************************************************************************)
(* Operations of backend/app/sre/service.py: the alerts of one fingerprint,*)
(* which monitoring reports again and again and operators acknowledge,     *)
(* resolve and suppress, and one incident that they update.  Every request *)
(* loads its row, changes the object and commits at its end; an UPDATE     *)
(* writes the columns that changed.  Alerts linked to an incident, notes   *)
(* and responders are columns that nothing reads, and are left out.        *)
(***************************************************************************)
EXTENDS Naturals, FiniteSets, Sequences, SequencesExt

CONSTANTS SreRequests,    \* requests, each used again and again
          MaxAlerts,      \* bound on the rows of the fingerprint
          MaxOccurrences  \* bound on the reports

ASSUME SreAssumption == MaxAlerts \in Nat /\ MaxOccurrences \in Nat

VARIABLES alerts,       \* committed rows of the fingerprint, oldest first
          occurrences,  \* reports committed (history)
          incident,     \* its committed row: status, and which timestamps are set
          sre,          \* each request: what it does, and the row as it was loaded
          rivals,       \* two reports, or two updates of the incident, overlapped (history)
          revived       \* an alert no longer active was acknowledged (history)

sreVars == <<alerts, occurrences, incident, sre, rivals, revived>>

ActiveStatus == {"FIRING", "ACKNOWLEDGED"}
Finished == {"RESOLVED", "CLOSED"}
AlertStatus == {"FIRING", "ACKNOWLEDGED", "RESOLVED", "SUPPRESSED"}
IncidentStatus == {"OPEN", "ACKNOWLEDGED", "INVESTIGATING", "MITIGATED", "RESOLVED", "CLOSED"}

(* ALLOWED_TRANSITIONS of incidents.py; staying where one is is allowed.   *)
Follows(status) ==
    CASE status = "OPEN" -> {"ACKNOWLEDGED", "INVESTIGATING", "RESOLVED"}
      [] status = "ACKNOWLEDGED" -> {"INVESTIGATING", "MITIGATED", "RESOLVED"}
      [] status = "INVESTIGATING" -> {"MITIGATED", "RESOLVED"}
      [] status = "MITIGATED" -> {"INVESTIGATING", "RESOLVED"}
      [] status = "RESOLVED" -> {"CLOSED"}
      [] OTHER -> {}
Stamped(status) == {status} \ {"OPEN", "INVESTIGATING"}

NoWork == [op |-> "idle", row |-> 0, from |-> "none", to |-> "none", count |-> 0]

SreTypeOK ==
    /\ alerts \in Seq([status : AlertStatus, count : 1..MaxOccurrences]) /\ Len(alerts) <= MaxAlerts
    /\ incident.status \in IncidentStatus /\ incident.stamps \subseteq IncidentStatus
    /\ \A r \in SreRequests :
          /\ sre[r].op \in {"idle", "report", "mark", "update"}
          /\ sre[r].row \in 0..Len(alerts)

SreInit ==
    /\ alerts = <<>> /\ occurrences = 0
    /\ incident = [status |-> "OPEN", stamps |-> {}]
    /\ sre = [r \in SreRequests |-> NoWork]
    /\ rivals = {} /\ revived = FALSE

Loads(r, op, row, from, to, count) ==
    /\ sre[r] = NoWork
    /\ sre' = [sre EXCEPT ![r] = [op |-> op, row |-> row, from |-> from, to |-> to, count |-> count]]
    /\ rivals' = rivals \cup ({sre[q].op : q \in SreRequests} \cap {op} \cap {"report", "update"})
    /\ UNCHANGED <<alerts, occurrences, incident, revived>>
Commits(r) == sre' = [sre EXCEPT ![r] = NoWork]

(* Mutant: a report is a duplicate only of an alert nobody acknowledged.   *)
DuplicatesOfFiring == {a \in DOMAIN alerts : alerts[a].status = "FIRING"}

(* get_firing_alert_by_fingerprint.                                        *)
Duplicates == {a \in DOMAIN alerts : alerts[a].status \in ActiveStatus}
-----------------------------------------------------------------------------
(* ingest_alert: with two rows to choose from, scalar_one_or_none raises   *)
(* and nothing happens.  A maintenance window may suppress a new alert.    *)
BeginReport(r) ==
    /\ occurrences + Cardinality({q \in SreRequests : sre[q].op = "report"}) < MaxOccurrences
    /\ \/ \E a \in Duplicates :
             Duplicates = {a} /\ Loads(r, "report", a, alerts[a].status, alerts[a].status, alerts[a].count)
       \/ \E status \in {"FIRING", "SUPPRESSED"} :
             Duplicates = {} /\ Len(alerts) < MaxAlerts /\ Loads(r, "report", 0, "none", status, 0)

(* A duplicate writes the count it has loaded plus one, whatever the       *)
(* status of the row is by now.                                            *)
CommitReport(r) ==
    /\ sre[r].op = "report"
    /\ sre[r].row = 0 => Len(alerts) < MaxAlerts
    /\ alerts' = IF sre[r].row = 0 THEN Append(alerts, [status |-> sre[r].to, count |-> 1])
                 ELSE [alerts EXCEPT ![sre[r].row].count = sre[r].count + 1]
    /\ occurrences' = occurrences + 1
    /\ Commits(r)
    /\ UNCHANGED <<incident, rivals, revived>>

(* acknowledge_alert, resolve_alert, suppress_alert: from any status.      *)
BeginMark(r) ==
    \E a \in DOMAIN alerts, to \in {"ACKNOWLEDGED", "RESOLVED", "SUPPRESSED"} :
       Loads(r, "mark", a, alerts[a].status, to, 0)

CommitMark(r) ==
    /\ sre[r].op = "mark"
    /\ LET a == sre[r].row  written == sre[r].from # sre[r].to IN
       /\ alerts' = IF written THEN [alerts EXCEPT ![a].status = sre[r].to] ELSE alerts
       /\ revived' = (revived \/ (written /\ sre[r].to \in ActiveStatus /\ alerts[a].status \notin ActiveStatus))
    /\ Commits(r)
    /\ UNCHANGED <<occurrences, incident, rivals>>

(* update_incident_status: the transition is checked against the row that  *)
(* was loaded.                                                             *)
BeginStatus(r) ==
    \E to \in Follows(incident.status) \cup {incident.status} :
       Loads(r, "update", 0, incident.status, to, 0)

CommitStatus(r) ==
    /\ sre[r].op = "update"
    /\ incident' = [status |-> IF sre[r].from = sre[r].to THEN incident.status ELSE sre[r].to,
                    stamps |-> incident.stamps \cup Stamped(sre[r].to)]
    /\ Commits(r)
    /\ UNCHANGED <<alerts, occurrences, rivals, revived>>

(* A request that raises or loses its connection is rolled back.           *)
SreFails(r) ==
    /\ sre[r] # NoWork
    /\ Commits(r)
    /\ UNCHANGED <<alerts, occurrences, incident, rivals, revived>>

AlertNext ==
    \E r \in SreRequests :
       BeginReport(r) \/ CommitReport(r) \/ BeginMark(r) \/ CommitMark(r) \/ SreFails(r)
IncidentNext ==
    \E r \in SreRequests : BeginStatus(r) \/ CommitStatus(r) \/ SreFails(r)
SreNext == AlertNext \/ IncidentNext

SreSpec == SreInit /\ [][SreNext]_sreVars
-----------------------------------------------------------------------------
(* Every report is counted once, by one active alert: however reports race *)
(* with operators, provided that two reports do not overlap and an alert   *)
(* that has ended is not acknowledged after all; no report is ever counted *)
(* twice.  An incident is closed only after it was resolved, and has its   *)
(* time of resolution exactly if that is its status, unless two updates of *)
(* it overlapped.                                                          *)
ReportsAreCounted ==
    LET counted == FoldLeft(LAMBDA n, a : n + a.count, 0, alerts) IN
    /\ counted <= occurrences
    /\ "report" \notin rivals =>
          /\ counted = occurrences
          /\ ~revived => Cardinality({a \in DOMAIN alerts : alerts[a].status \in ActiveStatus}) <= 1
    /\ "CLOSED" \in incident.stamps => "RESOLVED" \in incident.stamps
    /\ "update" \notin rivals => (incident.status \in Finished <=> "RESOLVED" \in incident.stamps)
================================================================================
