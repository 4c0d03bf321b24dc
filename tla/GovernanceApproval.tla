-------------------------- MODULE GovernanceApproval --------------------------
(***************************************************************************)
(* One approval request (backend/app/governance): reviewers vote, each in  *)
(* a transaction of its own, while the request may be cancelled, revoked   *)
(* or expired, and a caller asks the gate before it acts.  The request row *)
(* is held from an UPDATE to the commit; a status that a transaction did   *)
(* not change is not written.                                              *)
(***************************************************************************)
EXTENDS Naturals, FiniteSets

CONSTANTS Reviewers,     \* users who may vote
          Requester,     \* the user who asked
          MinApprovers,  \* what the policy requires at this risk (0: automatic)
          AllowSelf      \* the policy lets the requester review

ASSUME GovernanceAssumption == MinApprovers \in Nat /\ AllowSelf \in BOOLEAN

VARIABLES request,    \* committed status of the request
          votes,      \* committed votes
          decisions,  \* committed decision records: outcome and reviewers
          voter,      \* what each reviewer's transaction has loaded and flushed
          clerk,      \* the transactions that cancel, revoke and expire
          late,       \* expires_at has passed
          acted       \* the gate has let the action through (history)

governanceVars == <<request, votes, decisions, voter, clerk, late, acted>>

Verdicts == {"APPROVE", "REJECT", "REQUEST_CHANGES"}
Closed == {"APPROVED", "REJECTED", "CANCELLED", "REVOKED"}
Open == {"PENDING", "IN_REVIEW", "CHANGES_REQUESTED"}
RequestStatuses == Open \cup Closed \cup {"EXPIRED"}
Nothing == "none"
Clerks == {"cancel", "revoke", "expire"}

(* A reviewer's transaction: the verdict, the status it loaded, the status *)
(* it will write, whether it holds the row, and the votes it counted.      *)
Ballots == [at : {"idle", "loaded", "voted", "tallied", "flushed"}, verdict : Verdicts \cup {Nothing},
            seen : RequestStatuses, writes : RequestStatuses \cup {Nothing}, held : BOOLEAN,
            by : SUBSET Reviewers]

GovernanceTypeOK ==
    /\ request \in RequestStatuses
    /\ votes \in [Reviewers -> Verdicts \cup {Nothing}]
    /\ decisions \subseteq [outcome : {"APPROVED", "REJECTED"}, by : SUBSET Reviewers]
    /\ voter \in [Reviewers -> Ballots]
    /\ clerk \in [Clerks -> {"idle", "loaded"}]
    /\ late \in BOOLEAN /\ acted \in BOOLEAN

NoVote == [at |-> "idle", verdict |-> Nothing, seen |-> "PENDING", writes |-> Nothing, held |-> FALSE, by |-> {}]

(* create_approval_request: approved at once, with its decision, or        *)
(* pending until people review it.                                         *)
GovernanceInit ==
    /\ request = IF MinApprovers = 0 THEN "APPROVED" ELSE "PENDING"
    /\ decisions = IF MinApprovers = 0 THEN {[outcome |-> "APPROVED", by |-> {}]} ELSE {}
    /\ votes = [r \in Reviewers |-> Nothing]
    /\ voter = [r \in Reviewers |-> NoVote]
    /\ clerk = [c \in Clerks |-> "idle"]
    /\ late = FALSE /\ acted = FALSE
-----------------------------------------------------------------------------
RowFree(r) == \A q \in Reviewers \ {r} : ~voter[q].held
Votes(r, x) == voter' = [voter EXCEPT ![r] = x]

(* cast_vote loads the request and refuses a closed one; an expired one is *)
(* flushed as such, but the error rolls that back.  Separation of duties   *)
(* keeps the requester out.                                                *)
LoadRequest(r, verdict) ==
    /\ voter[r].at = "idle"
    /\ request \in Open /\ ~late
    /\ r = Requester => AllowSelf
    /\ Votes(r, [NoVote EXCEPT !.at = "loaded", !.verdict = verdict, !.seen = request])
    /\ UNCHANGED <<request, votes, decisions, clerk, late, acted>>

(* create_vote flushes the vote, and IN_REVIEW if the request was loaded   *)
(* pending.  One vote per reviewer: a second one raises.                   *)
RecordVote(r) ==
    LET x == voter[r]
        starts == x.seen = "PENDING" IN
    /\ x.at = "loaded" /\ votes[r] = Nothing
    /\ starts => RowFree(r)
    /\ Votes(r, [x EXCEPT !.at = "voted", !.held = starts, !.writes = IF starts THEN "IN_REVIEW" ELSE Nothing])
    /\ UNCHANGED <<request, votes, decisions, clerk, late, acted>>

(* The tally counts the committed votes and the reviewer's own.            *)
Cast(r, verdict) == {q \in Reviewers : votes[q] = verdict} \cup IF voter[r].verdict = verdict THEN {r} ELSE {}
AllCast(r) == UNION {Cast(r, verdict) : verdict \in Verdicts}

(* Mutant: an approving voter counts every vote cast.                      *)
TallyOfAll(r) ==
    LET x == voter[r]
        approves == x.verdict = "APPROVE" /\ Cardinality(AllCast(r)) >= MinApprovers IN
    /\ x.at = "voted"
    /\ Votes(r, [x EXCEPT !.at = "tallied", !.by = IF approves THEN AllCast(r) ELSE {},
                          !.writes = IF approves THEN "APPROVED" ELSE @])
    /\ UNCHANGED <<request, votes, decisions, clerk, late, acted>>

Outcome(r) ==
    LET x == voter[r] IN
    CASE x.verdict = "REJECT" -> [to |-> "REJECTED", by |-> AllCast(r)]
      [] x.verdict = "REQUEST_CHANGES" -> [to |-> "CHANGES_REQUESTED", by |-> {}]
      [] x.verdict = "APPROVE" /\ Cardinality(Cast(r, "APPROVE")) >= MinApprovers
           -> [to |-> "APPROVED", by |-> Cast(r, "APPROVE")]
      [] OTHER -> [to |-> x.writes, by |-> {}]

Tally(r) ==
    LET x == voter[r]
        outcome == Outcome(r) IN
    /\ x.at = "voted"
    /\ Votes(r, [x EXCEPT !.at = "tallied", !.by = outcome.by,
                          !.writes = IF outcome.to = x.seen THEN Nothing ELSE outcome.to])
    /\ UNCHANGED <<request, votes, decisions, clerk, late, acted>>

(* updated_at is always written, so the row is held from here on.          *)
FlushOutcome(r) ==
    /\ voter[r].at = "tallied" /\ RowFree(r)
    /\ Votes(r, [voter[r] EXCEPT !.at = "flushed", !.held = TRUE])
    /\ UNCHANGED <<request, votes, decisions, clerk, late, acted>>

CommitVote(r) ==
    LET x == voter[r] IN
    /\ x.at = "flushed"
    /\ request' = IF x.writes = Nothing THEN request ELSE x.writes
    /\ votes' = [votes EXCEPT ![r] = x.verdict]
    /\ decisions' = decisions \cup
          {d \in {[outcome |-> x.writes, by |-> x.by]} : d.outcome \in {"APPROVED", "REJECTED"}}
    /\ Votes(r, NoVote)
    /\ UNCHANGED <<clerk, late, acted>>

(* The request of the reviewer raises or vanishes; all is rolled back.     *)
AbortVote(r) ==
    /\ voter[r].at # "idle"
    /\ Votes(r, NoVote)
    /\ UNCHANGED <<request, votes, decisions, clerk, late, acted>>

(* cancel_request, revoke_approval and process_expired_requests load ...   *)
LoadFor(c) ==
    /\ clerk[c] = "idle"
    /\ CASE c = "cancel" -> request \in Open
         [] c = "revoke" -> request = "APPROVED"
         [] c = "expire" -> request \in {"PENDING", "IN_REVIEW"} /\ late
    /\ clerk' = [clerk EXCEPT ![c] = "loaded"]
    /\ UNCHANGED <<request, votes, decisions, voter, late, acted>>

(* ... and write when the row is free.                                     *)
WriteAs(c) ==
    /\ clerk[c] = "loaded" /\ \A r \in Reviewers : ~voter[r].held
    /\ clerk' = [clerk EXCEPT ![c] = "idle"]
    /\ request' = CASE c = "cancel" -> "CANCELLED" [] c = "revoke" -> "REVOKED" [] c = "expire" -> "EXPIRED"
    /\ UNCHANGED <<votes, decisions, voter, late, acted>>

(* verify_pre_execution_gate: approved, and not expired.                   *)
PassGate ==
    /\ request = "APPROVED" /\ ~late
    /\ acted' = TRUE
    /\ UNCHANGED <<request, votes, decisions, voter, clerk, late>>

GrowLate ==
    /\ ~late /\ late' = TRUE
    /\ UNCHANGED <<request, votes, decisions, voter, clerk, acted>>

GovernanceNext ==
    \/ \E r \in Reviewers :
          \/ \E verdict \in Verdicts : LoadRequest(r, verdict)
          \/ RecordVote(r) \/ Tally(r) \/ FlushOutcome(r) \/ CommitVote(r) \/ AbortVote(r)
    \/ \E c \in Clerks : LoadFor(c) \/ WriteAs(c)
    \/ PassGate \/ GrowLate

GovernanceSpec == GovernanceInit /\ [][GovernanceNext]_governanceVars
-----------------------------------------------------------------------------
(* However votes, cancellations and expiries overlap, an approval is       *)
(* backed: whenever the request is approved, or the action was let         *)
(* through, a decision is on record whose reviewers are as many as the     *)
(* policy requires, each with a committed approving vote, and the          *)
(* requester is not among them unless the policy allows it.                *)
Backed(d) ==
    /\ d.outcome = "APPROVED" /\ Cardinality(d.by) >= MinApprovers
    /\ \A r \in d.by : votes[r] = "APPROVE" /\ (r = Requester => AllowSelf)

ApprovalIsBacked ==
    /\ request = "APPROVED" \/ acted => \E d \in decisions : Backed(d)
    /\ \A d \in decisions : d.outcome = "APPROVED" => Backed(d)
===============================================================================
