---------------------------- MODULE CountingProofs ----------------------------
(***************************************************************************)
(* Decisions and limits that rest on counts, for any number of actors: the *)
(* votes behind an approval, the jobs and entries that racing requests of  *)
(* the dispatcher add, the permits of the worker's loop, the reports that  *)
(* the alerts of a fingerprint count, the cases that a benchmark run       *)
(* counts, the limits by which a release is judged, the ranks of what is   *)
(* chosen as the evidence of an answer, and those that a search gives its  *)
(* chunks, which are sums of shares.                                       *)
(***************************************************************************)
EXTENDS GovernanceApproval, JobLimits, AlertIncidents, Quality, AnalystAnswer, HybridSearch,
        SequenceTheorems, FiniteSetTheorems, WellFoundedInduction, TLAPS
-----------------------------------------------------------------------------
(***************************************************************************)
(* An approval.                                                            *)
(***************************************************************************)
(* Who votes may vote, and has not voted before: the vote is recorded when *)
(* no other of the reviewer is committed, and commits only with the rest.  *)
Eligible(r) == r = Requester => AllowSelf
VotersMayVote ==
    \A r \in Reviewers :
       /\ voter[r].at # "idle" => Eligible(r)
       /\ voter[r].at \in {"voted", "tallied", "flushed"} => votes[r] = Nothing
       /\ votes[r] # Nothing => Eligible(r)

(* An approval about to be written has been counted: the votes it counts   *)
(* are committed, but for the reviewer's own.                              *)
CountedOn(r, x) ==
    /\ x.verdict = "APPROVE" /\ Cardinality(x.by) >= MinApprovers
    /\ x.by \subseteq Reviewers
    /\ \A q \in x.by : q = r \/ votes[q] = "APPROVE"
TalliesAreCounted ==
    \A r \in Reviewers :
       /\ voter[r].at \in {"loaded", "voted"} => voter[r].writes \in {"IN_REVIEW", Nothing}
       /\ voter[r].at \in {"tallied", "flushed"} /\ voter[r].writes = "APPROVED" => CountedOn(r, voter[r])

GovernanceInv == GovernanceTypeOK /\ VotersMayVote /\ TalliesAreCounted /\ ApprovalIsBacked
-----------------------------------------------------------------------------
(* A request may start approved, with a decision that counts nobody, if    *)
(* the policy requires nobody.                                             *)
LEMMA GovernanceInitInv == GovernanceInit => GovernanceInv
  <1> SUFFICES ASSUME GovernanceInit  PROVE GovernanceInv
    OBVIOUS
  <1>1. GovernanceTypeOK
    <2>1. NoVote \in Ballots
      BY DEF NoVote, Ballots, RequestStatuses, Open
    <2>2. decisions \subseteq [outcome : {"APPROVED", "REJECTED"}, by : SUBSET Reviewers]
      <3>1. [outcome |-> "APPROVED", by |-> {}] \in [outcome : {"APPROVED", "REJECTED"}, by : SUBSET Reviewers]
        OBVIOUS
      <3> QED
        BY <3>1 DEF GovernanceInit
    <2>3. request \in RequestStatuses
      BY DEF GovernanceInit, RequestStatuses, Open, Closed
    <2> QED
      BY <2>1, <2>2, <2>3 DEF GovernanceInit, GovernanceTypeOK
  <1>2. VotersMayVote /\ TalliesAreCounted
    BY DEF GovernanceInit, VotersMayVote, TalliesAreCounted, NoVote
  <1>3. Cardinality({}) = 0
    BY FS_EmptySet
  <1>4. ApprovalIsBacked
    <2>1. CASE MinApprovers = 0
      <3> DEFINE d == [outcome |-> "APPROVED", by |-> {}]
      <3>1. decisions = {d} /\ d.outcome = "APPROVED" /\ d.by = {}
        BY <2>1 DEF GovernanceInit
      <3>2. Backed(d)
        BY <1>3, <2>1, <3>1 DEF Backed
      <3> QED
        BY <3>1, <3>2 DEF ApprovalIsBacked
    <2>2. CASE MinApprovers # 0
      BY <2>2 DEF GovernanceInit, ApprovalIsBacked
    <2> QED
      BY <2>1, <2>2
  <1> QED
    BY <1>1, <1>2, <1>4 DEF GovernanceInv

(* Type correctness, one step per action of a reviewer's transaction.      *)
LEMMA GovernanceStepTypes ==
  ASSUME GovernanceTypeOK, [GovernanceNext]_governanceVars  PROVE GovernanceTypeOK'
  <1> USE DEF GovernanceTypeOK
  <1>1. NoVote \in Ballots
    BY DEF NoVote, Ballots, RequestStatuses, Open
  <1>4. ASSUME NEW r \in Reviewers, NEW verdict \in Verdicts, LoadRequest(r, verdict)
        PROVE  GovernanceTypeOK'
    <2>1. [NoVote EXCEPT !.at = "loaded", !.verdict = verdict, !.seen = request] \in Ballots
      BY <1>1 DEF Ballots, NoVote, RequestStatuses, Open
    <2> QED
      BY <1>4, <2>1 DEF LoadRequest, Votes
  <1>5. ASSUME NEW r \in Reviewers, RecordVote(r)  PROVE GovernanceTypeOK'
    <2>1. voter[r] \in Ballots
      OBVIOUS
    <2>2. \A b \in BOOLEAN :
            [voter[r] EXCEPT !.at = "voted", !.held = b, !.writes = IF b THEN "IN_REVIEW" ELSE Nothing]
               \in Ballots
      BY <2>1 DEF Ballots, RequestStatuses, Open
    <2> QED
      BY <1>5, <2>2 DEF RecordVote, Votes
  <1>6. ASSUME NEW r \in Reviewers, Tally(r)  PROVE GovernanceTypeOK'
    <2>1. voter[r] \in Ballots
      OBVIOUS
    <2>2. \A v \in Verdicts : Cast(r, v) \subseteq Reviewers
      BY DEF Cast
    <2>3. AllCast(r) \subseteq Reviewers
      BY <2>2 DEF AllCast
    <2>4. \E s \in RequestStatuses \cup {Nothing}, b \in SUBSET Reviewers :
             voter' = [voter EXCEPT ![r] = [voter[r] EXCEPT !.at = "tallied", !.by = b, !.writes = s]]
      <3>1. CASE voter[r].verdict = "REJECT"
        BY <1>6, <2>1, <2>3, <3>1 DEF Tally, Outcome, Votes, RequestStatuses, Closed, Open
      <3>2. CASE voter[r].verdict = "REQUEST_CHANGES"
        BY <1>6, <2>1, <3>2 DEF Tally, Outcome, Votes, RequestStatuses, Closed, Open
      <3>3. CASE voter[r].verdict = "APPROVE" /\ Cardinality(Cast(r, "APPROVE")) >= MinApprovers
        BY <1>6, <2>1, <2>2, <3>3 DEF Verdicts, Tally, Outcome, Votes, RequestStatuses, Closed, Open
      <3>4. CASE /\ voter[r].verdict \notin {"REJECT", "REQUEST_CHANGES"}
                 /\ ~(voter[r].verdict = "APPROVE" /\ Cardinality(Cast(r, "APPROVE")) >= MinApprovers)
        BY <1>6, <2>1, <3>4 DEF Tally, Outcome, Votes, Ballots
      <3> QED
        BY <3>1, <3>2, <3>3, <3>4
    <2>5. \A s \in RequestStatuses \cup {Nothing}, b \in SUBSET Reviewers :
             [voter[r] EXCEPT !.at = "tallied", !.by = b, !.writes = s] \in Ballots
      BY <2>1 DEF Ballots
    <2>6. \E x \in Ballots : voter' = [voter EXCEPT ![r] = x]
      BY <2>4, <2>5, Zenon
    <2>7. UNCHANGED <<request, votes, decisions, clerk, late, acted>>
      BY <1>6 DEF Tally
    <2> QED
      BY <2>6, <2>7
  <1>7. ASSUME NEW r \in Reviewers, FlushOutcome(r)  PROVE GovernanceTypeOK'
    <2>1. [voter[r] EXCEPT !.at = "flushed", !.held = TRUE] \in Ballots
      <3>1. voter[r] \in Ballots
        OBVIOUS
      <3> QED
        BY <3>1 DEF Ballots
    <2> QED
      BY <1>7, <2>1 DEF FlushOutcome, Votes
  <1>8. ASSUME NEW r \in Reviewers, CommitVote(r)  PROVE GovernanceTypeOK'
    <2>1. voter[r] \in Ballots
      OBVIOUS
    <2>2. request' \in RequestStatuses /\ votes' \in [Reviewers -> Verdicts \cup {Nothing}]
      BY <1>8, <2>1 DEF CommitVote, Ballots
    <2>3. voter' \in [Reviewers -> Ballots]
      BY <1>1, <1>8 DEF CommitVote, Votes
    <2>4. decisions' \subseteq [outcome : {"APPROVED", "REJECTED"}, by : SUBSET Reviewers]
      BY <1>8, <2>1 DEF CommitVote, Ballots
    <2> QED
      BY <1>8, <2>2, <2>3, <2>4 DEF CommitVote
  <1>9. ASSUME NEW r \in Reviewers, AbortVote(r)  PROVE GovernanceTypeOK'
    BY <1>1, <1>9 DEF AbortVote, Votes
  <1>10. ASSUME NEW c \in Clerks, LoadFor(c)  PROVE GovernanceTypeOK'
    BY <1>10 DEF LoadFor
  <1>11. ASSUME NEW c \in Clerks, WriteAs(c)  PROVE GovernanceTypeOK'
    BY <1>11 DEF WriteAs, Clerks, RequestStatuses, Closed
  <1>12. CASE PassGate \/ GrowLate
    BY <1>12 DEF PassGate, GrowLate
  <1>13. CASE UNCHANGED governanceVars
    BY <1>13 DEF governanceVars
  <1> QED
    BY <1>4, <1>5, <1>6, <1>7, <1>8, <1>9, <1>10, <1>11, <1>12, <1>13 DEF GovernanceNext
-----------------------------------------------------------------------------
(* A vote, once committed, stands.                                         *)
LEMMA VotesStand ==
  ASSUME GovernanceInv, [GovernanceNext]_governanceVars,
         NEW q \in Reviewers, votes[q] # Nothing
  PROVE  votes'[q] = votes[q]
  <1>1. ASSUME NEW r \in Reviewers, CommitVote(r)  PROVE votes'[q] = votes[q]
    <2>1. voter[r].at = "flushed" /\ votes' = [votes EXCEPT ![r] = voter[r].verdict]
      BY <1>1 DEF CommitVote
    <2>2. q # r
      BY <2>1 DEF GovernanceInv, VotersMayVote
    <2> QED
      BY <2>1, <2>2 DEF GovernanceInv, GovernanceTypeOK
  <1>2. ASSUME \A r \in Reviewers : ~CommitVote(r)  PROVE votes' = votes
    BY <1>2 DEF GovernanceNext, governanceVars, LoadRequest, RecordVote, Tally, FlushOutcome,
                AbortVote, LoadFor, WriteAs, PassGate, GrowLate
  <1> QED
    BY <1>1, <1>2

(* So what was counted on can be counted on.                               *)
LEMMA BackingStands ==
  ASSUME GovernanceInv, [GovernanceNext]_governanceVars
  PROVE  /\ \A r \in Reviewers, x \in Ballots : CountedOn(r, x) =>
               \A q \in x.by : q = r \/ votes'[q] = "APPROVE"
         /\ \A d \in decisions : Backed(d) => Backed(d)'
  <1>1. decisions \subseteq [outcome : {"APPROVED", "REJECTED"}, by : SUBSET Reviewers]
    BY DEF GovernanceInv, GovernanceTypeOK
  <1>2. \A q \in Reviewers : votes[q] = "APPROVE" => votes'[q] = "APPROVE"
    BY VotesStand DEF Nothing
  <1>3. \A d \in decisions : d.by \subseteq Reviewers
    BY <1>1
  <1> QED
    BY <1>2, <1>3 DEF CountedOn, Backed

LEMMA StepKeepsVoters ==
  ASSUME GovernanceInv, [GovernanceNext]_governanceVars  PROVE VotersMayVote'
  <1>1. /\ voter \in [Reviewers -> Ballots] /\ votes \in [Reviewers -> Verdicts \cup {Nothing}]
        /\ \A r \in Reviewers : voter[r] \in Ballots
    BY DEF GovernanceInv, GovernanceTypeOK
  <1>2. NoVote \in Ballots /\ NoVote.at = "idle"
    BY DEF NoVote, Ballots, RequestStatuses, Open
  <1>3. VotersMayVote
    BY DEF GovernanceInv
  <1>4. ASSUME NEW r \in Reviewers, NEW verdict \in Verdicts, LoadRequest(r, verdict)
        PROVE  VotersMayVote'
    <2>1. /\ votes' = votes /\ voter'[r].at = "loaded" /\ Eligible(r)
          /\ \A q \in Reviewers : q # r => voter'[q] = voter[q]
      BY <1>1, <1>2, <1>4 DEF LoadRequest, Votes, Eligible, Ballots
    <2> QED
      BY <1>3, <2>1 DEF VotersMayVote, Eligible
  <1>5. ASSUME NEW r \in Reviewers, RecordVote(r) \/ Tally(r) \/ FlushOutcome(r)
        PROVE  VotersMayVote'
    <2>1. /\ votes' = votes /\ voter[r].at \in {"loaded", "voted", "tallied"}
          /\ voter'[r].at \in {"voted", "tallied", "flushed"}
          /\ voter[r].at = "loaded" => votes[r] = Nothing
          /\ \A q \in Reviewers : q # r => voter'[q] = voter[q]
      <3>1. CASE RecordVote(r)
        BY <1>1, <3>1 DEF RecordVote, Votes, Ballots
      <3>2. CASE Tally(r)
        BY <1>1, <3>2 DEF Tally, Votes, Ballots
      <3>3. CASE FlushOutcome(r)
        BY <1>1, <3>3 DEF FlushOutcome, Votes, Ballots
      <3> QED
        BY <1>5, <3>1, <3>2, <3>3
    <2> QED
      BY <1>3, <2>1 DEF VotersMayVote, Eligible
  <1>6. ASSUME NEW r \in Reviewers, CommitVote(r) \/ AbortVote(r)
        PROVE  VotersMayVote'
    <2>1. /\ voter[r].at # "idle" /\ voter'[r].at = "idle"
          /\ \A q \in Reviewers : q # r => voter'[q] = voter[q] /\ votes'[q] = votes[q]
      BY <1>1, <1>2, <1>6 DEF CommitVote, AbortVote, Votes
    <2> QED
      BY <1>3, <2>1 DEF VotersMayVote, Eligible
  <1>7. ASSUME \A r \in Reviewers :
                  ~(RecordVote(r) \/ Tally(r) \/ FlushOutcome(r) \/ CommitVote(r) \/ AbortVote(r)
                    \/ \E verdict \in Verdicts : LoadRequest(r, verdict))
        PROVE  voter' = voter /\ votes' = votes
    BY <1>7 DEF GovernanceNext, governanceVars, LoadFor, WriteAs, PassGate, GrowLate
  <1> QED
    BY <1>3, <1>4, <1>5, <1>6, <1>7 DEF VotersMayVote, Eligible

LEMMA StepKeepsTallies ==
  ASSUME GovernanceInv, [GovernanceNext]_governanceVars  PROVE TalliesAreCounted'
  <1>1. /\ voter \in [Reviewers -> Ballots] /\ votes \in [Reviewers -> Verdicts \cup {Nothing}]
        /\ \A r \in Reviewers : voter[r] \in Ballots
    BY DEF GovernanceInv, GovernanceTypeOK
  <1>2. NoVote \in Ballots /\ NoVote.at = "idle" /\ NoVote.writes = Nothing
    BY DEF NoVote, Ballots, RequestStatuses, Open
  <1>3. TalliesAreCounted
    BY DEF GovernanceInv
  <1> DEFINE Fine(r, x) ==
        /\ x.at \in {"loaded", "voted"} => x.writes \in {"IN_REVIEW", Nothing}
        /\ x.at \in {"tallied", "flushed"} /\ x.writes = "APPROVED" =>
              /\ x.verdict = "APPROVE" /\ Cardinality(x.by) >= MinApprovers
              /\ x.by \subseteq Reviewers
              /\ \A q \in x.by : q = r \/ votes'[q] = "APPROVE"
  <1>4. SUFFICES \A r \in Reviewers : Fine(r, voter'[r])
    BY DEF TalliesAreCounted, CountedOn
  <1>5. \A r \in Reviewers : Fine(r, voter[r])
    BY <1>1, <1>3, BackingStands DEF TalliesAreCounted, CountedOn
  <1>6. ASSUME NEW r \in Reviewers, NEW verdict \in Verdicts, LoadRequest(r, verdict)
        PROVE  Fine(r, voter'[r]) /\ \A q \in Reviewers : q # r => voter'[q] = voter[q]
    BY <1>1, <1>2, <1>6 DEF LoadRequest, Votes, NoVote
  <1>7. ASSUME NEW r \in Reviewers, RecordVote(r)
        PROVE  Fine(r, voter'[r]) /\ \A q \in Reviewers : q # r => voter'[q] = voter[q]
    BY <1>1, <1>7 DEF RecordVote, Votes, Ballots
  <1>8. ASSUME NEW r \in Reviewers, Tally(r)
        PROVE  Fine(r, voter'[r]) /\ \A q \in Reviewers : q # r => voter'[q] = voter[q]
    <2> DEFINE x == voter[r]
    <2>1. votes' = votes /\ voter' = [voter EXCEPT ![r] =
             [x EXCEPT !.at = "tallied", !.by = Outcome(r).by,
                       !.writes = IF Outcome(r).to = x.seen THEN Nothing ELSE Outcome(r).to]]
          /\ x.at = "voted"
      BY <1>8 DEF Tally, Votes
    <2>2. /\ voter'[r].at = "tallied" /\ voter'[r].by = Outcome(r).by /\ voter'[r].verdict = x.verdict
          /\ voter'[r].writes \in {Outcome(r).to, Nothing}
          /\ \A q \in Reviewers : q # r => voter'[q] = voter[q]
      BY <1>1, <2>1 DEF Ballots
    <2>3. x.writes \in {"IN_REVIEW", Nothing}
      BY <1>5, <2>1
    <2>4. ASSUME Outcome(r).to = "APPROVED"
          PROVE  /\ x.verdict = "APPROVE" /\ Outcome(r).by = Cast(r, "APPROVE")
                 /\ Cardinality(Cast(r, "APPROVE")) >= MinApprovers
      BY <2>3, <2>4 DEF Outcome, Nothing
    <2>5. Cast(r, "APPROVE") \subseteq Reviewers
          /\ \A q \in Cast(r, "APPROVE") : q = r \/ votes'[q] = "APPROVE"
      BY <2>1 DEF Cast
    <2> QED
      BY <2>2, <2>4, <2>5 DEF Nothing
  <1>9. ASSUME NEW r \in Reviewers, FlushOutcome(r)
        PROVE  Fine(r, voter'[r]) /\ \A q \in Reviewers : q # r => voter'[q] = voter[q]
    <2>1. /\ voter[r].at = "tallied" /\ voter'[r].at = "flushed" /\ voter'[r].writes = voter[r].writes
          /\ voter'[r].by = voter[r].by /\ voter'[r].verdict = voter[r].verdict
          /\ \A q \in Reviewers : q # r => voter'[q] = voter[q]
      BY <1>1, <1>9 DEF FlushOutcome, Votes, Ballots
    <2> QED
      BY <1>5, <2>1
  <1>10. ASSUME NEW r \in Reviewers, CommitVote(r) \/ AbortVote(r)
         PROVE  Fine(r, voter'[r]) /\ \A q \in Reviewers : q # r => voter'[q] = voter[q]
    BY <1>1, <1>2, <1>10 DEF CommitVote, AbortVote, Votes
  <1>11. ASSUME \A r \in Reviewers :
                  ~(RecordVote(r) \/ Tally(r) \/ FlushOutcome(r) \/ CommitVote(r) \/ AbortVote(r)
                    \/ \E verdict \in Verdicts : LoadRequest(r, verdict))
         PROVE  voter' = voter
    BY <1>11 DEF GovernanceNext, governanceVars, LoadFor, WriteAs, PassGate, GrowLate
  <1> HIDE DEF Fine
  <1> QED
    BY <1>5, <1>6, <1>7, <1>8, <1>9, <1>10, <1>11

LEMMA StepKeepsBacking ==
  ASSUME GovernanceInv, [GovernanceNext]_governanceVars  PROVE ApprovalIsBacked'
  <1>1. ApprovalIsBacked /\ \A d \in decisions : Backed(d) => Backed(d)'
    BY BackingStands DEF GovernanceInv
  <1>2. ASSUME NEW r \in Reviewers, CommitVote(r)  PROVE ApprovalIsBacked'
    <2> DEFINE x == voter[r]
    <2>1. /\ x.at = "flushed" /\ votes' = [votes EXCEPT ![r] = x.verdict]
          /\ request' = IF x.writes = Nothing THEN request ELSE x.writes
          /\ acted' = acted
      BY <1>2 DEF CommitVote
    <2>2. /\ decisions \subseteq decisions'
          /\ \A d \in decisions' : d \in decisions \/
                (d = [outcome |-> x.writes, by |-> x.by] /\ x.writes \in {"APPROVED", "REJECTED"})
          /\ x.writes = "APPROVED" => [outcome |-> x.writes, by |-> x.by] \in decisions'
      BY <1>2 DEF CommitVote
    <2>3. ASSUME x.writes = "APPROVED"
          PROVE  /\ Cardinality(x.by) >= MinApprovers
                 /\ \A q \in x.by : votes'[q] = "APPROVE" /\ (q = Requester => AllowSelf)
      <3>1. x \in Ballots /\ CountedOn(r, x) /\ votes \in [Reviewers -> Verdicts \cup {Nothing}]
        BY <2>1, <2>3 DEF GovernanceInv, GovernanceTypeOK, TalliesAreCounted
      <3>2. x.verdict = "APPROVE" /\ Cardinality(x.by) >= MinApprovers /\ x.by \subseteq Reviewers
        BY <3>1 DEF CountedOn
      <3>3. \A q \in x.by : votes'[q] = "APPROVE"
        BY <2>1, <3>1, <3>2, BackingStands
      <3>4. \A q \in x.by : Eligible(q)
        BY <2>1, <3>1 DEF CountedOn, GovernanceInv, VotersMayVote, Nothing
      <3> QED
        BY <3>2, <3>3, <3>4 DEF Eligible
    <2>4. ASSUME x.writes = "APPROVED", NEW d, d = [outcome |-> x.writes, by |-> x.by]
          PROVE  Backed(d)'
      BY <2>3, <2>4 DEF Backed
    <2>5. \A d \in decisions' : d.outcome = "APPROVED" => Backed(d)'
      <3> SUFFICES ASSUME NEW d \in decisions', d.outcome = "APPROVED"  PROVE Backed(d)'
        OBVIOUS
      <3>1. CASE d \in decisions
        BY <1>1, <3>1 DEF ApprovalIsBacked
      <3>2. CASE d = [outcome |-> x.writes, by |-> x.by]
        BY <2>4, <3>2
      <3> QED
        BY <2>2, <3>1, <3>2
    <2>6. request' = "APPROVED" \/ acted' => \E d \in decisions' : d.outcome = "APPROVED"
      <3>1. CASE x.writes = "APPROVED"
        BY <2>2, <3>1
      <3>2. CASE x.writes # "APPROVED"
        BY <1>1, <2>1, <2>2, <3>2 DEF ApprovalIsBacked, Backed
      <3> QED
        BY <3>1, <3>2
    <2>7. request' = "APPROVED" \/ acted' => \E d \in decisions' : Backed(d)'
      BY <2>5, <2>6
    <2> QED
      BY <2>5, <2>7 DEF ApprovalIsBacked
  <1>3. ASSUME \A r \in Reviewers : ~CommitVote(r)
        PROVE  /\ decisions' = decisions
               /\ request' = "APPROVED" \/ acted' => request = "APPROVED" \/ acted
    <2>1. ASSUME NEW c \in Clerks, WriteAs(c)
          PROVE  decisions' = decisions /\ request' # "APPROVED" /\ acted' = acted
      BY <2>1 DEF WriteAs, Clerks
    <2>2. ASSUME \A c \in Clerks : ~WriteAs(c), ~PassGate
          PROVE  decisions' = decisions /\ request' = request /\ acted' = acted
      BY <1>3, <2>2 DEF GovernanceNext, governanceVars, LoadRequest, RecordVote, Tally, FlushOutcome,
                        AbortVote, LoadFor, GrowLate
    <2>3. CASE PassGate
      BY <2>3 DEF PassGate
    <2> QED
      BY <2>1, <2>2, <2>3
  <1>4. ASSUME \A r \in Reviewers : ~CommitVote(r)  PROVE ApprovalIsBacked'
    <2>1. \A d \in decisions' : d.outcome = "APPROVED" => Backed(d)'
      BY <1>1, <1>3, <1>4 DEF ApprovalIsBacked
    <2>2. request' = "APPROVED" \/ acted' => \E d \in decisions' : Backed(d)'
      BY <1>1, <1>3, <1>4 DEF ApprovalIsBacked
    <2> QED
      BY <2>1, <2>2 DEF ApprovalIsBacked
  <1> QED
    BY <1>2, <1>4

LEMMA GovernanceStepInv ==
  ASSUME GovernanceInv, [GovernanceNext]_governanceVars  PROVE GovernanceInv'
  BY GovernanceStepTypes, StepKeepsVoters, StepKeepsTallies, StepKeepsBacking DEF GovernanceInv

(* The vote, the count and the decision are in one transaction, and a vote *)
(* is never cast twice (approval_service.py:224-368): an approval, and an  *)
(* action the gate let through, has its quorum on record, and the          *)
(* requester is not in it unless the policy allows that.                   *)
THEOREM ApprovalsAreBacked == GovernanceSpec => []ApprovalIsBacked
  <1>1. GovernanceInv => ApprovalIsBacked
    BY DEF GovernanceInv
  <1> QED
    BY GovernanceInitInv, GovernanceStepInv, <1>1, PTL DEF GovernanceSpec

(* Requests, votes, decisions and transactions stay well-typed.            *)
THEOREM GovernanceTypes == GovernanceSpec => []GovernanceTypeOK
  <1>1. GovernanceInv => GovernanceTypeOK
    BY DEF GovernanceInv
  <1> QED
    BY GovernanceInitInv, GovernanceStepInv, <1>1, PTL DEF GovernanceSpec
-----------------------------------------------------------------------------
(***************************************************************************)
(* The dispatch of a job.                                                  *)
(***************************************************************************)
(* Where a request is tells whether its job is a row and whether the       *)
(* broker was given it; an answer names a row of the same work.            *)
PlacesTell ==
    \A r \in Requests :
       /\ r \in jobs <=> pc[r] \in {"push", "created", "failed"}
       /\ r \in pushed <=> pc[r] = "created"
       /\ \A j \in answer[r] : j \in jobs /\ KeyOf[j] = KeyOf[r] /\ PayloadOf[j] = PayloadOf[r]

(* Who has missed the lookup of a key has, or will have, a job of it.      *)
Claims(k) == {r \in Requests : KeyOf[r] = k /\ pc[r] \in {"insert", "push", "created", "failed"}}
ClaimsAreFew ==
    \A k : k # NoKey => IsFiniteSet(Claims(k)) /\ Cardinality(Claims(k)) <= MaxInFlight

(* Each request past the check of the depth may still add an entry.        *)
RoomIsLeft ==
    /\ IsFiniteSet(Busy) /\ Cardinality(Busy) <= MaxInFlight
    /\ fresh + Cardinality(Busy) <= MaxDepth - 1 + MaxInFlight

DispatchInv ==
    DispatchTypeOK /\ IsFiniteSet(pushed) /\ PlacesTell /\ ClaimsAreFew /\ RoomIsLeft
-----------------------------------------------------------------------------
LEMMA DispatchInvInit == DispatchInit => DispatchInv
  <1> SUFFICES ASSUME DispatchInit  PROVE DispatchInv
    OBVIOUS
  <1> USE DEF DispatchInit
  <1>1. IsFiniteSet({}) /\ Cardinality({}) = 0
    BY FS_EmptySet
  <1>2. Busy = {}
    BY DEF Busy, InFlight
  <1>3. \A k : Claims(k) = {}
    BY DEF Claims
  <1>4. DispatchTypeOK /\ PlacesTell
    BY <1>1, DispatchAssumption DEF DispatchTypeOK, PlacesTell, depth
  <1>5. ClaimsAreFew
    BY <1>1, <1>3, DispatchAssumption DEF ClaimsAreFew
  <1>6. RoomIsLeft
    BY <1>1, <1>2, DispatchAssumption DEF RoomIsLeft
  <1> QED
    BY <1>1, <1>4, <1>5, <1>6 DEF DispatchInv

(* The requests served, when one moves: into the handler, within it, out.  *)
LEMMA StepMovesBusy ==
  ASSUME NEW r \in Requests, NEW from, NEW to, Step(r, from, to),
         pc \in [Requests -> {"new"} \cup InFlight \cup Answers]
  PROVE  /\ from \notin InFlight /\ to \in InFlight => Busy' = Busy \cup {r} /\ r \notin Busy
         /\ from \in InFlight /\ to \in InFlight => Busy' = Busy
         /\ from \in InFlight /\ to \notin InFlight => Busy' = Busy \ {r} /\ r \in Busy
         /\ from \notin InFlight /\ to \notin InFlight => Busy' = Busy
  BY DEF Step, Busy

LEMMA StepKeepsRoom ==
  ASSUME RoomIsLeft, DispatchTypeOK, NEW r \in Requests, NEW from, NEW to, Step(r, from, to),
         \/ /\ from \in InFlight <=> to \in InFlight
            /\ fresh' = fresh
         \/ /\ from \notin InFlight /\ to \in InFlight
            /\ Cardinality(Busy) < MaxInFlight /\ fresh < MaxDepth
            /\ fresh' = fresh
         \/ /\ from \in InFlight /\ to \notin InFlight
            /\ fresh' \in {fresh, fresh + 1}
  PROVE  RoomIsLeft'
  <1> USE DispatchAssumption DEF RoomIsLeft
  <1>1. fresh \in Nat /\ Cardinality(Busy) \in Nat
    BY FS_CardinalityType DEF DispatchTypeOK
  <1>2. CASE (from \in InFlight <=> to \in InFlight) /\ fresh' = fresh
    <2>1. Busy' = Busy
      BY <1>2, StepMovesBusy DEF DispatchTypeOK
    <2> QED
      BY <1>2, <2>1
  <1>3. CASE /\ from \notin InFlight /\ to \in InFlight
             /\ Cardinality(Busy) < MaxInFlight /\ fresh < MaxDepth /\ fresh' = fresh
    <2>1. Busy' = Busy \cup {r} /\ r \notin Busy
      BY <1>3, StepMovesBusy DEF DispatchTypeOK
    <2>2. IsFiniteSet(Busy') /\ Cardinality(Busy') = Cardinality(Busy) + 1
      BY <2>1, FS_AddElement
    <2> QED
      BY <1>1, <1>3, <2>2
  <1>4. CASE from \in InFlight /\ to \notin InFlight /\ fresh' \in {fresh, fresh + 1}
    <2>1. Busy' = Busy \ {r} /\ r \in Busy
      BY <1>4, StepMovesBusy DEF DispatchTypeOK
    <2>2. IsFiniteSet(Busy') /\ Cardinality(Busy') = Cardinality(Busy) - 1
      BY <2>1, FS_RemoveElement
    <2> QED
      BY <1>1, <1>4, <2>2
  <1> QED
    BY <1>2, <1>3, <1>4

(* A move that is no miss of a lookup leaves the claims to each key alone. *)
LEMMA StepKeepsClaims ==
  ASSUME ClaimsAreFew, DispatchTypeOK, NEW r \in Requests, NEW from, NEW to, Step(r, from, to),
         from \in {"insert", "push"} <=> to \in {"insert", "push", "created", "failed"},
         from \notin {"created", "failed"}
  PROVE  ClaimsAreFew'
  <1>1. \A k : Claims(k)' = Claims(k)
    BY DEF Step, Claims, DispatchTypeOK
  <1> QED
    BY <1>1 DEF ClaimsAreFew

(* A lookup misses a key only while whoever claims it is being served.     *)
LEMMA MissKeepsClaims ==
  ASSUME DispatchInv, NEW r \in Requests, LookupMisses(r)
  PROVE  ClaimsAreFew'
  <1> USE DEF DispatchInv, LookupMisses, Step
  <1> SUFFICES ASSUME NEW k, k # NoKey
               PROVE  (IsFiniteSet(Claims(k)) /\ Cardinality(Claims(k)) <= MaxInFlight)'
    BY DEF ClaimsAreFew
  <1>1. CASE KeyOf[r] # k
    <2>1. Claims(k)' = Claims(k)
      BY <1>1 DEF Claims, DispatchTypeOK
    <2> QED
      BY <2>1 DEF ClaimsAreFew
  <1>2. CASE KeyOf[r] = k
    <2>1. \A q \in Requests : KeyOf[q] = k => q \notin jobs
      BY <1>2 DEF Matches, DispatchTypeOK
    <2>2. Claims(k)' \subseteq Busy
      <3> SUFFICES ASSUME NEW q \in Requests, KeyOf[q] = k,
                          pc'[q] \in {"insert", "push", "created", "failed"}
                   PROVE  q \in Busy
        BY DEF Claims
      <3>1. q = r \/ pc[q] = "insert"
        BY <2>1 DEF PlacesTell, DispatchTypeOK
      <3> QED
        BY <3>1 DEF Busy, InFlight
    <2>3. IsFiniteSet(Busy) /\ Cardinality(Busy) <= MaxInFlight /\ Cardinality(Busy) \in Nat
      BY FS_CardinalityType DEF RoomIsLeft
    <2>4. IsFiniteSet(Claims(k)') /\ Cardinality(Claims(k)') <= Cardinality(Busy)
                                  /\ Cardinality(Claims(k)') \in Nat
      BY <2>2, <2>3, FS_Subset, FS_CardinalityType
    <2> QED
      BY <2>3, <2>4, DispatchAssumption
  <1> QED
    BY <1>1, <1>2
LEMMA DispatchStepTypes ==
  ASSUME DispatchInv, [DispatchNext]_dispatchVars
  PROVE  DispatchTypeOK' /\ IsFiniteSet(pushed)'
  <1> USE DEF DispatchInv, DispatchTypeOK, depth
  <1>1. Cardinality(pushed) \in Nat
    BY FS_CardinalityType
  <1>2. \A r \in Requests, from, to \in {"new"} \cup InFlight \cup Answers :
           Step(r, from, to) => pc' \in [Requests -> {"new"} \cup InFlight \cup Answers]
    BY DEF Step
  <1>3. ASSUME NEW r \in Requests, CheckDepth(r) \/ LookupMisses(r) \/ LookupFinds(r) \/ Insert(r)
        PROVE  DispatchTypeOK' /\ IsFiniteSet(pushed)'
    <2>1. pc' \in [Requests -> {"new"} \cup InFlight \cup Answers]
      BY <1>2, <1>3 DEF CheckDepth, LookupMisses, LookupFinds, Insert, InFlight, Answers
    <2>2. answer' \in [Requests -> SUBSET Requests]
      BY <1>3 DEF CheckDepth, LookupMisses, LookupFinds, Insert, Matches
    <2>3. UNCHANGED <<fresh, again, out, pushed, pushFaults>> /\ jobs' \subseteq Requests /\ jobs \subseteq jobs'
      BY <1>3 DEF CheckDepth, LookupMisses, LookupFinds, Insert, broker
    <2> QED
      BY <2>1, <2>2, <2>3
  <1>4. ASSUME NEW r \in Requests, Push(r)  PROVE DispatchTypeOK' /\ IsFiniteSet(pushed)'
    <2>1. pc' \in [Requests -> {"new"} \cup InFlight \cup Answers]
      BY <1>2, <1>4 DEF Push, InFlight, Answers
    <2>2. r \in jobs /\ r \notin pushed
      BY <1>4 DEF Push, Step, PlacesTell
    <2>3. IsFiniteSet(pushed') /\ Cardinality(pushed') = Cardinality(pushed) + 1
      BY <1>4, <2>2, FS_AddElement DEF Push
    <2>4. fresh' \in Nat /\ fresh' + again' + out' <= Cardinality(pushed')
      BY <1>1, <1>4, <2>3 DEF Push
    <2>5. answer' \in [Requests -> SUBSET Requests]
      BY <1>4 DEF Push
    <2> QED
      BY <1>4, <2>1, <2>2, <2>3, <2>4, <2>5 DEF Push
  <1>5. ASSUME NEW r \in Requests, PushFails(r)  PROVE DispatchTypeOK' /\ IsFiniteSet(pushed)'
    <2>1. pc' \in [Requests -> {"new"} \cup InFlight \cup Answers]
      BY <1>2, <1>5 DEF PushFails, InFlight, Answers
    <2> QED
      BY <1>5, <2>1, DispatchAssumption DEF PushFails, broker
  <1>6. CASE Deliver
    BY <1>1, <1>6 DEF Deliver
  <1>7. CASE Acked \/ ComesBack
    BY <1>1, <1>7 DEF Acked, ComesBack
  <1>8. CASE UNCHANGED dispatchVars
    BY <1>8 DEF dispatchVars, broker
  <1> QED
    BY <1>3, <1>4, <1>5, <1>6, <1>7, <1>8 DEF DispatchNext

LEMMA DispatchStepPlaces ==
  ASSUME DispatchInv, [DispatchNext]_dispatchVars
  PROVE  PlacesTell'
  <1> USE DEF DispatchInv, DispatchTypeOK, PlacesTell
  <1>1. ASSUME NEW r \in Requests, CheckDepth(r) \/ LookupMisses(r) \/ Insert(r) \/ Push(r) \/ PushFails(r)
        PROVE  PlacesTell'
    BY <1>1 DEF CheckDepth, LookupMisses, Insert, Push, PushFails, Step, broker
  <1>2. ASSUME NEW r \in Requests, LookupFinds(r)  PROVE PlacesTell'
    BY <1>2 DEF LookupFinds, Step, broker, Matches
  <1>3. CASE Deliver \/ Acked \/ ComesBack
    BY <1>3 DEF Deliver, Acked, ComesBack
  <1>4. CASE UNCHANGED dispatchVars
    BY <1>4 DEF dispatchVars, broker
  <1> QED
    BY <1>1, <1>2, <1>3, <1>4 DEF DispatchNext

LEMMA DispatchStepLimits ==
  ASSUME DispatchInv, [DispatchNext]_dispatchVars
  PROVE  ClaimsAreFew' /\ RoomIsLeft'
  <1> USE DEF DispatchInv, InFlight
  <1>1. ASSUME NEW r \in Requests, CheckDepth(r)  PROVE ClaimsAreFew' /\ RoomIsLeft'
    <2>1. depth >= MaxDepth \/ fresh < MaxDepth
      BY DispatchAssumption DEF depth, DispatchTypeOK
    <2>2. Step(r, "new", "full") \/ (Step(r, "new", "lookup") /\ fresh < MaxDepth)
      BY <1>1, <2>1 DEF CheckDepth
    <2>3. fresh' = fresh /\ Cardinality(Busy) < MaxInFlight
      BY <1>1 DEF CheckDepth, broker
    <2>4. ClaimsAreFew'
      BY <2>2, StepKeepsClaims
    <2>5. RoomIsLeft'
      BY <2>2, <2>3, StepKeepsRoom
    <2> QED
      BY <2>4, <2>5
  <1>2. ASSUME NEW r \in Requests, LookupMisses(r)  PROVE ClaimsAreFew' /\ RoomIsLeft'
    <2>1. Step(r, "lookup", "insert") /\ fresh' = fresh
      BY <1>2 DEF LookupMisses, broker
    <2> QED
      BY <1>2, <2>1, MissKeepsClaims, StepKeepsRoom
  <1>3. ASSUME NEW r \in Requests, LookupFinds(r)  PROVE ClaimsAreFew' /\ RoomIsLeft'
    <2>1. (Step(r, "lookup", "replayed") \/ Step(r, "lookup", "conflict")) /\ fresh' = fresh
      BY <1>3 DEF LookupFinds, broker
    <2> QED
      BY <2>1, StepKeepsClaims, StepKeepsRoom
  <1>4. ASSUME NEW r \in Requests, Insert(r)  PROVE ClaimsAreFew' /\ RoomIsLeft'
    <2>1. Step(r, "insert", "push") /\ fresh' = fresh
      BY <1>4 DEF Insert, broker
    <2> QED
      BY <2>1, StepKeepsClaims, StepKeepsRoom
  <1>5. ASSUME NEW r \in Requests, Push(r) \/ PushFails(r)  PROVE ClaimsAreFew' /\ RoomIsLeft'
    <2>1. Step(r, "push", "created") \/ Step(r, "push", "failed")
      BY <1>5 DEF Push, PushFails
    <2>2. fresh' \in {fresh, fresh + 1}
      BY <1>5 DEF Push, PushFails, broker
    <2> QED
      BY <2>1, <2>2, StepKeepsClaims, StepKeepsRoom
  <1>6. ASSUME pc' = pc, fresh' \in Nat, fresh' <= fresh  PROVE ClaimsAreFew' /\ RoomIsLeft'
    <2>1. Busy' = Busy /\ \A k : Claims(k)' = Claims(k)
      BY <1>6 DEF Busy, Claims
    <2>2. Cardinality(Busy) \in Nat /\ fresh \in Nat
      BY FS_CardinalityType DEF RoomIsLeft, DispatchTypeOK
    <2> QED
      BY <1>6, <2>1, <2>2, DispatchAssumption DEF ClaimsAreFew, RoomIsLeft
  <1>7. CASE Deliver \/ Acked \/ ComesBack
    BY <1>6, <1>7 DEF Deliver, Acked, ComesBack, DispatchTypeOK
  <1>8. CASE UNCHANGED dispatchVars
    BY <1>6, <1>8 DEF dispatchVars, broker, DispatchTypeOK
  <1> QED
    BY <1>1, <1>2, <1>3, <1>4, <1>5, <1>7, <1>8 DEF DispatchNext

LEMMA DispatchInvKeepsPromises == DispatchInv => DispatchKeepsPromises
  <1> SUFFICES ASSUME DispatchInv  PROVE DispatchKeepsPromises
    OBVIOUS
  <1> USE DEF DispatchInv
  <1>1. ASSUME NEW r \in Requests, KeyOf[r] # NoKey
        PROVE  Cardinality({j \in jobs : KeyOf[j] = KeyOf[r]}) <= MaxInFlight
    <2> DEFINE same == {j \in jobs : KeyOf[j] = KeyOf[r]}
    <2>1. same \subseteq Claims(KeyOf[r])
      BY DEF Claims, PlacesTell, DispatchTypeOK
    <2>2. IsFiniteSet(Claims(KeyOf[r])) /\ Cardinality(Claims(KeyOf[r])) <= MaxInFlight
      BY <1>1 DEF ClaimsAreFew
    <2>3. /\ Cardinality(same) \in Nat /\ Cardinality(Claims(KeyOf[r])) \in Nat
          /\ Cardinality(same) <= Cardinality(Claims(KeyOf[r]))
      BY <2>1, <2>2, FS_Subset, FS_CardinalityType
    <2> QED
      BY <2>2, <2>3, DispatchAssumption
  <1>2. KeyJobsBounded
    BY <1>1 DEF KeyJobsBounded
  <1>3. DepthBounded
    <2>1. Cardinality(Busy) \in Nat /\ fresh \in Nat
      BY FS_CardinalityType DEF RoomIsLeft, DispatchTypeOK
    <2> QED
      BY <2>1, DispatchAssumption DEF RoomIsLeft, DepthBounded
  <1>4. AnswersMatch
    BY DEF AnswersMatch, PlacesTell, DispatchTypeOK
  <1> QED
    BY <1>2, <1>3, <1>4 DEF DispatchKeepsPromises

(* However requests race through the dispatcher, and whatever comes back   *)
(* to the lists meanwhile: a key names no more jobs than requests are      *)
(* served at a time, the new jobs overshoot the depth limit by no more     *)
(* than that, and an answer is a job of its own key and payload.           *)
THEOREM DispatchStaysInLimits == DispatchSpec => []DispatchKeepsPromises
  <1>1. DispatchInv /\ [DispatchNext]_dispatchVars => DispatchInv'
    BY DispatchStepTypes, DispatchStepPlaces, DispatchStepLimits DEF DispatchInv
  <1> QED
    BY <1>1, DispatchInvInit, DispatchInvKeepsPromises, PTL DEF DispatchSpec
-----------------------------------------------------------------------------
(***************************************************************************)
(* Sums over a finite set, and the permits of the worker's loop.           *)
(***************************************************************************)
(* Induction without an induction theorem: a set of numbers has a least.   *)
LEMMA NatHasLeast ==
  ASSUME NEW T, T \subseteq Nat, T # {}  PROVE \E n \in T : \A m \in T : n <= m
  <1> DEFINE R == OpToRel(<, Nat)
  <1>1. IsWellFoundedOn(R, Nat)
    BY NatLessThanWellFounded
  <1>2. \A x, y \in Nat : y < x => <<y, x>> \in R
    BY DEF OpToRel
  <1> HIDE DEF R
  <1>3. PICK n \in T : \A m \in T : ~(<<m, n>> \in R)
    BY <1>1, WFMin
  <1>4. \A m \in T : n <= m
    <2> SUFFICES ASSUME NEW m \in T, ~(n <= m)  PROVE FALSE
      OBVIOUS
    <2>1. m < n /\ m \in Nat /\ n \in Nat
      OBVIOUS
    <2> QED
      BY <2>1, <1>2, <1>3
  <1> QED
    BY <1>4

(* What a fold over a finite set defines recursively exists, whichever     *)
(* element c chooses next.                                                 *)
Chooses(D, c) == \A s \in SUBSET D : s # {} => c[s] \in s
Accumulates(D, f, c, g) ==
    /\ g \in [SUBSET D -> Int]
    /\ \A s \in SUBSET D : g[s] = IF s = {} THEN 0 ELSE f[c[s]] + g[s \ {c[s]}]
LEMMA SumExists ==
  ASSUME NEW D, IsFiniteSet(D), NEW f, \A x \in D : f[x] \in Int, NEW c, Chooses(D, c)
  PROVE  \E g : Accumulates(D, f, c, g)
  <1> DEFINE Next1(g, s) == IF s = {} THEN 0 ELSE f[c[s]] + g[s \ {c[s]}]
             UpTo(n, g) == \A s \in SUBSET D : Cardinality(s) <= n => g[s] = Next1(g, s)
             Lack == {n \in Nat : ~ \E g \in [SUBSET D -> Int] : UpTo(n, g)}
  <1>1. \A s \in SUBSET D : IsFiniteSet(s) /\ Cardinality(s) \in Nat /\ Cardinality(s) <= Cardinality(D)
    BY FS_Subset, FS_CardinalityType
  <1>2. \A s \in SUBSET D : (Cardinality(s) = 0 <=> s = {})
    BY <1>1, FS_EmptySet
  <1>3. \A s \in SUBSET D : s # {} => Cardinality(s \ {c[s]}) = Cardinality(s) - 1
    BY <1>1, FS_RemoveElement DEF Chooses
  <1>4. 0 \notin Lack
    <2> DEFINE z == [s \in SUBSET D |-> 0]
    <2>1. z \in [SUBSET D -> Int]
      OBVIOUS
    <2>2. UpTo(0, z)
      BY <1>1, <1>2
    <2> QED
      BY <2>1, <2>2
  <1>5. ASSUME NEW n \in Nat, n \notin Lack  PROVE n + 1 \notin Lack
    <2>1. PICK g \in [SUBSET D -> Int] : UpTo(n, g)
      BY <1>5
    <2> DEFINE h == [s \in SUBSET D |-> IF Cardinality(s) = n + 1 THEN f[c[s]] + g[s \ {c[s]}] ELSE g[s]]
    <2>2. \A s \in SUBSET D : s # {} => f[c[s]] \in Int /\ s \ {c[s]} \in SUBSET D
      BY DEF Chooses
    <2>3. \A s \in SUBSET D : Cardinality(s) = n + 1 => s # {}
      BY <1>2
    <2>4. h \in [SUBSET D -> Int]
      BY <2>2, <2>3
    <2>5. ASSUME NEW s \in SUBSET D, Cardinality(s) <= n + 1  PROVE h[s] = Next1(h, s)
      <3>1. CASE s = {}
        BY <1>2, <2>1, <3>1
      <3>2. CASE s # {}
        <4>1. Cardinality(s \ {c[s]}) = Cardinality(s) - 1 /\ Cardinality(s) \in Nat
          BY <1>1, <1>3, <3>2
        <4>2. Cardinality(s \ {c[s]}) # n + 1 /\ s \ {c[s]} \in SUBSET D
          BY <2>5, <4>1
        <4>3. h[s \ {c[s]}] = g[s \ {c[s]}]
          BY <4>2
        <4>4. h[s] = f[c[s]] + g[s \ {c[s]}]
          <5>1. CASE Cardinality(s) = n + 1
            BY <5>1
          <5>2. CASE Cardinality(s) <= n
            BY <2>1, <3>2, <5>2
          <5> QED
            BY <2>5, <4>1, <5>1, <5>2
        <4> QED
          BY <3>2, <4>3, <4>4
      <3> QED
        BY <3>1, <3>2
    <2>6. UpTo(n + 1, h)
      BY <2>5
    <2> QED
      BY <2>4, <2>6
  <1>6. Lack = {}
    <2> SUFFICES ASSUME Lack # {}  PROVE FALSE
      OBVIOUS
    <2> HIDE DEF UpTo
    <2>1. PICK n \in Lack : \A m \in Lack : n <= m
      BY NatHasLeast
    <2> HIDE DEF Lack
    <2>2. n \in Nat
      BY DEF Lack
    <2>3. n # 0 /\ n - 1 \in Nat /\ n - 1 \notin Lack
      BY <1>4, <2>1, <2>2
    <2>4. (n - 1) + 1 \notin Lack
      BY <1>5, <2>3
    <2> QED
      BY <2>1, <2>2, <2>4
  <1>7. PICK g \in [SUBSET D -> Int] : UpTo(Cardinality(D), g)
    <2> HIDE DEF UpTo
    <2> QED
      BY <1>1, <1>6
  <1>8. \A s \in SUBSET D : g[s] = Next1(g, s)
    BY <1>1, <1>7
  <1>9. Accumulates(D, f, c, g)
    BY <1>8 DEF Accumulates
  <1> QED
    BY <1>9

(* g sums f over the subsets of D, in whatever order it takes elements.    *)
SumOf(D, f, g) ==
    /\ IsFiniteSet(D) /\ \A x \in D : f[x] \in Int
    /\ g[{}] = 0
    /\ \A s \in SUBSET D : s # {} =>
          \E x \in s : g[s] = f[x] + g[s \ {x}] \/ g[s] = g[s \ {x}] + f[x]

(* A sum of integers is one.                                               *)
LEMMA SumIsInteger ==
  ASSUME NEW D, NEW f, NEW g, SumOf(D, f, g)  PROVE \A s \in SUBSET D : g[s] \in Int
  <1> DEFINE Fails == {n \in Nat : \E s \in SUBSET D : Cardinality(s) = n /\ g[s] \notin Int}
  <1>1. \A s \in SUBSET D : IsFiniteSet(s) /\ Cardinality(s) \in Nat
    BY FS_Subset, FS_CardinalityType DEF SumOf
  <1>2. \A s \in SUBSET D : \A x \in s : Cardinality(s \ {x}) = Cardinality(s) - 1
    BY <1>1, FS_RemoveElement
  <1>3. ASSUME Fails # {}  PROVE FALSE
    <2>1. PICK n \in Fails : \A m \in Fails : n <= m
      BY <1>3, NatHasLeast
    <2>2. PICK s \in SUBSET D : Cardinality(s) = n /\ g[s] \notin Int
      BY <2>1
    <2>3. s # {}
      <3>1. g[{}] = 0
        BY DEF SumOf
      <3> QED
        BY <2>2, <3>1
    <2>4. PICK x \in s : g[s] = f[x] + g[s \ {x}] \/ g[s] = g[s \ {x}] + f[x]
      BY <2>3 DEF SumOf
    <2>5. g[s \ {x}] \notin Int
      BY <2>2, <2>4 DEF SumOf
    <2>6. Cardinality(s \ {x}) = n - 1 /\ n - 1 \in Nat
      BY <1>1, <1>2, <2>2
    <2>7. n - 1 \in Fails
      BY <2>5, <2>6
    <2> QED
      BY <2>1, <2>6, <2>7
  <1> QED
    BY <1>1, <1>3

LEMMA SumTakesSome ==
  ASSUME NEW D, NEW f, NEW g, SumOf(D, f, g)
  PROVE  \A s \in SUBSET D : s # {} => \E x \in s : g[s] = f[x] + g[s \ {x}]
  <1> SUFFICES ASSUME NEW s \in SUBSET D, s # {}  PROVE \E x \in s : g[s] = f[x] + g[s \ {x}]
    OBVIOUS
  <1>1. PICK x \in s : g[s] = f[x] + g[s \ {x}] \/ g[s] = g[s \ {x}] + f[x]
    BY DEF SumOf
  <1>2. s \ {x} \in SUBSET D /\ f[x] \in Int
    BY DEF SumOf
  <1>3. g[s \ {x}] \in Int
    BY <1>2, SumIsInteger
  <1>4. g[s \ {x}] + f[x] = f[x] + g[s \ {x}]
    BY <1>2, <1>3
  <1> QED
    BY <1>1, <1>4

(* Any element may be taken out of a sum, ...                              *)
LEMMA SumTakesOut ==
  ASSUME NEW D, NEW f, NEW g, SumOf(D, f, g)
  PROVE  \A s \in SUBSET D : \A t \in s : g[s] = f[t] + g[s \ {t}]
  <1> DEFINE Fails == {n \in Nat : \E s \in SUBSET D : \E t \in s :
                         Cardinality(s) = n /\ g[s] # f[t] + g[s \ {t}]}
  <1>1. \A s \in SUBSET D : IsFiniteSet(s) /\ Cardinality(s) \in Nat
    BY FS_Subset, FS_CardinalityType DEF SumOf
  <1>2. \A s \in SUBSET D : \A x \in s : Cardinality(s \ {x}) = Cardinality(s) - 1
    BY <1>1, FS_RemoveElement
  <1>3. ASSUME Fails # {}  PROVE FALSE
    <2>1. PICK n \in Fails : \A m \in Fails : n <= m
      BY <1>3, NatHasLeast
    <2>0. PICK s \in SUBSET D : \E t \in s : Cardinality(s) = n /\ g[s] # f[t] + g[s \ {t}]
      BY <2>1
    <2>2. PICK t \in s : Cardinality(s) = n /\ g[s] # f[t] + g[s \ {t}]
      BY <2>0
    <2>3. PICK x \in s : g[s] = f[x] + g[s \ {x}]
      <3>1. s # {}
        BY <2>2 DEF SumOf
      <3> QED
        BY <3>1, SumTakesSome
    <2>4. x # t
      BY <2>2, <2>3
    <2>5. \A u \in SUBSET D : \A y \in u : Cardinality(u) < n => g[u] = f[y] + g[u \ {y}]
      <3> SUFFICES ASSUME NEW u \in SUBSET D, NEW y \in u, Cardinality(u) < n, g[u] # f[y] + g[u \ {y}]
                   PROVE  FALSE
        OBVIOUS
      <3>1. Cardinality(u) \in Fails
        BY <1>1
      <3>2. n \in Nat /\ Cardinality(u) \in Nat
        BY <1>1
      <3> HIDE DEF Fails
      <3> QED
        BY <2>1, <3>1, <3>2
    <2>6. Cardinality(s \ {x}) < n /\ Cardinality(s \ {t}) < n
      BY <1>1, <1>2, <2>2
    <2>7. g[s \ {x}] = f[t] + g[(s \ {x}) \ {t}]
      BY <2>4, <2>5, <2>6
    <2>8. g[s \ {t}] = f[x] + g[(s \ {t}) \ {x}]
      BY <2>4, <2>5, <2>6
    <2>9. (s \ {x}) \ {t} = (s \ {t}) \ {x}
      OBVIOUS
    <2> DEFINE rest == g[(s \ {t}) \ {x}]
    <2>10. f[x] \in Int /\ f[t] \in Int /\ rest \in Int
      <3>1. f[x] \in Int /\ f[t] \in Int
        BY DEF SumOf
      <3>2. (s \ {t}) \ {x} \in SUBSET D
        OBVIOUS
      <3> QED
        BY <3>1, <3>2, SumIsInteger
    <2>11. g[s] = f[x] + (f[t] + rest) /\ g[s \ {t}] = f[x] + rest
      BY <2>3, <2>7, <2>8, <2>9
    <2> HIDE DEF rest
    <2> QED
      BY <2>2, <2>10, <2>11
  <1> HIDE DEF Fails
  <1>4. Fails = {}
    BY <1>3
  <1> SUFFICES ASSUME NEW s \in SUBSET D, NEW t \in s, g[s] # f[t] + g[s \ {t}]  PROVE FALSE
    OBVIOUS
  <1>5. Cardinality(s) \in Fails
    BY <1>1 DEF Fails
  <1> QED
    BY <1>4, <1>5

(* ... and what is not in the set does not matter to its sum.              *)
LEMMA SumsAgree ==
  ASSUME NEW D, NEW f, NEW g, SumOf(D, f, g),
         NEW e, NEW h, SumOf(D, e, h)
  PROVE  \A s \in SUBSET D : (\A x \in s : f[x] = e[x]) => g[s] = h[s]
  <1> DEFINE Fails == {n \in Nat : \E s \in SUBSET D :
                         Cardinality(s) = n /\ (\A x \in s : f[x] = e[x]) /\ g[s] # h[s]}
  <1>1. \A s \in SUBSET D : IsFiniteSet(s) /\ Cardinality(s) \in Nat
    BY FS_Subset, FS_CardinalityType DEF SumOf
  <1>2. \A s \in SUBSET D : \A x \in s : Cardinality(s \ {x}) = Cardinality(s) - 1
    BY <1>1, FS_RemoveElement
  <1>3. ASSUME Fails # {}  PROVE FALSE
    <2>1. PICK n \in Fails : \A m \in Fails : n <= m
      BY <1>3, NatHasLeast
    <2>2. PICK s \in SUBSET D : Cardinality(s) = n /\ (\A x \in s : f[x] = e[x]) /\ g[s] # h[s]
      BY <2>1
    <2>3. PICK x \in s : g[s] = f[x] + g[s \ {x}]
      <3>1. s # {}
        BY <2>2 DEF SumOf
      <3> QED
        BY <3>1, SumTakesSome
    <2>4. h[s] = e[x] + h[s \ {x}]
      BY SumTakesOut
    <2>5. g[s \ {x}] # h[s \ {x}]
      BY <2>2, <2>3, <2>4
    <2>6. Cardinality(s \ {x}) = n - 1 /\ n - 1 \in Nat
      BY <1>1, <1>2, <2>2
    <2>7. n - 1 \in Fails
      BY <2>2, <2>5, <2>6
    <2> QED
      BY <2>1, <2>6, <2>7
  <1> HIDE DEF Fails
  <1>4. Fails = {}
    BY <1>3
  <1> SUFFICES ASSUME NEW s \in SUBSET D, \A x \in s : f[x] = e[x], g[s] # h[s]  PROVE FALSE
    OBVIOUS
  <1>5. Cardinality(s) \in Fails
    BY <1>1 DEF Fails
  <1> QED
    BY <1>4, <1>5

(* The sum of f over D.                                                    *)
SumOver(D, f) == (CHOOSE g : SumOf(D, f, g))[D]
Summable(D, f) == IsFiniteSet(D) /\ \A x \in D : f[x] \in Int

LEMMA SumIsThat ==
  ASSUME NEW D, NEW f, NEW g, SumOf(D, f, g)
  PROVE  \A s \in SUBSET D : SumOver(s, f) = g[s]
  <1> SUFFICES ASSUME NEW s \in SUBSET D  PROVE SumOver(s, f) = g[s]
    OBVIOUS
  <1> DEFINE h == CHOOSE h : SumOf(s, f, h)
  <1>1. IsFiniteSet(s)
    BY FS_Subset DEF SumOf
  <1>2. SumOf(s, f, g)
    BY <1>1 DEF SumOf
  <1>3. SumOf(s, f, h)
    BY <1>2
  <1>4. SumOver(s, f) = h[s]
    BY DEF SumOver
  <1> HIDE DEF h
  <1>5. g[s] = h[s]
    BY <1>2, <1>3, SumsAgree
  <1> QED
    BY <1>4, <1>5

LEMMA SumIsDefined ==
  ASSUME NEW D, NEW f, Summable(D, f)  PROVE \E g : SumOf(D, f, g)
  <1> DEFINE c == [s \in SUBSET D |-> CHOOSE x \in s : TRUE]
  <1>1. Chooses(D, c)
    BY DEF Chooses
  <1> HIDE DEF c
  <1>2. PICK g : Accumulates(D, f, c, g)
    BY <1>1, SumExists DEF Summable
  <1>3. SumOf(D, f, g)
    BY <1>1, <1>2 DEF Accumulates, SumOf, Summable, Chooses
  <1> QED
    BY <1>3

(* What may be said of a sum: its type, its elements one by one, what does *)
(* not change it, and what its elements bound.                             *)
LEMMA SumTakes ==
  ASSUME NEW D, NEW f, Summable(D, f)
  PROVE  /\ SumOver(D, f) \in Int
         /\ D = {} => SumOver(D, f) = 0
         /\ \A t \in D : SumOver(D, f) = f[t] + SumOver(D \ {t}, f) /\ Summable(D \ {t}, f)
  <1>1. PICK g : SumOf(D, f, g)
    BY SumIsDefined
  <1>2. \A s \in SUBSET D : SumOver(s, f) = g[s] /\ g[s] \in Int
    BY <1>1, SumIsThat, SumIsInteger
  <1>3. D = {} => SumOver(D, f) = 0
    BY <1>1, <1>2 DEF SumOf
  <1>4. ASSUME NEW t \in D
        PROVE  SumOver(D, f) = f[t] + SumOver(D \ {t}, f) /\ Summable(D \ {t}, f)
    <2>1. g[D] = f[t] + g[D \ {t}]
      BY <1>1, SumTakesOut
    <2>2. IsFiniteSet(D \ {t})
      BY FS_Subset DEF Summable
    <2> QED
      BY <1>2, <2>1, <2>2 DEF Summable
  <1> QED
    BY <1>2, <1>3, <1>4

LEMMA SumIsOfElements ==
  ASSUME NEW D, NEW f, Summable(D, f), NEW e, \A x \in D : e[x] = f[x]
  PROVE  SumOver(D, e) = SumOver(D, f) /\ Summable(D, e)
  <1>1. Summable(D, e)
    BY DEF Summable
  <1>2. PICK g : SumOf(D, f, g)
    BY SumIsDefined
  <1>3. PICK h : SumOf(D, e, h)
    BY <1>1, SumIsDefined
  <1>4. g[D] = h[D]
    BY <1>2, <1>3, SumsAgree
  <1> QED
    BY <1>1, <1>2, <1>3, <1>4, SumIsThat

LEMMA SumChanges ==
  ASSUME NEW D, NEW f, Summable(D, f), NEW t \in D, NEW e, e[t] \in Int,
         \A x \in D \ {t} : e[x] = f[x]
  PROVE  SumOver(D, e) = SumOver(D, f) + e[t] - f[t] /\ Summable(D, e)
  <1>1. Summable(D, e)
    BY DEF Summable
  <1>2. SumOver(D, f) = f[t] + SumOver(D \ {t}, f) /\ Summable(D \ {t}, f)
    BY SumTakes
  <1>3. SumOver(D, e) = e[t] + SumOver(D \ {t}, e)
    BY <1>1, SumTakes
  <1>4. SumOver(D \ {t}, e) = SumOver(D \ {t}, f)
    BY <1>2, SumIsOfElements
  <1>5. SumOver(D \ {t}, f) \in Int /\ f[t] \in Int
    BY <1>2, SumTakes DEF Summable
  <1> QED
    BY <1>1, <1>2, <1>3, <1>4, <1>5

LEMMA SumGrows ==
  ASSUME NEW D, NEW f, Summable(D, f), NEW t, t \notin D, NEW e, e[t] \in Int,
         \A x \in D : e[x] = f[x]
  PROVE  SumOver(D \cup {t}, e) = SumOver(D, f) + e[t] /\ Summable(D \cup {t}, e)
  <1> DEFINE E == D \cup {t}
  <1>1. Summable(E, e) /\ t \in E /\ E \ {t} = D
    BY FS_AddElement DEF Summable
  <1> HIDE DEF E
  <1>2. SumOver(E, e) = e[t] + SumOver(D, e)
    BY <1>1, SumTakes
  <1>3. SumOver(D, e) = SumOver(D, f) /\ SumOver(D, f) \in Int
    BY SumIsOfElements, SumTakes
  <1>4. SumOver(E, e) = SumOver(D, f) + e[t] /\ Summable(E, e)
    BY <1>1, <1>2, <1>3
  <1> QED
    BY <1>4 DEF E

LEMMA SumOfOneMore ==
  ASSUME NEW D, NEW f \in [D -> Nat], Summable(D, f), NEW t, t \notin D
  PROVE  \E e \in [D \cup {t} -> Nat] :
            /\ e[t] = 1 /\ \A x \in D : e[x] = f[x]
            /\ SumOver(D \cup {t}, e) = SumOver(D, f) + 1
  <1> DEFINE e == [x \in D \cup {t} |-> IF x = t THEN 1 ELSE f[x]]
  <1>1. e \in [D \cup {t} -> Nat] /\ e[t] = 1 /\ \A x \in D : e[x] = f[x]
    OBVIOUS
  <1> HIDE DEF e
  <1>2. SumOver(D \cup {t}, e) = SumOver(D, f) + e[t]
    BY <1>1, SumGrows
  <1> QED
    BY <1>1, <1>2

(* Sums are ordered as their elements are.                                 *)
LEMMA SumsAreOrdered ==
  ASSUME NEW D, NEW f, NEW e, Summable(D, f), Summable(D, e), \A x \in D : f[x] <= e[x]
  PROVE  SumOver(D, f) <= SumOver(D, e)
  <1> DEFINE Fails == {n \in Nat : \E s \in SUBSET D : Cardinality(s) = n
                              /\ ~(SumOver(s, f) <= SumOver(s, e))}
  <1>1. \A s \in SUBSET D : IsFiniteSet(s) /\ Cardinality(s) \in Nat
    BY FS_Subset, FS_CardinalityType DEF Summable
  <1>2. \A s \in SUBSET D : \A x \in s : Cardinality(s \ {x}) = Cardinality(s) - 1
    BY <1>1, FS_RemoveElement
  <1>3. \A s \in SUBSET D : Summable(s, f) /\ Summable(s, e)
    BY <1>1 DEF Summable
  <1>4. ASSUME Fails # {}  PROVE FALSE
    <2>1. PICK n \in Fails : \A m \in Fails : n <= m
      BY <1>4, NatHasLeast
    <2>2. PICK s \in SUBSET D : Cardinality(s) = n /\ ~(SumOver(s, f) <= SumOver(s, e))
      BY <2>1
    <2>3. Summable(s, f) /\ Summable(s, e)
      BY <1>3
    <2>4. s # {}
      <3>1. s = {} => SumOver(s, f) = 0 /\ SumOver(s, e) = 0
        BY <2>3, SumTakes
      <3> QED
        BY <2>2, <3>1
    <2>5. PICK x \in s : TRUE
      BY <2>4
    <2>6. /\ SumOver(s, f) = f[x] + SumOver(s \ {x}, f) /\ SumOver(s, e) = e[x] + SumOver(s \ {x}, e)
          /\ Summable(s \ {x}, f) /\ Summable(s \ {x}, e)
      BY <2>3, SumTakes
    <2>7. SumOver(s \ {x}, f) \in Int /\ SumOver(s \ {x}, e) \in Int
      BY <2>6, SumTakes
    <2>8. f[x] \in Int /\ e[x] \in Int /\ f[x] <= e[x]
      BY DEF Summable
    <2>9. ~(SumOver(s \ {x}, f) <= SumOver(s \ {x}, e))
      BY <2>2, <2>6, <2>7, <2>8
    <2>10. Cardinality(s \ {x}) = n - 1 /\ n - 1 \in Nat
      BY <1>1, <1>2, <2>2
    <2>11. n - 1 \in Fails
      BY <2>9, <2>10
    <2> QED
      BY <2>1, <2>10, <2>11
  <1> HIDE DEF Fails
  <1>5. Fails = {}
    BY <1>4
  <1> SUFFICES ASSUME ~(SumOver(D, f) <= SumOver(D, e))  PROVE FALSE
    OBVIOUS
  <1>6. Cardinality(D) \in Fails
    BY <1>1 DEF Fails
  <1> QED
    BY <1>5, <1>6

LEMMA SumOfNaturals ==
  ASSUME NEW D, NEW f, IsFiniteSet(D), \A x \in D : f[x] \in Nat
  PROVE  SumOver(D, f) \in Nat /\ \A t \in D : f[t] <= SumOver(D, f)
  <1>1. \A s \in SUBSET D : Summable(s, f) /\ SumOver(s, f) \in Int
    BY FS_Subset, SumTakes DEF Summable
  <1>2. ASSUME NEW s \in SUBSET D  PROVE SumOver(s, f) \in Nat
    <2> DEFINE z == [x \in s |-> 0]   g == [u \in SUBSET s |-> 0]
    <2>1. SumOf(s, z, g)
      BY <1>1 DEF SumOf, Summable
    <2>2. Summable(s, z) /\ \A x \in s : z[x] <= f[x]
      BY <1>1 DEF Summable
    <2>3. g[s] = 0
      OBVIOUS
    <2> HIDE DEF z, g
    <2>4. SumOver(s, z) = 0
      BY <2>1, <2>3, SumIsThat
    <2>5. SumOver(s, z) <= SumOver(s, f)
      BY <1>1, <2>2, SumsAreOrdered
    <2> QED
      BY <1>1, <2>4, <2>5
  <1>3. ASSUME NEW t \in D  PROVE f[t] <= SumOver(D, f)
    <2>1. SumOver(D, f) = f[t] + SumOver(D \ {t}, f)
      BY <1>1, SumTakes
    <2>2. SumOver(D \ {t}, f) \in Nat /\ f[t] \in Nat
      BY <1>2
    <2> QED
      BY <2>1, <2>2
  <1> QED
    BY <1>2, <1>3
-----------------------------------------------------------------------------
(* The loop of a worker.  Total is such a sum, over the job types.         *)
LEMMA TotalIsSum ==
  ASSUME IsFiniteSet(Types), NEW count \in [Types -> Int]
  PROVE  Total(count) = SumOver(Types, count)
  <1> DEFINE Choice(s) == CHOOSE x \in s : TRUE
             Summed(g) == g = [s \in SUBSET Types |->
                                 IF s = {} THEN 0 ELSE count[Choice(s)] + g[s \ {Choice(s)}]]
             c == [s \in SUBSET Types |-> Choice(s)]
             total == CHOOSE g : Summed(g)
  <1>1. Chooses(Types, c)
    BY DEF Chooses
  <1>2. PICK g : Accumulates(Types, count, c, g)
    <2> HIDE DEF c
    <2> QED
      BY <1>1, SumExists
  <1>3. \E h : Summed(h)
    <2>1. \A s \in SUBSET Types :
             g[s] = IF s = {} THEN 0 ELSE count[Choice(s)] + g[s \ {Choice(s)}]
      BY <1>2 DEF Accumulates
    <2>2. g = [s \in SUBSET Types |-> g[s]]
      BY <1>2 DEF Accumulates
    <2>3. g = [s \in SUBSET Types |-> IF s = {} THEN 0 ELSE count[Choice(s)] + g[s \ {Choice(s)}]]
      BY <2>1, <2>2
    <2> QED
      BY <2>3
  <1>4. Summed(total)
    <2> HIDE DEF Summed
    <2> QED
      BY <1>3
  <1>5. Total(count) = total[Types]
    BY DEF Total, MapThenSumSet, MapThenFoldSet
  <1> HIDE DEF total
  <1>6. SumOf(Types, count, total)
    BY <1>1, <1>4 DEF SumOf, Chooses
  <1> QED
    BY <1>5, <1>6, SumIsThat

(* What the loop preserves: the permits are accounted for, and no type has *)
(* more tasks at work than its semaphore admits.  The limits follow.       *)
Counts(f) == f \in [Types -> Nat]
PermitsKept ==
    /\ loop \in LoopPcs /\ permits \in Nat /\ Counts(waiting) /\ Counts(working)
    /\ shutdown \in BOOLEAN /\ dequeueFaults \in 0..MaxDequeueFaults
    /\ PermitsConserved
    /\ \A t \in Types : working[t] <= TypeLimit[t]

LEMMA TotalOfCounts ==
  ASSUME IsFiniteSet(Types), NEW f, Counts(f)
  PROVE  Total(f) \in Nat /\ \A t \in Types : f[t] <= Total(f)
  <1>1. f \in [Types -> Int] /\ \A t \in Types : f[t] \in Nat
    BY DEF Counts
  <1> QED
    BY <1>1, TotalIsSum, SumOfNaturals

LEMMA LoopInitKeepsPermits == ASSUME IsFiniteSet(Types), LoopInit  PROVE PermitsKept
  <1>1. Total(NoTasks) = 0
    <2> DEFINE z == [s \in SUBSET Types |-> 0]
    <2>1. NoTasks \in [Types -> Int] /\ SumOf(Types, NoTasks, z) /\ z[Types] = 0
      BY DEF NoTasks, SumOf
    <2> HIDE DEF z
    <2> QED
      BY <2>1, TotalIsSum, SumIsThat
  <1>2. Counts(NoTasks)
    BY DEF Counts, NoTasks
  <1>3. PermitsConserved
    BY <1>1, WorkerLoopAssumption DEF LoopInit, PermitsConserved, Active
  <1>4. \A t \in Types : working[t] <= TypeLimit[t]
    BY WorkerLoopAssumption DEF LoopInit, NoTasks
  <1>5. 0 \in 0..MaxDequeueFaults /\ Concurrency \in Nat
    BY WorkerLoopAssumption
  <1> QED
    BY <1>2, <1>3, <1>4, <1>5 DEF PermitsKept, LoopInit, LoopPcs

(* The counts of the tasks, when one comes, moves or goes.                 *)
LEMMA OneMoreOrLess ==
  ASSUME IsFiniteSet(Types), NEW f, Counts(f), NEW t \in Types
  PROVE  /\ Counts([f EXCEPT ![t] = @ + 1]) /\ Total([f EXCEPT ![t] = @ + 1]) = Total(f) + 1
         /\ f[t] > 0 => Counts([f EXCEPT ![t] = @ - 1]) /\ Total([f EXCEPT ![t] = @ - 1]) = Total(f) - 1
  <1>1. f \in [Types -> Int] /\ f[t] \in Nat /\ f[t] + 1 \in Int /\ f[t] - 1 \in Int
    BY DEF Counts
  <1>2. Total(f) \in Nat
    BY TotalOfCounts
  <1>3. ASSUME NEW v \in Int  PROVE Total([f EXCEPT ![t] = v]) = Total(f) + v - f[t]
    <2> DEFINE e == [f EXCEPT ![t] = v]
    <2>1. e \in [Types -> Int] /\ e[t] = v /\ \A x \in Types \ {t} : e[x] = f[x]
      BY <1>1
    <2>2. Summable(Types, f)
      BY <1>1 DEF Summable
    <2> HIDE DEF e
    <2>3. Total(e) = SumOver(Types, e) /\ Total(f) = SumOver(Types, f)
      BY <1>1, <2>1, TotalIsSum
    <2>4. SumOver(Types, e) = SumOver(Types, f) + e[t] - f[t]
      BY <2>1, <2>2, SumChanges
    <2>5. Total(e) = Total(f) + v - f[t]
      BY <2>1, <2>3, <2>4
    <2> QED
      BY <2>5 DEF e
  <1>4. /\ Total([f EXCEPT ![t] = f[t] + 1]) = Total(f) + (f[t] + 1) - f[t]
        /\ Total([f EXCEPT ![t] = f[t] - 1]) = Total(f) + (f[t] - 1) - f[t]
    BY <1>1, <1>3
  <1>5. Counts([f EXCEPT ![t] = @ + 1]) /\ (f[t] > 0 => Counts([f EXCEPT ![t] = @ - 1]))
    BY DEF Counts
  <1> QED
    BY <1>1, <1>2, <1>3, <1>4, <1>5

(* Who accounts for the permits keeps the limits.                          *)
LEMMA PermitsAreLimits == ASSUME IsFiniteSet(Types), PermitsKept  PROVE ConcurrencyBounded
  <1> USE DEF PermitsKept
  <1>1. /\ Total(waiting) \in Nat /\ \A t \in Types : waiting[t] <= Total(waiting)
        /\ Total(working) \in Nat /\ \A t \in Types : working[t] <= Total(working)
    BY TotalOfCounts
  <1>2. permits <= Concurrency /\ Total(waiting) + Total(working) <= Concurrency
    BY <1>1, WorkerLoopAssumption DEF PermitsConserved, Active
  <1>3. waiting \in [Types -> 0..Concurrency] /\ working \in [Types -> 0..Concurrency]
    <2>1. \A t \in Types : waiting[t] \in 0..Concurrency /\ working[t] \in 0..Concurrency
      BY <1>1, <1>2, WorkerLoopAssumption DEF Counts
    <2> QED
      BY <2>1 DEF Counts
  <1>4. permits \in 0..Concurrency
    BY <1>2, WorkerLoopAssumption
  <1> QED
    BY <1>2, <1>3, <1>4 DEF ConcurrencyBounded, LoopTypeOK, Active

LEMMA LoopStepKeepsPermits ==
  ASSUME IsFiniteSet(Types), PermitsKept, [LoopNext]_loopVars  PROVE PermitsKept'
  <1> USE WorkerLoopAssumption DEF PermitsKept, PermitsConserved, Active
  <1>1. Total(waiting) \in Nat /\ Total(working) \in Nat
    BY TotalOfCounts
  <1>2. CASE Top
    BY <1>2 DEF Top, Counts, LoopPcs
  <1>3. CASE Acquire
    BY <1>1, <1>3 DEF Acquire, Counts, LoopPcs
  <1>4. CASE DequeueNothing
    BY <1>1, <1>4 DEF DequeueNothing, Counts, LoopPcs
  <1>5. CASE DequeueRaises
    BY <1>1, <1>5 DEF DequeueRaises, Counts, LoopPcs
  <1>6. CASE Sleep \/ Shutdown
    BY <1>1, <1>6 DEF Sleep, Shutdown, Counts, LoopPcs
  <1>7. ASSUME NEW t \in Types, DequeueJob(t)  PROVE PermitsKept'
    <2>1. Counts(waiting') /\ Total(waiting') = Total(waiting) + 1
      BY <1>7, OneMoreOrLess DEF DequeueJob
    <2> QED
      BY <1>1, <1>7, <2>1 DEF DequeueJob, LoopPcs
  <1>8. ASSUME NEW t \in Types, TaskStarts(t)  PROVE PermitsKept'
    <2>1. /\ Counts(waiting') /\ Total(waiting') = Total(waiting) - 1
          /\ Counts(working') /\ Total(working') = Total(working) + 1
      BY <1>8, OneMoreOrLess DEF TaskStarts
    <2>2. \A q \in Types \ {t} : working'[q] = working[q]
      BY <1>8 DEF TaskStarts, Counts
    <2>3. working'[t] = working[t] + 1 /\ working[t] < TypeLimit[t]
      BY <1>8 DEF TaskStarts, Counts
    <2>4. \A q \in Types : working'[q] <= TypeLimit[q]
      BY <2>2, <2>3 DEF Counts
    <2> QED
      BY <1>1, <1>8, <2>1, <2>4 DEF TaskStarts
  <1>9. ASSUME NEW t \in Types, TaskFinishes(t)  PROVE PermitsKept'
    <2>1. Counts(working') /\ Total(working') = Total(working) - 1
      BY <1>9, OneMoreOrLess DEF TaskFinishes, TaskEnds
    <2>2. \A q \in Types \ {t} : working'[q] = working[q]
      BY <1>9 DEF TaskFinishes, Counts
    <2>3. working'[t] = working[t] - 1
      BY <1>9 DEF TaskFinishes, Counts
    <2>4. \A q \in Types : working'[q] <= TypeLimit[q]
      BY <2>2, <2>3 DEF Counts
    <2> QED
      BY <1>1, <1>9, <2>1, <2>4 DEF TaskFinishes, TaskEnds
  <1>10. ASSUME NEW t \in Types, TaskSkips(t)  PROVE PermitsKept'
    <2>1. Counts(waiting') /\ Total(waiting') = Total(waiting) - 1
      BY <1>10, OneMoreOrLess DEF TaskSkips, TaskEnds
    <2> QED
      BY <1>1, <1>10, <2>1 DEF TaskSkips, TaskEnds
  <1>11. CASE UNCHANGED loopVars
    BY <1>11 DEF loopVars, Counts
  <1> QED
    BY <1>2, <1>3, <1>4, <1>5, <1>6, <1>7, <1>8, <1>9, <1>10, <1>11 DEF LoopNext, LoopStep

(* Every permit is accounted for, so that no more tasks run than the loop, *)
(* and their type, allows: for any finite set of job types.                *)
THEOREM PermitsAreAccountedFor == IsFiniteSet(Types) /\ LoopSpec => []ConcurrencyBounded
  <1> SUFFICES ASSUME IsFiniteSet(Types)  PROVE LoopSpec => []ConcurrencyBounded
    OBVIOUS
  <1>1. LoopInit => PermitsKept
    BY LoopInitKeepsPermits
  <1>2. PermitsKept /\ [LoopNext]_loopVars => PermitsKept'
    BY LoopStepKeepsPermits
  <1>3. PermitsKept => ConcurrencyBounded
    BY PermitsAreLimits
  <1> QED
    BY <1>1, <1>2, <1>3, PTL DEF LoopSpec

(* The dispatcher and a loop side by side keep the limits of both: the     *)
(* keys and the depth of the queue (dispatch), and the tasks of the        *)
(* process and of each type (run_until_shutdown, _execute_job).            *)
THEOREM LimitsAreKept == IsFiniteSet(Types) /\ LimitsSpec => []LimitsHold
  BY DispatchStaysInLimits, PermitsAreAccountedFor, PTL DEF LimitsSpec, LimitsHold

(* Alerts of a fingerprint.  The counts of the alerts are such a sum too.  *)
CountOf(q) == [a \in DOMAIN q |-> q[a].count]

LEMMA RangeHasLargest ==
  ASSUME NEW n \in Nat, NEW s, s \subseteq 1..n, s # {}
  PROVE  \E x \in s : \A y \in s : x >= y
  <1> DEFINE Below == {m \in Nat : \E x \in s : m = n - x}
  <1>1. Below # {} /\ Below \subseteq Nat
    <2>1. PICK x \in s : TRUE
      OBVIOUS
    <2>2. n - x \in Nat
      BY <2>1
    <2>3. n - x \in Below
      BY <2>2
    <2> QED
      BY <2>3
  <1>2. PICK m \in Below : \A k \in Below : m <= k
    <2> HIDE DEF Below
    <2> QED
      BY <1>1, NatHasLeast
  <1>3. PICK x \in s : m = n - x
    BY <1>2
  <1>4. ASSUME NEW y \in s  PROVE x >= y
    <2>1. n - y \in Below
      OBVIOUS
    <2>2. m <= n - y
      BY <1>2, <2>1
    <2> QED
      BY <1>3, <2>2
  <1> QED
    BY <1>4

LEMMA CountedIsSum ==
  ASSUME NEW q \in Seq([status : AlertStatus, count : Nat])
  PROVE  /\ FoldLeft(LAMBDA n, a : n + a.count, 0, q) = SumOver(DOMAIN q, CountOf(q))
         /\ IsFiniteSet(DOMAIN q) /\ \A a \in DOMAIN q : CountOf(q)[a] \in Nat
  <1> DEFINE D == DOMAIN q   f == CountOf(q)   top(s) == Max(s)
             c == [s \in SUBSET D |-> top(s)]
             Summed(g) == g = [s \in SUBSET D |->
                                 IF s = {} THEN 0 ELSE g[s \ {top(s)}] + q[top(s)].count]
             total == CHOOSE g : Summed(g)
  <1>1. D = 1..Len(q) /\ Len(q) \in Nat
    OBVIOUS
  <1>2. IsFiniteSet(D)
    BY <1>1, FS_Interval
  <1>3. \A a \in D : f[a] = q[a].count /\ f[a] \in Nat
    <2>1. \A a \in D : q[a] \in [status : AlertStatus, count : Nat]
      BY <1>1, ElementOfSeq
    <2> QED
      BY <2>1 DEF CountOf
  <1>4. FoldLeft(LAMBDA n, a : n + a.count, 0, q) = total[D]
    BY DEF FoldLeft, MapThenFoldSet
  <1>5. \A s \in SUBSET D : s # {} => top(s) \in s
    <2> SUFFICES ASSUME NEW s \in SUBSET D, s # {}  PROVE Max(s) \in s
      OBVIOUS
    <2>1. \E x \in s : \A y \in s : x >= y
      BY <1>1, RangeHasLargest
    <2> QED
      BY <2>1 DEF Max
  <1> HIDE DEF f, D, top
  <1>6. Chooses(D, c) /\ \A s \in SUBSET D : c[s] = top(s)
    BY <1>5 DEF Chooses
  <1> HIDE DEF c
  <1>7. PICK g : Accumulates(D, f, c, g)
    BY <1>2, <1>3, <1>6, SumExists
  <1>8. \A s \in SUBSET D : s # {} => /\ f[top(s)] \in Int /\ g[s \ {top(s)}] \in Int
                                     /\ f[top(s)] = q[top(s)].count
    BY <1>3, <1>5, <1>7 DEF Accumulates
  <1>9. \A s \in SUBSET D : g[s] = IF s = {} THEN 0 ELSE g[s \ {top(s)}] + q[top(s)].count
    BY <1>6, <1>7, <1>8 DEF Accumulates
  <1>10. Summed(g)
    <2>1. g = [s \in SUBSET D |-> g[s]]
      BY <1>7 DEF Accumulates
    <2> QED
      BY <1>9, <2>1
  <1>11. Summed(total)
    <2> HIDE DEF Summed
    <2> QED
      BY <1>10
  <1> HIDE DEF total
  <1>12. \A s \in SUBSET D : total[s] = IF s = {} THEN 0 ELSE total[s \ {top(s)}] + q[top(s)].count
    BY <1>11
  <1>13. SumOf(D, f, total)
    <2>1. {} \in SUBSET D
      OBVIOUS
    <2>2. total[{}] = 0
      BY <1>12, <2>1
    <2>3. \A s \in SUBSET D : s # {} => top(s) \in s /\ total[s] = total[s \ {top(s)}] + f[top(s)]
      BY <1>5, <1>8, <1>12
    <2>4. \A x \in D : f[x] \in Int
      BY <1>3
    <2> QED
      BY <1>2, <2>2, <2>3, <2>4 DEF SumOf
  <1>14. SumOver(D, f) = total[D]
    BY <1>13, SumIsThat
  <1> QED
    BY <1>2, <1>3, <1>4, <1>14 DEF f, D

Counted(q) == FoldLeft(LAMBDA n, a : n + a.count, 0, q)

(* Rows and requests; a request names a row there is, and an update of the *)
(* incident is a transition that the policy allows from what was loaded.   *)
SreStates == AlertStatus \cup IncidentStatus \cup {"none"}
SreWork == [op : {"idle", "report", "mark", "update"}, row : Nat,
            from : SreStates, to : SreStates, count : Nat]
AlertRows == [status : AlertStatus, count : Nat]
AlertTypes ==
    /\ alerts \in Seq(AlertRows) /\ occurrences \in Nat
    /\ incident \in [status : IncidentStatus, stamps : SUBSET IncidentStatus]
    /\ sre \in [SreRequests -> SreWork]
    /\ revived \in BOOLEAN
WorkTells ==
    \A r \in SreRequests :
       /\ sre[r].op \in {"report", "mark"} => sre[r].row \in 0..Len(alerts) /\ sre[r].to \in AlertStatus
       /\ sre[r].op = "mark" => sre[r].row # 0
       /\ sre[r].op = "update" => /\ sre[r].from \in IncidentStatus
                                  /\ sre[r].to \in Follows(sre[r].from) \cup {sre[r].from}

(* Each report has a share in one alert.  Nobody knows of more than the    *)
(* alert has had, and what is known is all of it unless reports overlapped.*)
Shares(occ) ==
    /\ occ \in [DOMAIN alerts -> Nat] /\ SumOver(DOMAIN alerts, occ) = occurrences
    /\ \A a \in DOMAIN alerts : alerts[a].count <= occ[a]
    /\ \A r \in SreRequests : sre[r].op = "report" /\ sre[r].row # 0 => sre[r].count <= occ[sre[r].row]
    /\ "report" \notin rivals =>
          /\ \A a \in DOMAIN alerts : alerts[a].count = occ[a]
          /\ \A r \in SreRequests : sre[r].op = "report" /\ sre[r].row # 0 => sre[r].count = occ[sre[r].row]

(* One report at a time finds the one active alert, or that there is none. *)
OneIsActive ==
    "report" \notin rivals =>
       /\ \A q, r \in SreRequests : sre[q].op = "report" /\ sre[r].op = "report" => q = r
       /\ ~revived => /\ \A a, b \in Duplicates : a = b
                      /\ \A r \in SreRequests : sre[r].op = "report" /\ sre[r].row = 0 => Duplicates = {}

(* An incident is closed from RESOLVED, and one update at a time leaves    *)
(* RESOLVED for CLOSED only.                                               *)
ClosedWasResolved ==
    /\ incident.status \in Finished \/ "CLOSED" \in incident.stamps => "RESOLVED" \in incident.stamps
    /\ \A r \in SreRequests : sre[r].op = "update" /\ sre[r].from \in Finished => "RESOLVED" \in incident.stamps
    /\ "update" \notin rivals =>
          /\ \A q, r \in SreRequests : sre[q].op = "update" /\ sre[r].op = "update" => q = r
          /\ \A r \in SreRequests : sre[r].op = "update" => sre[r].from = incident.status
          /\ "RESOLVED" \in incident.stamps => incident.status \in Finished

AlertInv == AlertTypes /\ WorkTells /\ (\E occ : Shares(occ)) /\ OneIsActive /\ ClosedWasResolved

LEMMA AlertInvInit == SreInit => AlertInv
  <1> SUFFICES ASSUME SreInit  PROVE AlertInv
    OBVIOUS
  <1> USE DEF SreInit, NoWork
  <1>1. AlertTypes
    <2>1. <<>> \in Seq(AlertRows)
      BY EmptySeq
    <2> QED
      BY <2>1 DEF AlertTypes, SreWork, SreStates, IncidentStatus
  <1>2. WorkTells /\ OneIsActive /\ ClosedWasResolved
    BY DEF WorkTells, OneIsActive, ClosedWasResolved, Duplicates, Finished
  <1>3. Shares(<<>>)
    <2>1. DOMAIN alerts = {} /\ <<>> \in [{} -> Nat]
      OBVIOUS
    <2>2. IsFiniteSet({})
      BY FS_EmptySet
    <2>3. SumOver({}, <<>>) = 0
      BY <2>2, SumTakes DEF Summable
    <2> QED
      BY <2>1, <2>3 DEF Shares
  <1> QED
    BY <1>1, <1>2, <1>3 DEF AlertInv

LEMMA AlertInvCounts == AlertInv => ReportsAreCounted
  <1> SUFFICES ASSUME AlertInv  PROVE ReportsAreCounted
    OBVIOUS
  <1> DEFINE D == DOMAIN alerts   c == CountOf(alerts)
  <1>1. PICK occ : Shares(occ)
    BY DEF AlertInv
  <1>2. Counted(alerts) = SumOver(D, c) /\ IsFiniteSet(D) /\ \A a \in D : c[a] \in Nat
    BY CountedIsSum DEF AlertInv, AlertTypes, AlertRows, Counted
  <1>3. Summable(D, c) /\ Summable(D, occ)
    BY <1>1, <1>2 DEF Summable, Shares
  <1>4. \A a \in D : c[a] = alerts[a].count
    BY DEF CountOf
  <1>5. \A a \in D : c[a] <= occ[a]
    BY <1>1, <1>4 DEF Shares
  <1>6. "report" \notin rivals => \A a \in D : c[a] = occ[a]
    BY <1>1, <1>4 DEF Shares
  <1>7. SumOver(D, occ) = occurrences
    BY <1>1 DEF Shares
  <1> HIDE DEF D, c
  <1>8. Counted(alerts) <= occurrences
    BY <1>2, <1>3, <1>5, <1>7, SumsAreOrdered
  <1>9. "report" \notin rivals => Counted(alerts) = occurrences
    BY <1>2, <1>3, <1>6, <1>7, SumIsOfElements
  <1>10. ASSUME "report" \notin rivals, ~revived  PROVE Cardinality(Duplicates) <= 1
    <2>1. \A a, b \in Duplicates : a = b
      BY <1>10 DEF AlertInv, OneIsActive
    <2>2. Duplicates = {} \/ \E a : Duplicates = {a}
      BY <2>1
    <2>3. CASE Duplicates = {}
      BY <2>3, FS_EmptySet
    <2>4. ASSUME NEW a, Duplicates = {a}  PROVE Cardinality(Duplicates) <= 1
      <3>1. Cardinality({a}) = 1
        BY FS_Singleton
      <3> QED
        BY <2>4, <3>1
    <2> QED
      BY <2>2, <2>3, <2>4
  <1> QED
    BY <1>8, <1>9, <1>10 DEF ReportsAreCounted, Counted, Duplicates, AlertInv, ClosedWasResolved

LEMMA RowsAppended ==
  ASSUME NEW q \in Seq(AlertRows), NEW x \in AlertRows
  PROVE  /\ Append(q, x) \in Seq(AlertRows) /\ Len(Append(q, x)) = Len(q) + 1
         /\ DOMAIN Append(q, x) = DOMAIN q \cup {Len(q) + 1} /\ Len(q) + 1 \notin DOMAIN q
         /\ \A a \in DOMAIN q : Append(q, x)[a] = q[a]
         /\ Append(q, x)[Len(q) + 1] = x
  OBVIOUS

LEMMA RowChanged ==
  ASSUME NEW q \in Seq(AlertRows), NEW a \in DOMAIN q, NEW x \in AlertRows
  PROVE  /\ [q EXCEPT ![a] = x] \in Seq(AlertRows)
         /\ Len([q EXCEPT ![a] = x]) = Len(q) /\ DOMAIN [q EXCEPT ![a] = x] = DOMAIN q
         /\ \A b \in DOMAIN q \ {a} : [q EXCEPT ![a] = x][b] = q[b]
         /\ [q EXCEPT ![a] = x][a] = x
  <1>1. a \in 1..Len(q)
    OBVIOUS
  <1> QED
    BY <1>1, ExceptSeq

(* What a step does to the rows: nothing, or it adds a row, or it changes  *)
(* the count or the status of one.                                         *)
SameRows == alerts' = alerts /\ occurrences' = occurrences /\ revived' = revived
Adds(r) ==
    LET new == Len(alerts) + 1 IN
    /\ sre[r].op = "report" /\ sre[r].row = 0
    /\ alerts' \in Seq(AlertRows) /\ Len(alerts') = new
    /\ DOMAIN alerts' = DOMAIN alerts \cup {new} /\ new \notin DOMAIN alerts
    /\ \A a \in DOMAIN alerts : alerts'[a] = alerts[a]
    /\ alerts'[new].count = 1
    /\ occurrences' = occurrences + 1 /\ revived' = revived /\ rivals' = rivals
Changes(r) ==
    LET a == sre[r].row IN
    /\ a \in DOMAIN alerts
    /\ alerts' \in Seq(AlertRows) /\ Len(alerts') = Len(alerts) /\ DOMAIN alerts' = DOMAIN alerts
    /\ \A b \in DOMAIN alerts \ {a} : alerts'[b] = alerts[b]
    /\ rivals' = rivals
    /\ \/ /\ sre[r].op = "report"
          /\ alerts'[a].count = sre[r].count + 1 /\ alerts'[a].status = alerts[a].status
          /\ occurrences' = occurrences + 1 /\ revived' = revived
       \/ /\ sre[r].op = "mark"
          /\ alerts'[a].count = alerts[a].count /\ occurrences' = occurrences
          /\ revived' = (revived \/ (alerts'[a].status \in ActiveStatus /\ alerts[a].status \notin ActiveStatus))
Leaves(r) == sre' = [sre EXCEPT ![r] = NoWork]

LEMMA CommitReportChanges ==
  ASSUME AlertTypes, WorkTells, NEW r \in SreRequests, CommitReport(r)
  PROVE  (Adds(r) \/ Changes(r)) /\ Leaves(r) /\ UNCHANGED incident
  <1> USE DEF CommitReport, AlertTypes
  <1>0. alerts \in Seq(AlertRows)
    OBVIOUS
  <1>1. sre[r] \in SreWork /\ sre[r].row \in 0..Len(alerts) /\ sre[r].to \in AlertStatus
    BY DEF WorkTells
  <1>2. Leaves(r) /\ UNCHANGED incident
    BY DEF Leaves, Commits
  <1>3. CASE sre[r].row = 0
    <2> DEFINE x == [status |-> sre[r].to, count |-> 1]
    <2>1. x \in AlertRows /\ x.count = 1 /\ alerts' = Append(alerts, x)
      BY <1>1, <1>3 DEF AlertRows
    <2> HIDE DEF x
    <2>2. Adds(r)
      BY <1>3, <2>1, RowsAppended DEF Adds
    <2> QED
      BY <1>2, <2>2
  <1>4. CASE sre[r].row # 0
    <2> DEFINE a == sre[r].row
               x == [alerts[a] EXCEPT !.count = sre[r].count + 1]
    <2>1. a \in DOMAIN alerts
      BY <1>1, <1>4
    <2>2. alerts[a] \in AlertRows /\ sre[r].count + 1 \in Nat
      BY <1>1, <2>1 DEF SreWork
    <2>3. x \in AlertRows /\ x.count = sre[r].count + 1 /\ x.status = alerts[a].status
      BY <2>2 DEF AlertRows
    <2>4. /\ alerts' = [alerts EXCEPT ![a] = x] /\ sre[r].op = "report"
          /\ occurrences' = occurrences + 1 /\ UNCHANGED <<revived, rivals>>
      BY <1>4
    <2> HIDE DEF x, a, CommitReport, CommitMark, AlertTypes
    <2>5. /\ alerts' \in Seq(AlertRows) /\ Len(alerts') = Len(alerts) /\ DOMAIN alerts' = DOMAIN alerts
          /\ \A b \in DOMAIN alerts \ {a} : alerts'[b] = alerts[b]
          /\ alerts'[a] = x
      BY <1>0, <2>1, <2>3, <2>4, RowChanged
    <2>6. Changes(r)
      BY <2>1, <2>3, <2>4, <2>5 DEF Changes, a
    <2> QED
      BY <1>2, <2>6
  <1> QED
    BY <1>3, <1>4

LEMMA CommitMarkChanges ==
  ASSUME AlertTypes, WorkTells, NEW r \in SreRequests, CommitMark(r)
  PROVE  (SameRows \/ Changes(r)) /\ Leaves(r) /\ UNCHANGED <<incident, rivals>>
  <1> USE DEF CommitMark, AlertTypes
  <1>0. alerts \in Seq(AlertRows)
    OBVIOUS
  <1>1. /\ sre[r] \in SreWork /\ sre[r].row \in 0..Len(alerts) /\ sre[r].row # 0
        /\ sre[r].to \in AlertStatus
    BY DEF WorkTells
  <1>2. Leaves(r) /\ UNCHANGED <<incident, rivals>>
    BY DEF Leaves, Commits
  <1>3. CASE sre[r].from = sre[r].to
    BY <1>2, <1>3 DEF SameRows
  <1>4. CASE sre[r].from # sre[r].to
    <2> DEFINE a == sre[r].row
               x == [alerts[a] EXCEPT !.status = sre[r].to]
    <2>1. a \in DOMAIN alerts
      BY <1>1
    <2>2. alerts[a] \in AlertRows
      BY <2>1
    <2>3. x \in AlertRows /\ x.count = alerts[a].count /\ x.status = sre[r].to
      BY <1>1, <2>2 DEF AlertRows
    <2>4. /\ alerts' = [alerts EXCEPT ![a] = x] /\ sre[r].op = "mark"
          /\ occurrences' = occurrences /\ rivals' = rivals
          /\ revived' = (revived \/ (sre[r].to \in ActiveStatus /\ alerts[a].status \notin ActiveStatus))
      BY <1>4
    <2> HIDE DEF x, a, CommitReport, CommitMark, AlertTypes
    <2>5. /\ alerts' \in Seq(AlertRows) /\ Len(alerts') = Len(alerts) /\ DOMAIN alerts' = DOMAIN alerts
          /\ \A b \in DOMAIN alerts \ {a} : alerts'[b] = alerts[b]
          /\ alerts'[a] = x
      BY <1>0, <2>1, <2>3, <2>4, RowChanged
    <2>6. Changes(r)
      BY <1>2, <2>1, <2>3, <2>4, <2>5 DEF Changes, a
    <2> QED
      BY <1>2, <2>6
  <1> QED
    BY <1>3, <1>4

(* The requests, one by one: r takes up work, or leaves it, and the others *)
(* stay as they are.                                                       *)
Takes(r, w) ==
    /\ w \in SreWork /\ sre' \in [SreRequests -> SreWork]
    /\ sre'[r] = w /\ \A q \in SreRequests \ {r} : sre'[q] = sre[q]
Ends(r) == Takes(r, NoWork)

LEMMA LeavesEnds == ASSUME AlertTypes, NEW r \in SreRequests, Leaves(r)  PROVE Ends(r)
  <1>1. NoWork \in SreWork
    BY DEF NoWork, SreWork, SreStates
  <1> QED
    BY <1>1 DEF AlertTypes, Leaves, Ends, Takes

LEMMA LoadsTakes ==
  ASSUME AlertTypes, NEW r \in SreRequests, NEW op \in {"report", "mark", "update"}, NEW row \in Nat,
         NEW from \in SreStates, NEW to \in SreStates, NEW count \in Nat,
         Loads(r, op, row, from, to, count)
  PROVE  /\ Takes(r, [op |-> op, row |-> row, from |-> from, to |-> to, count |-> count])
         /\ SameRows /\ UNCHANGED incident /\ rivals \subseteq rivals'
         /\ op \in {"report", "update"} /\ op \notin rivals' =>
               \A q \in SreRequests : sre[q].op # op
  <1> DEFINE w == [op |-> op, row |-> row, from |-> from, to |-> to, count |-> count]
  <1>1. w \in SreWork
    BY DEF SreWork
  <1>2. sre' = [sre EXCEPT ![r] = w]
    BY DEF Loads
  <1> HIDE DEF w
  <1>3. Takes(r, w)
    BY <1>1, <1>2 DEF AlertTypes, Takes
  <1>4. SameRows /\ UNCHANGED incident /\ rivals \subseteq rivals'
    BY DEF Loads, SameRows
  <1>5. op \in {"report", "update"} /\ op \notin rivals' => \A q \in SreRequests : sre[q].op # op
    BY DEF Loads
  <1> QED
    BY <1>3, <1>4, <1>5 DEF w

(* Every step is one of these.                                             *)
LoadsReport(r, w) ==
    /\ Takes(r, w) /\ SameRows /\ UNCHANGED incident /\ rivals \subseteq rivals'
    /\ w.op = "report"
    /\ "report" \notin rivals' => \A q \in SreRequests : sre[q].op # "report"
    /\ \/ w.row = 0 /\ Duplicates = {} /\ w.to \in AlertStatus
       \/ w.row \in DOMAIN alerts /\ w.to \in AlertStatus /\ w.count = alerts[w.row].count
LoadsMark(r, w) ==
    /\ Takes(r, w) /\ SameRows /\ UNCHANGED incident /\ rivals \subseteq rivals'
    /\ w.op = "mark" /\ w.row \in DOMAIN alerts /\ w.to \in AlertStatus
LoadsUpdate(r, w) ==
    /\ Takes(r, w) /\ SameRows /\ UNCHANGED incident /\ rivals \subseteq rivals'
    /\ w.op = "update" /\ w.from = incident.status /\ w.to \in Follows(w.from) \cup {w.from}
    /\ "update" \notin rivals' => \A q \in SreRequests : sre[q].op # "update"
CommitsRow(r) == Ends(r) /\ UNCHANGED incident /\ (Adds(r) \/ Changes(r))
CommitsUpdate(r) ==
    /\ Ends(r) /\ SameRows /\ rivals' = rivals /\ sre[r].op = "update"
    /\ incident' = [status |-> IF sre[r].from = sre[r].to THEN incident.status ELSE sre[r].to,
                    stamps |-> incident.stamps \cup Stamped(sre[r].to)]
CommitsNothing(r) == Ends(r) /\ SameRows /\ UNCHANGED <<incident, rivals>>
SreStep(r) ==
    \/ \E w : LoadsReport(r, w) \/ LoadsMark(r, w) \/ LoadsUpdate(r, w)
    \/ CommitsRow(r) \/ CommitsUpdate(r) \/ CommitsNothing(r)

LEMMA FollowsStays == \A s \in IncidentStatus : Follows(s) \subseteq IncidentStatus
  BY DEF Follows, IncidentStatus

LEMMA StepsAreThese ==
  ASSUME AlertTypes, WorkTells, [SreNext]_sreVars
  PROVE  (\E r \in SreRequests : SreStep(r)) \/ UNCHANGED sreVars
  <1> USE DEF SreStep
  <1>1. ASSUME NEW r \in SreRequests, BeginReport(r)  PROVE SreStep(r)
    <2>1. \A a \in DOMAIN alerts : alerts[a] \in AlertRows /\ a \in Nat
      BY ElementOfSeq DEF AlertTypes
    <2>2. CASE \E a \in Duplicates :
                 Loads(r, "report", a, alerts[a].status, alerts[a].status, alerts[a].count)
      <3>1. PICK a \in Duplicates : Loads(r, "report", a, alerts[a].status, alerts[a].status, alerts[a].count)
        BY <2>2
      <3>2. a \in DOMAIN alerts /\ alerts[a].status \in AlertStatus /\ alerts[a].count \in Nat /\ a \in Nat
        BY <2>1 DEF Duplicates, AlertRows
      <3> DEFINE w == [op |-> "report", row |-> a, from |-> alerts[a].status, to |-> alerts[a].status,
                       count |-> alerts[a].count]
      <3>3. /\ Takes(r, w) /\ SameRows /\ UNCHANGED incident /\ rivals \subseteq rivals'
            /\ "report" \notin rivals' => \A q \in SreRequests : sre[q].op # "report"
        BY <3>1, <3>2, LoadsTakes DEF SreStates
      <3>4. LoadsReport(r, w)
        BY <3>2, <3>3 DEF LoadsReport
      <3> QED
        BY <3>4
    <2>3. CASE \E status \in {"FIRING", "SUPPRESSED"} :
                 Duplicates = {} /\ Loads(r, "report", 0, "none", status, 0)
      <3>1. PICK status \in {"FIRING", "SUPPRESSED"} : Duplicates = {} /\ Loads(r, "report", 0, "none", status, 0)
        BY <2>3
      <3> DEFINE w == [op |-> "report", row |-> 0, from |-> "none", to |-> status, count |-> 0]
      <3>2. status \in AlertStatus /\ status \in SreStates /\ "none" \in SreStates
        BY DEF AlertStatus, SreStates
      <3>3. /\ Takes(r, w) /\ SameRows /\ UNCHANGED incident /\ rivals \subseteq rivals'
            /\ "report" \notin rivals' => \A q \in SreRequests : sre[q].op # "report"
        BY <3>1, <3>2, LoadsTakes
      <3>4. LoadsReport(r, w)
        BY <3>1, <3>2, <3>3 DEF LoadsReport
      <3> QED
        BY <3>4
    <2> QED
      BY <1>1, <2>2, <2>3 DEF BeginReport
  <1>2. ASSUME NEW r \in SreRequests, BeginMark(r)  PROVE SreStep(r)
    <2>1. PICK a \in DOMAIN alerts, to \in {"ACKNOWLEDGED", "RESOLVED", "SUPPRESSED"} :
            Loads(r, "mark", a, alerts[a].status, to, 0)
      BY <1>2 DEF BeginMark
    <2>2. alerts[a] \in AlertRows /\ a \in Nat
      BY ElementOfSeq DEF AlertTypes
    <2>3. to \in AlertStatus /\ to \in SreStates /\ alerts[a].status \in SreStates
      BY <2>2 DEF AlertStatus, SreStates, AlertRows
    <2> DEFINE w == [op |-> "mark", row |-> a, from |-> alerts[a].status, to |-> to, count |-> 0]
    <2>4. Takes(r, w) /\ SameRows /\ UNCHANGED incident /\ rivals \subseteq rivals'
      BY <2>1, <2>2, <2>3, LoadsTakes
    <2>5. LoadsMark(r, w)
      BY <2>3, <2>4 DEF LoadsMark
    <2> QED
      BY <2>5
  <1>3. ASSUME NEW r \in SreRequests, BeginStatus(r)  PROVE SreStep(r)
    <2>1. PICK to \in Follows(incident.status) \cup {incident.status} :
            Loads(r, "update", 0, incident.status, to, 0)
      BY <1>3 DEF BeginStatus
    <2>2. incident.status \in IncidentStatus
      BY DEF AlertTypes
    <2>3. to \in SreStates /\ incident.status \in SreStates
      BY <2>2, FollowsStays DEF SreStates
    <2> DEFINE w == [op |-> "update", row |-> 0, from |-> incident.status, to |-> to, count |-> 0]
    <2>4. /\ Takes(r, w) /\ SameRows /\ UNCHANGED incident /\ rivals \subseteq rivals'
          /\ "update" \notin rivals' => \A q \in SreRequests : sre[q].op # "update"
      BY <2>1, <2>3, LoadsTakes
    <2>5. LoadsUpdate(r, w)
      BY <2>4 DEF LoadsUpdate
    <2> QED
      BY <2>5
  <1>4. ASSUME NEW r \in SreRequests, CommitReport(r)  PROVE SreStep(r)
    BY <1>4, CommitReportChanges, LeavesEnds DEF CommitsRow
  <1>5. ASSUME NEW r \in SreRequests, CommitMark(r)  PROVE SreStep(r)
    BY <1>5, CommitMarkChanges, LeavesEnds DEF CommitsRow, CommitsNothing
  <1>6. ASSUME NEW r \in SreRequests, CommitStatus(r)  PROVE SreStep(r)
    BY <1>6, LeavesEnds DEF CommitStatus, CommitsUpdate, SameRows, Leaves, Commits
  <1>7. ASSUME NEW r \in SreRequests, SreFails(r)  PROVE SreStep(r)
    BY <1>7, LeavesEnds DEF SreFails, CommitsNothing, SameRows, Leaves, Commits
  <1> QED
    BY <1>1, <1>2, <1>3, <1>4, <1>5, <1>6, <1>7 DEF SreNext, AlertNext, IncidentNext

LEMMA SreStepTypes ==
  ASSUME AlertTypes, WorkTells, NEW r \in SreRequests, SreStep(r)
  PROVE  AlertTypes' /\ WorkTells'
  <1> USE DEF AlertTypes, Takes
  <1>1. ASSUME NEW w, LoadsReport(r, w) \/ LoadsMark(r, w) \/ LoadsUpdate(r, w)
        PROVE  AlertTypes' /\ WorkTells'
    <2>1. AlertTypes'
      BY <1>1 DEF LoadsReport, LoadsMark, LoadsUpdate, SameRows
    <2>2. alerts' = alerts /\ Len(alerts) \in Nat /\ DOMAIN alerts = 1..Len(alerts)
      BY <1>1 DEF LoadsReport, LoadsMark, LoadsUpdate, SameRows
    <2>3. \A q \in SreRequests \ {r} : sre'[q] = sre[q]
      BY <1>1 DEF LoadsReport, LoadsMark, LoadsUpdate
    <2>4. sre'[r] = w
      BY <1>1 DEF LoadsReport, LoadsMark, LoadsUpdate
    <2>5. /\ w.op \in {"report", "mark"} => w.row \in 0..Len(alerts) /\ w.to \in AlertStatus
          /\ w.op = "mark" => w.row # 0
          /\ w.op = "update" => w.from \in IncidentStatus /\ w.to \in Follows(w.from) \cup {w.from}
      BY <1>1, <2>2 DEF LoadsReport, LoadsMark, LoadsUpdate
    <2> QED
      BY <2>1, <2>2, <2>3, <2>4, <2>5 DEF WorkTells
  <1>2. CASE CommitsRow(r) \/ CommitsNothing(r)
    <2>0. sre' \in [SreRequests -> SreWork] /\ incident' = incident
      BY <1>2 DEF CommitsRow, CommitsNothing, Ends
    <2>1. AlertTypes'
      <3>1. CASE SameRows
        BY <2>0, <3>1 DEF SameRows
      <3>2. CASE Adds(r)
        BY <2>0, <3>2 DEF Adds
      <3>3. CASE Changes(r)
        <4>1. alerts' \in Seq(AlertRows) /\ occurrences' \in Nat
          BY <3>3 DEF Changes
        <4>2. revived' \in BOOLEAN
          BY <3>3 DEF Changes
        <4> QED
          BY <2>0, <4>1, <4>2
      <3> QED
        BY <1>2, <3>1, <3>2, <3>3 DEF CommitsRow, CommitsNothing
    <2>2. Len(alerts) \in Nat /\ (Len(alerts') = Len(alerts) \/ Len(alerts') = Len(alerts) + 1)
      BY <1>2 DEF CommitsRow, CommitsNothing, SameRows, Adds, Changes
    <2>3. \A q \in SreRequests \ {r} : sre'[q] = sre[q]
      BY <1>2 DEF CommitsRow, CommitsNothing, Ends
    <2>4. sre'[r].op = "idle"
      BY <1>2 DEF CommitsRow, CommitsNothing, Ends, NoWork
    <2>5. \A q \in SreRequests : sre'[q].op # "idle" => sre'[q] = sre[q]
      BY <2>3, <2>4
    <2>6. \A k \in 0..Len(alerts) : k \in 0..Len(alerts')
      BY <2>2
    <2>7. WorkTells'
      <3> HIDE DEF AlertTypes, Takes
      <3> QED
        BY <2>5, <2>6 DEF WorkTells
    <2> QED
      BY <2>1, <2>7
  <1>3. CASE CommitsUpdate(r)
    <2>1. sre[r].from \in IncidentStatus /\ sre[r].to \in IncidentStatus
      BY <1>3, FollowsStays DEF CommitsUpdate, WorkTells
    <2>2. incident' \in [status : IncidentStatus, stamps : SUBSET IncidentStatus]
      BY <1>3, <2>1 DEF CommitsUpdate, Stamped
    <2>3. AlertTypes'
      <3>1. sre' \in [SreRequests -> SreWork] /\ SameRows /\ rivals' = rivals
        BY <1>3 DEF CommitsUpdate, Ends
      <3> HIDE DEF Takes
      <3> QED
        BY <2>2, <3>1 DEF SameRows
    <2>4. sre'[r].op = "idle" /\ alerts' = alerts /\ \A q \in SreRequests \ {r} : sre'[q] = sre[q]
      BY <1>3 DEF CommitsUpdate, Ends, NoWork, SameRows
    <2> QED
      BY <2>3, <2>4 DEF WorkTells
  <1> QED
    BY <1>1, <1>2, <1>3 DEF SreStep

LEMMA SreStepShares ==
  ASSUME AlertTypes, WorkTells, OneIsActive, NEW occ, Shares(occ), NEW r \in SreRequests, SreStep(r)
  PROVE  \E o : Shares(o)'
  <1> USE DEF Shares, Takes
  <1> DEFINE D == DOMAIN alerts
  <1>0. /\ IsFiniteSet(D) /\ Summable(D, occ) /\ \A a \in D : occ[a] \in Nat /\ alerts[a].count \in Nat
        /\ D = 1..Len(alerts)
    <2>1. D = 1..Len(alerts) /\ Len(alerts) \in Nat
      BY DEF AlertTypes
    <2>2. IsFiniteSet(D)
      BY <2>1, FS_Interval
    <2>3. \A a \in D : alerts[a] \in AlertRows
      BY ElementOfSeq DEF AlertTypes
    <2> QED
      BY <2>1, <2>2, <2>3 DEF Summable, AlertRows
  <1>1. ASSUME NEW w, LoadsReport(r, w)  PROVE Shares(occ)'
    <2>1. /\ alerts' = alerts /\ occurrences' = occurrences /\ rivals \subseteq rivals'
          /\ sre'[r] = w /\ \A q \in SreRequests \ {r} : sre'[q] = sre[q]
      BY <1>1 DEF LoadsReport, SameRows
    <2>2. w.row # 0 => w.row \in D /\ w.count = alerts[w.row].count
      BY <1>1 DEF LoadsReport
    <2> QED
      BY <2>1, <2>2
  <1>2. ASSUME NEW w, LoadsMark(r, w) \/ LoadsUpdate(r, w)  PROVE Shares(occ)'
    <2>1. /\ alerts' = alerts /\ occurrences' = occurrences /\ rivals \subseteq rivals'
          /\ sre'[r].op # "report" /\ \A q \in SreRequests \ {r} : sre'[q] = sre[q]
      BY <1>2 DEF LoadsMark, LoadsUpdate, SameRows
    <2> QED
      BY <2>1
  <1>3. CASE CommitsUpdate(r) \/ CommitsNothing(r)
    <2>1. /\ alerts' = alerts /\ occurrences' = occurrences /\ rivals' = rivals
          /\ sre'[r].op # "report" /\ \A q \in SreRequests \ {r} : sre'[q] = sre[q]
      BY <1>3 DEF CommitsUpdate, CommitsNothing, SameRows, Ends, NoWork
    <2>2. Shares(occ)'
      BY <2>1
    <2> QED
      BY <2>2
  <1>4. ASSUME Ends(r), Adds(r)  PROVE \E o : Shares(o)'
    <2> DEFINE new == Len(alerts) + 1
    <2>1. /\ new \notin D /\ DOMAIN alerts' = D \cup {new} /\ alerts'[new].count = 1
          /\ \A a \in D : alerts'[a] = alerts[a]
          /\ occurrences' = occurrences + 1 /\ rivals' = rivals
          /\ sre'[r].op = "idle" /\ \A q \in SreRequests \ {r} : sre'[q] = sre[q]
      BY <1>4 DEF Adds, Ends, NoWork
    <2>2. PICK o \in [D \cup {new} -> Nat] :
             /\ o[new] = 1 /\ \A a \in D : o[a] = occ[a]
             /\ SumOver(D \cup {new}, o) = SumOver(D, occ) + 1
      <3>1. Summable(D, occ) /\ occ \in [D -> Nat] /\ new \notin D
        BY <1>0, <2>1
      <3> HIDE DEF D, new, Shares, Takes
      <3> QED
        BY <3>1, SumOfOneMore
    <2>3. SumOver(D \cup {new}, o) = SumOver(D, occ) + 1
      BY <2>2
    <2>4. \A q \in SreRequests : sre[q].op = "report" /\ sre[q].row # 0 => sre[q].row \in D
      BY <1>0 DEF WorkTells
    <2>5. \A a \in DOMAIN alerts' : alerts'[a].count <= o[a]
      BY <1>0, <2>1, <2>2
    <2>6. \A q \in SreRequests : sre'[q].op = "report" /\ sre'[q].row # 0 =>
             q # r /\ sre'[q] = sre[q] /\ sre[q].row \in D /\ o[sre[q].row] = occ[sre[q].row]
      BY <2>1, <2>2, <2>4
    <2>7. "report" \notin rivals => \A a \in DOMAIN alerts' : alerts'[a].count = o[a]
      BY <2>1, <2>2
    <2>8. o \in [DOMAIN alerts' -> Nat] /\ SumOver(DOMAIN alerts', o) = occurrences'
      BY <2>1, <2>2, <2>3
    <2>9. \A q \in SreRequests : sre'[q].op = "report" /\ sre'[q].row # 0 =>
             /\ sre'[q].count <= o[sre'[q].row]
             /\ "report" \notin rivals => sre'[q].count = o[sre'[q].row]
      BY <2>6
    <2>10. Shares(o)'
      <3> HIDE DEF Takes
      <3> QED
        BY <2>1, <2>5, <2>7, <2>8, <2>9
    <2> QED
      BY <2>10
  <1>5. ASSUME Ends(r), Changes(r), sre[r].op = "report"  PROVE \E o : Shares(o)'
    <2> DEFINE n == sre[r].row
    <2>1. /\ n \in D /\ n # 0 /\ DOMAIN alerts' = D /\ alerts'[n].count = sre[r].count + 1
          /\ \A a \in D \ {n} : alerts'[a] = alerts[a]
          /\ occurrences' = occurrences + 1 /\ rivals' = rivals
          /\ sre'[r].op = "idle" /\ \A q \in SreRequests \ {r} : sre'[q] = sre[q]
      BY <1>0, <1>5 DEF Changes, Ends, NoWork
    <2>2. PICK o : o \in [D -> Nat] /\ o[n] = occ[n] + 1 /\ occ[n] \in Nat /\ \A a \in D \ {n} : o[a] = occ[a]
      <3> DEFINE more == [occ EXCEPT ![n] = occ[n] + 1]
      <3>1. more \in [D -> Nat] /\ more[n] = occ[n] + 1 /\ occ[n] \in Nat /\ \A a \in D \ {n} : more[a] = occ[a]
        BY <1>0, <2>1
      <3> QED
        BY <3>1
    <2>3. sre[r].count \in Nat /\ sre[r].count <= occ[n]
      BY <1>5, <2>1 DEF AlertTypes, SreWork
    <2> HIDE DEF n
    <2>4. SumOver(D, o) = SumOver(D, occ) + o[n] - occ[n]
      <3>1. Summable(D, occ) /\ n \in D /\ o[n] \in Int /\ \A a \in D \ {n} : o[a] = occ[a]
        BY <1>0, <2>1, <2>2
      <3> HIDE DEF D
      <3> QED
        BY <3>1, SumChanges
    <2>5. SumOver(D, occ) = occurrences /\ occurrences \in Nat
      BY DEF AlertTypes
    <2>6. SumOver(D, o) = occurrences'
      BY <2>1, <2>2, <2>4, <2>5
    <2>7. \A a \in D : alerts'[a].count <= o[a]
      BY <1>0, <2>1, <2>2, <2>3
    <2>8. \A q \in SreRequests : sre'[q].op = "report" /\ sre'[q].row # 0 => sre'[q].count <= o[sre'[q].row]
      <3> SUFFICES ASSUME NEW q \in SreRequests \ {r}, sre[q].op = "report", sre[q].row # 0
                   PROVE  sre[q].count <= o[sre[q].row]
        BY <2>1
      <3>1. sre[q].row \in D /\ sre[q].count <= occ[sre[q].row] /\ sre[q].count \in Nat
        BY <1>0 DEF WorkTells, AlertTypes, SreWork
      <3> DEFINE k == sre[q].row
      <3>2. o[k] \in Nat /\ occ[k] \in Nat /\ occ[k] <= o[k]
        <4>1. CASE k = n
          BY <2>2, <4>1
        <4>2. CASE k # n
          BY <2>2, <3>1, <4>2
        <4> QED
          BY <4>1, <4>2
      <3> QED
        BY <3>1, <3>2
    <2>9. ASSUME "report" \notin rivals
          PROVE  /\ \A a \in D : alerts'[a].count = o[a]
                 /\ \A q \in SreRequests \ {r} : sre[q].op # "report"
      <3>1. sre[r].count = occ[n]
        BY <1>5, <2>1, <2>9 DEF n
      <3>2. \A a \in D : alerts'[a].count = o[a]
        BY <2>1, <2>2, <2>9, <3>1
      <3> QED
        BY <1>5, <2>9, <3>2 DEF OneIsActive
    <2>10. \A q \in SreRequests : "report" \notin rivals => sre'[q].op # "report"
      BY <2>1, <2>9
    <2>11. o \in [DOMAIN alerts' -> Nat] /\ SumOver(DOMAIN alerts', o) = occurrences'
      BY <2>1, <2>2, <2>6
    <2>12. Shares(o)'
      <3> HIDE DEF Takes
      <3> QED
        BY <2>1, <2>7, <2>8, <2>9, <2>10, <2>11
    <2> QED
      BY <2>12
  <1>6. ASSUME Ends(r), Changes(r), sre[r].op = "mark"  PROVE Shares(occ)'
    <2>1. /\ DOMAIN alerts' = D /\ \A a \in D : alerts'[a].count = alerts[a].count
          /\ occurrences' = occurrences /\ rivals' = rivals
          /\ sre'[r].op = "idle" /\ \A q \in SreRequests \ {r} : sre'[q] = sre[q]
      BY <1>6 DEF Changes, Ends, NoWork
    <2> QED
      BY <2>1
  <1>7. CASE CommitsRow(r)
    BY <1>4, <1>5, <1>6, <1>7 DEF CommitsRow, Changes
  <1> QED
    BY <1>1, <1>2, <1>3, <1>7 DEF SreStep

LEMMA SreStepActive ==
  ASSUME AlertTypes, WorkTells, OneIsActive, NEW r \in SreRequests, SreStep(r)
  PROVE  OneIsActive'
  <1> USE DEF OneIsActive, Takes
  <1>1. ASSUME NEW w, LoadsReport(r, w) \/ LoadsMark(r, w) \/ LoadsUpdate(r, w)  PROVE OneIsActive'
    <2>1. /\ Duplicates' = Duplicates /\ revived' = revived /\ rivals \subseteq rivals'
          /\ sre'[r] = w /\ \A q \in SreRequests \ {r} : sre'[q] = sre[q]
      BY <1>1 DEF LoadsReport, LoadsMark, LoadsUpdate, SameRows, Duplicates
    <2>2. /\ w.op = "report" /\ "report" \notin rivals' => \A q \in SreRequests : sre[q].op # "report"
          /\ w.op = "report" /\ w.row = 0 => Duplicates = {}
      <3>1. 0 \notin DOMAIN alerts
        BY DEF AlertTypes
      <3> QED
        BY <1>1, <3>1 DEF LoadsReport, LoadsMark, LoadsUpdate
    <2> QED
      BY <2>1, <2>2
  <1>2. CASE CommitsUpdate(r) \/ CommitsNothing(r)
    <2>1. /\ Duplicates' = Duplicates /\ revived' = revived /\ rivals' = rivals
          /\ sre'[r].op = "idle" /\ \A q \in SreRequests \ {r} : sre'[q] = sre[q]
      BY <1>2 DEF CommitsUpdate, CommitsNothing, SameRows, Ends, NoWork, Duplicates
    <2> QED
      BY <2>1
  <1>3. ASSUME Ends(r), Adds(r)  PROVE OneIsActive'
    <2>1. /\ sre[r].op = "report" /\ sre[r].row = 0 /\ revived' = revived /\ rivals' = rivals
          /\ sre'[r].op = "idle" /\ \A q \in SreRequests \ {r} : sre'[q] = sre[q]
      BY <1>3 DEF Adds, Ends, NoWork
    <2>2. Duplicates' \subseteq Duplicates \cup {Len(alerts) + 1}
      BY <1>3 DEF Adds, Duplicates
    <2> QED
      BY <2>1, <2>2
  <1>4. ASSUME Ends(r), Changes(r)  PROVE OneIsActive'
    <2>0. revived => revived'
      BY <1>4, Zenon DEF Changes
    <2>1. /\ rivals' = rivals
          /\ sre'[r].op = "idle" /\ \A q \in SreRequests \ {r} : sre'[q] = sre[q]
      BY <1>4 DEF Changes, Ends, NoWork
    <2>2. ~revived' => Duplicates' \subseteq Duplicates
      BY <1>4 DEF Changes, Duplicates
    <2> QED
      BY <2>0, <2>1, <2>2
  <1> QED
    BY <1>1, <1>2, <1>3, <1>4 DEF SreStep, CommitsRow

LEMMA SreStepIncident ==
  ASSUME AlertTypes, WorkTells, ClosedWasResolved, NEW r \in SreRequests, SreStep(r)
  PROVE  ClosedWasResolved'
  <1> USE DEF ClosedWasResolved, Takes, Finished
  <1>1. ASSUME NEW w, LoadsReport(r, w) \/ LoadsMark(r, w)  PROVE ClosedWasResolved'
    <2>1. /\ incident' = incident /\ rivals \subseteq rivals'
          /\ sre'[r].op # "update" /\ \A q \in SreRequests \ {r} : sre'[q] = sre[q]
      BY <1>1 DEF LoadsReport, LoadsMark
    <2> QED
      BY <2>1
  <1>2. ASSUME NEW w, LoadsUpdate(r, w)  PROVE ClosedWasResolved'
    <2>1. /\ incident' = incident /\ rivals \subseteq rivals'
          /\ sre'[r] = w /\ \A q \in SreRequests \ {r} : sre'[q] = sre[q]
          /\ w.op = "update" /\ w.from = incident.status
          /\ "update" \notin rivals' => \A q \in SreRequests : sre[q].op # "update"
      BY <1>2 DEF LoadsUpdate
    <2> QED
      BY <2>1
  <1>3. CASE CommitsRow(r) \/ CommitsNothing(r)
    <2>1. /\ incident' = incident /\ rivals' = rivals
          /\ sre'[r].op = "idle" /\ \A q \in SreRequests \ {r} : sre'[q] = sre[q]
      BY <1>3 DEF CommitsRow, CommitsNothing, Adds, Changes, Ends, NoWork
    <2> QED
      BY <2>1
  <1>4. CASE CommitsUpdate(r)
    <2> DEFINE from == sre[r].from   to == sre[r].to
    <2>1. /\ sre[r].op = "update" /\ rivals' = rivals
          /\ sre'[r].op = "idle" /\ \A q \in SreRequests \ {r} : sre'[q] = sre[q]
          /\ incident'.status = IF from = to THEN incident.status ELSE to
          /\ incident'.stamps = incident.stamps \cup Stamped(to)
      BY <1>4 DEF CommitsUpdate, Ends, NoWork
    <2>2. from \in IncidentStatus /\ to \in Follows(from) \cup {from}
      BY <2>1 DEF WorkTells
    <2>3. to = "CLOSED" => from \in Finished
      BY <2>2 DEF Follows, IncidentStatus
    <2>4. from \in Finished => to \in Finished
      BY <2>2 DEF Follows, IncidentStatus
    <2>5. /\ to = "RESOLVED" => "RESOLVED" \in Stamped(to)
          /\ to # "RESOLVED" => "RESOLVED" \notin Stamped(to)
          /\ to # "CLOSED" => "CLOSED" \notin Stamped(to)
      BY DEF Stamped
    <2>6. from \in Finished => "RESOLVED" \in incident.stamps
      BY <2>1
    <2>7. incident'.status \in Finished \/ "CLOSED" \in incident'.stamps => "RESOLVED" \in incident'.stamps
      BY <2>1, <2>3, <2>5, <2>6
    <2>8. ASSUME "update" \notin rivals
          PROVE  /\ \A q \in SreRequests \ {r} : sre[q].op # "update"
                 /\ "RESOLVED" \in incident'.stamps => incident'.status \in Finished
      <3>1. from = incident.status
        BY <2>1, <2>8
      <3>2. "RESOLVED" \in incident.stamps => incident.status \in Finished
        BY <2>8
      <3>3. "RESOLVED" \in incident'.stamps => incident'.status \in Finished
        BY <2>1, <2>4, <2>5, <3>1, <3>2
      <3> QED
        BY <2>1, <2>8, <3>3
    <2> HIDE DEF from, to
    <2> QED
      BY <2>1, <2>7, <2>8
  <1> QED
    BY <1>1, <1>2, <1>3, <1>4 DEF SreStep

(* Every report is counted once, by one active alert, and an incident is   *)
(* closed after it was resolved: for any number of requests, as far as     *)
(* reports, or updates of the incident, do not overlap, and never twice.   *)
THEOREM EveryReportIsCounted == SreSpec => []ReportsAreCounted
  <1>1. AlertInv /\ [SreNext]_sreVars => AlertInv'
    <2> SUFFICES ASSUME AlertInv, [SreNext]_sreVars  PROVE AlertInv'
      OBVIOUS
    <2> USE DEF AlertInv
    <2>1. CASE UNCHANGED sreVars
      <3>1. PICK occ : Shares(occ)
        OBVIOUS
      <3>2. Shares(occ)'
        BY <2>1, <3>1 DEF sreVars, Shares
      <3> QED
        BY <2>1, <3>2 DEF sreVars, AlertTypes, WorkTells, OneIsActive, ClosedWasResolved, Duplicates
    <2>2. ASSUME NEW r \in SreRequests, SreStep(r)  PROVE AlertInv'
      <3>1. AlertTypes' /\ WorkTells' /\ OneIsActive' /\ ClosedWasResolved'
        BY <2>2, SreStepTypes, SreStepActive, SreStepIncident
      <3>2. \E occ : Shares(occ)'
        BY <2>2, SreStepShares
      <3> QED
        BY <3>1, <3>2
    <2> QED
      BY <2>1, <2>2, StepsAreThese
  <1> QED
    BY <1>1, AlertInvInit, AlertInvCounts, PTL DEF SreSpec
-----------------------------------------------------------------------------
(***************************************************************************)
(* A benchmark run.                                                        *)
(***************************************************************************)
RunRows == [status : {"none", "running", "completed"}, total : Nat, passed : Nat, failed : Nat]
Benches ==
    [phase : {"idle", "asking", "ended"}, verdicts : Seq(BOOLEAN), held : SUBSET (1..MaxCases),
     broken : BOOLEAN, undone : Nat]
Comparisons ==
    [phase : {"none", "read", "ended"}, base : SUBSET EvalRuns, passed : SUBSET Nat, cand : SUBSET EvalRuns,
     failures : SUBSET Nat, status : {"none", "PASS", "WARNING", "FAIL"}]
BenchTypes ==
    /\ cases \in 0..MaxCases
    /\ runRow \in [EvalRuns -> RunRows] /\ \A r \in EvalRuns : runRow[r].total <= MaxCases
    /\ bench \in [EvalRuns -> Benches]
    /\ comparison \in Comparisons

(* What the process of a run knows is never less than what its row counts, *)
(* and what it does not hold it has stored, from the last rollback on.     *)
VerdictOf(r, b, i) == [run |-> r, case |-> i, passed |-> b.verdicts[i]]
KeepsCount(r, b, row, stored) ==
    /\ Len(b.verdicts) <= row.total /\ b.held \subseteq 1..Len(b.verdicts)
    /\ b.phase = "idle" => row.status = "none" /\ b.verdicts = <<>>
    /\ b.phase = "asking" => row.status = "running"
    /\ row.status = "completed" =>
          b.phase = "ended" /\ b.held = {} /\ Len(b.verdicts) = row.total /\ row.passed + row.failed = row.total
    /\ row.status # "completed" => row.passed = 0 /\ row.failed = 0
    /\ b.phase = "asking" \/ row.status = "completed" =>
          \A i \in 1..Len(b.verdicts) : i >= b.undone => i \in b.held \/ VerdictOf(r, b, i) \in stored

(* A stored result is that of the process; a comparison has read results   *)
(* that were stored, and a verdict is not changed afterwards.              *)
StoredAsScored(row, benches) ==
    /\ row.run \in EvalRuns /\ row.case \in 1..Len(benches[row.run].verdicts)
    /\ row = VerdictOf(row.run, benches[row.run], row.case)
Scored(benches, r, i) == i \in 1..Len(benches[r].verdicts) /\ benches[r].verdicts[i]
Missed(benches, r, i) == i \in 1..Len(benches[r].verdicts) /\ ~benches[r].verdicts[i]
ComparedAsScored(c, benches) ==
    /\ c.phase \in {"none", "read"} => c.cand = {} /\ c.failures = {}
    /\ \A b \in c.base : \A i \in c.passed \cup c.failures : Scored(benches, b, i)
    /\ \A r \in c.cand : \A i \in c.failures : Missed(benches, r, i)
    /\ c.cand # {} /\ c.failures # {} => c.status # "PASS"

BenchInv ==
    /\ BenchTypes
    /\ \A r \in EvalRuns : KeepsCount(r, bench[r], runRow[r], resultRows)
    /\ \A row \in resultRows : StoredAsScored(row, bench)
    /\ ComparedAsScored(comparison, bench)
-----------------------------------------------------------------------------
LEMMA BenchInitInv == EvaluationInit => BenchInv
  <1> SUFFICES ASSUME EvaluationInit  PROVE BenchInv
    OBVIOUS
  <1>1. NoRow \in RunRows /\ NoBench \in Benches /\ NoComparison \in Comparisons
    <2>1. <<>> \in Seq(BOOLEAN)
      OBVIOUS
    <2>2. NoBench \in Benches
      BY <2>1 DEF NoBench, Benches
    <2> QED
      BY <2>2 DEF NoRow, RunRows, NoComparison, Comparisons
  <1>2. BenchTypes
    BY <1>1, EvaluationAssumption DEF EvaluationInit, BenchTypes, NoRow
  <1>3. \A r \in EvalRuns : KeepsCount(r, bench[r], runRow[r], resultRows)
    BY DEF EvaluationInit, KeepsCount, NoRow, NoBench
  <1>4. ComparedAsScored(comparison, bench)
    BY DEF EvaluationInit, ComparedAsScored, NoComparison
  <1> QED
    BY <1>2, <1>3, <1>4 DEF BenchInv, EvaluationInit

(* The invariant says what the property asks.                              *)
LEMMA BenchInvHonest == BenchInv => RunsAreHonest
  <1> SUFFICES ASSUME BenchInv  PROVE RunsAreHonest
    OBVIOUS
  <1> USE DEF BenchInv
  <1>1. \A row \in resultRows :
           row.case \in 1..Asked(row.run) /\ row = Verdict(row.run, row.case)
    BY DEF StoredAsScored, VerdictOf, Verdict, Asked
  <1>2. ASSUME NEW r \in EvalRuns
        PROVE  IF runRow[r].status = "completed"
               THEN /\ Asked(r) = runRow[r].total /\ runRow[r].passed + runRow[r].failed = runRow[r].total
                    /\ \A i \in 1..runRow[r].total :
                          i >= bench[r].undone => Verdict(r, i) \in resultRows
               ELSE runRow[r].passed = 0 /\ runRow[r].failed = 0
    <2>1. KeepsCount(r, bench[r], runRow[r], resultRows)
      OBVIOUS
    <2> QED
      BY <2>1 DEF KeepsCount, VerdictOf, Verdict, Asked
  <1>3. ASSUME NEW b \in comparison.base, NEW c \in comparison.cand
        PROVE  LET regressed == {i \in (1..Asked(b)) \cap (1..Asked(c)) :
                                    bench[b].verdicts[i] /\ ~bench[c].verdicts[i]}
               IN  /\ comparison.failures \subseteq regressed
                   /\ comparison.failures # {} => comparison.status # "PASS"
    BY DEF ComparedAsScored, Scored, Missed, Asked
  <1> QED
    BY <1>1, <1>2, <1>3 DEF RunsAreHonest
-----------------------------------------------------------------------------
(* Verdicts are appended: what was scored of a run stays as it was.        *)
Extends(new, old) ==
    /\ Len(old.verdicts) <= Len(new.verdicts)
    /\ \A i \in 1..Len(old.verdicts) : new.verdicts[i] = old.verdicts[i]

LEMMA StoredStays ==
  ASSUME NEW before \in [EvalRuns -> Benches], NEW after, NEW row, StoredAsScored(row, before),
         \A r \in EvalRuns : Extends(after[r], before[r]),
         \A r \in EvalRuns : Len(after[r].verdicts) \in Nat
  PROVE  StoredAsScored(row, after)
  <1>1. Len(before[row.run].verdicts) \in Nat
    BY DEF StoredAsScored, Benches
  <1> QED
    BY <1>1 DEF StoredAsScored, Extends, VerdictOf

LEMMA ScoredStays ==
  ASSUME NEW before \in [EvalRuns -> Benches], NEW after, NEW r \in EvalRuns, NEW i,
         Extends(after[r], before[r]), Len(after[r].verdicts) \in Nat
  PROVE  /\ Scored(before, r, i) => Scored(after, r, i)
         /\ Missed(before, r, i) => Missed(after, r, i)
  <1>1. Len(before[r].verdicts) \in Nat
    BY DEF Benches
  <1>2. ASSUME i \in 1..Len(before[r].verdicts)
        PROVE  i \in 1..Len(after[r].verdicts) /\ after[r].verdicts[i] = before[r].verdicts[i]
    BY <1>1, <1>2 DEF Extends
  <1> QED
    BY <1>2 DEF Scored, Missed

(* A step of one run: it says how the row and the bench of the run go on,  *)
(* and what it stores.                                                     *)
LEMMA BenchStepKeeps ==
  ASSUME BenchInv, NEW r \in EvalRuns, NEW b \in Benches, NEW row \in RunRows, NEW added,
         row.total <= MaxCases, Extends(b, bench[r]),
         bench' = [bench EXCEPT ![r] = b], runRow' = [runRow EXCEPT ![r] = row],
         resultRows' = resultRows \cup added, cases' \in 0..MaxCases, comparison' = comparison,
         \A x \in added : \E i \in 1..Len(b.verdicts) : x = VerdictOf(r, b, i),
         KeepsCount(r, b, row, resultRows')
  PROVE  BenchInv'
  <1> USE DEF BenchInv
  <1>1. BenchTypes'
    BY DEF BenchTypes
  <1>2. bench \in [EvalRuns -> Benches] /\ bench' \in [EvalRuns -> Benches]
    BY <1>1 DEF BenchTypes
  <1>3. \A q \in EvalRuns : Len(bench'[q].verdicts) \in Nat /\ Len(bench[q].verdicts) \in Nat
    BY <1>2 DEF Benches
  <1>4. bench'[r] = b /\ \A q \in EvalRuns \ {r} : bench'[q] = bench[q]
    BY <1>2
  <1>5. \A q \in EvalRuns : Extends(bench'[q], bench[q])
    BY <1>3, <1>4 DEF Extends
  <1>6. \A x \in resultRows' : StoredAsScored(x, bench')
    <2>1. ASSUME NEW x \in resultRows  PROVE StoredAsScored(x, bench')
      BY <1>2, <1>3, <1>5, StoredStays
    <2>2. ASSUME NEW x \in added  PROVE StoredAsScored(x, bench')
      BY <1>4 DEF StoredAsScored, VerdictOf
    <2> QED
      BY <2>1, <2>2
  <1>7. \A q \in EvalRuns : KeepsCount(q, bench'[q], runRow'[q], resultRows')
    <2>1. runRow'[r] = row /\ \A q \in EvalRuns \ {r} : runRow'[q] = runRow[q]
      BY DEF BenchTypes
    <2>2. ASSUME NEW q \in EvalRuns \ {r}  PROVE KeepsCount(q, bench[q], runRow[q], resultRows')
      BY <2>2 DEF KeepsCount
    <2> QED
      BY <1>4, <2>1, <2>2
  <1>8. ComparedAsScored(comparison', bench')
    <2>1. comparison.base \subseteq EvalRuns /\ comparison.cand \subseteq EvalRuns
      BY DEF BenchTypes, Comparisons
    <2>2. \A q \in EvalRuns, i \in Nat \cup comparison.failures :
             /\ Scored(bench, q, i) => Scored(bench', q, i)
             /\ Missed(bench, q, i) => Missed(bench', q, i)
      BY <1>2, <1>3, <1>5, ScoredStays
    <2>3. comparison.passed \subseteq Nat
      BY DEF BenchTypes, Comparisons
    <2> QED
      BY <2>1, <2>2, <2>3 DEF ComparedAsScored
  <1> QED
    BY <1>1, <1>6, <1>7, <1>8
-----------------------------------------------------------------------------
(* The counts of a run add up to the questions asked.                      *)
LEMMA PassedCounts ==
  ASSUME NEW r \in EvalRuns, NEW n \in Nat, Asked(r) = n
  PROVE  Passed(r) \in Nat /\ Passed(r) <= n
  <1> DEFINE S == {i \in 1..Asked(r) : bench[r].verdicts[i]}
  <1>1. IsFiniteSet(1..n) /\ Cardinality(1..n) = n
    BY FS_Interval
  <1>2. S \subseteq 1..n
    OBVIOUS
  <1>3. Cardinality(S) \in Nat /\ Cardinality(S) <= n
    BY <1>1, <1>2, FS_Subset, FS_CardinalityType
  <1> QED
    BY <1>3 DEF Passed

LEMMA SummaryAddsUp ==
  ASSUME NEW r \in EvalRuns, runRow[r] \in RunRows, Asked(r) = runRow[r].total
  PROVE  /\ Summary(r) \in RunRows /\ Summary(r).status = "completed" /\ Summary(r).total = runRow[r].total
         /\ Summary(r).passed + Summary(r).failed = Summary(r).total
  <1> DEFINE p == Passed(r)
             t == runRow[r].total
  <1>1. t \in Nat
    BY DEF RunRows
  <1>2. p \in Nat /\ p <= t
    BY <1>1, PassedCounts
  <1>3. Summary(r) = [runRow[r] EXCEPT !.status = "completed", !.passed = p, !.failed = t - p]
    BY DEF Summary
  <1> HIDE DEF p
  <1>4. t - p \in Nat
    BY <1>1, <1>2
  <1>5. Summary(r) \in RunRows
    BY <1>2, <1>3, <1>4 DEF RunRows
  <1>6. Summary(r).status = "completed" /\ Summary(r).total = t /\ Summary(r).passed = p /\ Summary(r).failed = t - p
    BY <1>3 DEF RunRows
  <1> QED
    BY <1>1, <1>2, <1>5, <1>6

LEMMA StartRunKeeps == ASSUME BenchInv, NEW r \in EvalRuns, StartRun(r)  PROVE BenchInv'
  <1> USE DEF StartRun
  <1> DEFINE b == [bench[r] EXCEPT !.phase = "asking"]
             row == [NoRow EXCEPT !.status = "running", !.total = cases]
             added == {}
  <1>1. bench[r] \in Benches /\ cases \in 0..MaxCases /\ MaxCases \in Nat
    BY EvaluationAssumption DEF BenchInv, BenchTypes
  <1>2. KeepsCount(r, bench[r], runRow[r], resultRows)
    BY DEF BenchInv
  <1>3. b \in Benches /\ b.verdicts = <<>> /\ b.held = bench[r].held /\ b.phase = "asking"
    BY <1>1, <1>2 DEF Benches, KeepsCount
  <1>4. row \in RunRows /\ row.total = cases /\ row.status = "running" /\ row.passed = 0 /\ row.failed = 0
    <2>1. cases \in Nat
      BY <1>1
    <2>2. NoRow \in RunRows /\ NoRow.passed = 0 /\ NoRow.failed = 0
      BY DEF NoRow, RunRows
    <2> QED
      BY <2>1, <2>2 DEF RunRows
  <1>5. /\ bench' = [bench EXCEPT ![r] = b] /\ runRow' = [runRow EXCEPT ![r] = row]
        /\ resultRows' = resultRows \cup added /\ cases' \in 0..MaxCases /\ comparison' = comparison
    BY <1>1
  <1>6. Extends(b, bench[r])
    BY <1>1, <1>3 DEF Extends, Benches
  <1> HIDE DEF b, row
  <1>7. KeepsCount(r, b, row, resultRows')
    BY <1>1, <1>2, <1>3, <1>4 DEF KeepsCount
  <1>8. row.total <= MaxCases /\ \A x \in added : \E i \in 1..Len(b.verdicts) : x = VerdictOf(r, b, i)
    BY <1>1, <1>4
  <1>9. b \in Benches /\ row \in RunRows
    BY <1>3, <1>4
  <1> HIDE DEF StartRun, added
  <1> QED
    BY <1>5, <1>6, <1>7, <1>8, <1>9, BenchStepKeeps

LEMMA BreaksOffKeeps == ASSUME BenchInv, NEW r \in EvalRuns, RunBreaksOff(r)  PROVE BenchInv'
  <1> USE DEF RunBreaksOff
  <1> DEFINE b == [bench[r] EXCEPT !.phase = "ended", !.held = {}]
             row == runRow[r]
  <1>1. bench[r] \in Benches /\ row \in RunRows /\ row.total <= MaxCases /\ cases \in 0..MaxCases
    BY DEF BenchInv, BenchTypes
  <1>2. KeepsCount(r, bench[r], row, resultRows)
    BY DEF BenchInv
  <1>3. b \in Benches /\ b.verdicts = bench[r].verdicts /\ b.held = {} /\ b.phase = "ended"
    BY <1>1 DEF Benches
  <1>4. /\ bench' = [bench EXCEPT ![r] = b] /\ runRow' = [runRow EXCEPT ![r] = row]
        /\ resultRows' = resultRows \cup {} /\ cases' \in 0..MaxCases /\ comparison' = comparison
    BY <1>1 DEF BenchInv, BenchTypes
  <1>5. Extends(b, bench[r])
    BY <1>1, <1>3 DEF Extends, Benches
  <1> HIDE DEF b, row
  <1>6. KeepsCount(r, b, row, resultRows')
    BY <1>1, <1>2, <1>3 DEF KeepsCount
  <1> HIDE DEF RunBreaksOff
  <1> QED
    BY <1>1, <1>3, <1>4, <1>5, <1>6, BenchStepKeeps

(* The results held are stored with the verdicts they were scored with.    *)
LEMMA UnsavedAreScored ==
  ASSUME NEW r \in EvalRuns, bench[r].held \subseteq 1..Len(bench[r].verdicts)
  PROVE  \A x \in Unsaved(r) : \E i \in 1..Len(bench[r].verdicts) : x = VerdictOf(r, bench[r], i)
  BY DEF Unsaved, Verdict, VerdictOf

LEMMA FinishRunKeeps == ASSUME BenchInv, NEW r \in EvalRuns, FinishRun(r)  PROVE BenchInv'
  <1> USE DEF FinishRun
  <1> DEFINE b == [bench[r] EXCEPT !.phase = "ended", !.held = {}]
             row == Summary(r)
  <1>1. bench[r] \in Benches /\ runRow[r] \in RunRows /\ runRow[r].total <= MaxCases /\ cases \in 0..MaxCases
    BY DEF BenchInv, BenchTypes
  <1>2. KeepsCount(r, bench[r], runRow[r], resultRows)
    BY DEF BenchInv
  <1>3. /\ b \in Benches /\ b.verdicts = bench[r].verdicts /\ b.held = {} /\ b.phase = "ended"
        /\ b.undone = bench[r].undone
    BY <1>1 DEF Benches
  <1>4. /\ bench' = [bench EXCEPT ![r] = b] /\ runRow' = [runRow EXCEPT ![r] = row]
        /\ resultRows' = resultRows \cup Unsaved(r) /\ cases' \in 0..MaxCases /\ comparison' = comparison
    BY <1>1 DEF BenchInv, BenchTypes
  <1>5. Extends(b, bench[r])
    BY <1>1, <1>3 DEF Extends, Benches
  <1>6. /\ row \in RunRows /\ row.status = "completed" /\ row.total = runRow[r].total
        /\ row.passed + row.failed = row.total
    BY <1>1, SummaryAddsUp
  <1>7. \A x \in Unsaved(r) : \E i \in 1..Len(b.verdicts) : x = VerdictOf(r, b, i)
    BY <1>2, <1>3, UnsavedAreScored DEF KeepsCount, VerdictOf
  <1>8. Len(b.verdicts) = row.total
    BY <1>3, <1>6 DEF Asked
  <1>9. \A i \in 1..Len(b.verdicts) : i >= b.undone => VerdictOf(r, b, i) \in resultRows'
    <2>1. \A i \in bench[r].held : VerdictOf(r, b, i) \in Unsaved(r)
      BY <1>3 DEF Unsaved, Verdict, VerdictOf
    <2>2. \A i : VerdictOf(r, b, i) = VerdictOf(r, bench[r], i)
      BY <1>3 DEF VerdictOf
    <2> QED
      BY <1>2, <1>3, <2>1, <2>2 DEF KeepsCount
  <1> HIDE DEF b, row
  <1>10. Len(b.verdicts) <= row.total
    BY <1>1, <1>8, <1>6 DEF RunRows
  <1>11. KeepsCount(r, b, row, resultRows')
    BY <1>3, <1>6, <1>8, <1>9, <1>10 DEF KeepsCount
  <1>12. row.total <= MaxCases
    BY <1>1, <1>6
  <1> HIDE DEF FinishRun
  <1> QED
    BY <1>3, <1>4, <1>5, <1>6, <1>7, <1>11, <1>12, BenchStepKeeps

(* A question: its verdict is appended, and what the session held is kept, *)
(* stored or lost with the number of the question.                         *)
LEMMA AskCaseKeeps == ASSUME BenchInv, NEW r \in EvalRuns, NEW passes \in BOOLEAN, AskCase(r, passes)
                      PROVE  BenchInv'
  <1> DEFINE old == bench[r]
             n == Len(old.verdicts)
             i == n + 1
             scored == Append(old.verdicts, passes)
             row == runRow[r]
             asked(held, broken, undone) ==
                [old EXCEPT !.verdicts = scored, !.held = held \cup {i}, !.broken = broken, !.undone = undone]
  <1>1. old \in Benches /\ row \in RunRows /\ row.total <= MaxCases /\ cases \in 0..MaxCases /\ MaxCases \in Nat
    BY EvaluationAssumption DEF BenchInv, BenchTypes
  <1>2. KeepsCount(r, old, row, resultRows)
    BY DEF BenchInv
  <1>3. old.verdicts \in Seq(BOOLEAN) /\ n \in Nat /\ row.total \in Nat /\ i <= row.total
    <2>1. old.verdicts \in Seq(BOOLEAN) /\ row.total \in Nat
      BY <1>1 DEF Benches, RunRows
    <2>2. n \in Nat
      BY <2>1
    <2>3. i <= row.total
      BY DEF AskCase, Asked
    <2> QED
      BY <2>1, <2>2, <2>3
  <1>4. /\ scored \in Seq(BOOLEAN) /\ Len(scored) = i /\ scored[i] = passes
        /\ \A k \in 1..n : scored[k] = old.verdicts[k]
    BY <1>3
  <1>5. /\ runRow' = [runRow EXCEPT ![r] = row]
        /\ cases' \in 0..MaxCases /\ comparison' = comparison
    BY <1>1 DEF BenchInv, BenchTypes, AskCase
  <1>6. old.phase = "asking" /\ row.status = "running" /\ old.held \subseteq 1..n
    BY <1>2 DEF AskCase, KeepsCount
  <1>7. \E held \in {old.held, {}}, broken \in BOOLEAN, undone \in {old.undone, i} :
           /\ bench' = [bench EXCEPT ![r] = asked(held, broken, undone)]
           /\ \/ held = old.held /\ resultRows' = resultRows
              \/ held = {} /\ undone = old.undone /\ resultRows' = resultRows \cup Unsaved(r)
              \/ held = {} /\ undone = i /\ resultRows' = resultRows
    BY <1>1 DEF AskCase, Asked, Benches
  <1>8. PICK held \in {old.held, {}}, broken \in BOOLEAN, undone \in {old.undone, i} :
           /\ bench' = [bench EXCEPT ![r] = asked(held, broken, undone)]
           /\ \/ held = old.held /\ resultRows' = resultRows
              \/ held = {} /\ undone = old.undone /\ resultRows' = resultRows \cup Unsaved(r)
              \/ held = {} /\ undone = i /\ resultRows' = resultRows
    BY <1>7
  <1> DEFINE b == asked(held, broken, undone)
  <1>9. held \cup {i} \subseteq 1..i /\ i \in 1..MaxCases /\ held \cup {i} \subseteq 1..MaxCases
    BY <1>1, <1>3, <1>6
  <1>10. /\ b \in Benches /\ b.verdicts = scored /\ b.held = held \cup {i} /\ b.phase = "asking"
         /\ b.undone = undone
    <2>1. undone \in Nat
      BY <1>1, <1>3 DEF Benches
    <2> HIDE DEF scored, i
    <2> QED
      BY <1>1, <1>4, <1>6, <1>9, <2>1 DEF Benches
  <1>11. Extends(b, old)
    BY <1>3, <1>4, <1>10 DEF Extends
  <1>12. PICK added : /\ resultRows' = resultRows \cup added
                      /\ \/ held = {} /\ undone = old.undone /\ added = Unsaved(r)
                         \/ held = old.held /\ added = {}
                         \/ held = {} /\ undone = i /\ added = {}
    BY <1>8
  <1>13. \A k \in 1..n : VerdictOf(r, b, k) = VerdictOf(r, old, k)
    BY <1>4, <1>10 DEF VerdictOf
  <1>14. \A x \in added : \E k \in 1..Len(b.verdicts) : x = VerdictOf(r, b, k)
    <2>1. 1..n \subseteq 1..Len(b.verdicts)
      BY <1>3, <1>4, <1>10
    <2>2. \A x \in Unsaved(r) : \E k \in 1..n : x = VerdictOf(r, old, k)
      BY <1>6, UnsavedAreScored
    <2> QED
      BY <1>12, <1>13, <2>1, <2>2
  <1>15. \A k \in 1..Len(b.verdicts) : k >= b.undone => k \in b.held \/ VerdictOf(r, b, k) \in resultRows'
    <2> SUFFICES ASSUME NEW k \in 1..i, k >= undone  PROVE k \in held \cup {i} \/ VerdictOf(r, b, k) \in resultRows'
      BY <1>4, <1>10
    <2>1. CASE k = i
      BY <2>1
    <2>2. CASE k # i
      <3>1. k \in 1..n
        BY <1>3, <2>2
      <3>2. undone # i
        BY <1>3, <3>1
      <3>3. k \in old.held \/ VerdictOf(r, old, k) \in resultRows
        BY <1>2, <1>6, <1>8, <3>1, <3>2 DEF KeepsCount
      <3>4. k \in old.held => VerdictOf(r, old, k) \in Unsaved(r)
        BY DEF Unsaved, Verdict, VerdictOf
      <3> QED
        BY <1>12, <1>13, <3>1, <3>2, <3>3, <3>4
    <2> QED
      BY <2>1, <2>2
  <1>16. row.passed = 0 /\ row.failed = 0
    BY <1>2, <1>6 DEF KeepsCount
  <1>17. bench' = [bench EXCEPT ![r] = b]
    BY <1>8
  <1> HIDE DEF b, row, asked
  <1>18. KeepsCount(r, b, row, resultRows')
    <2>1. b.held \subseteq 1..Len(b.verdicts) /\ Len(b.verdicts) <= row.total
      BY <1>3, <1>4, <1>9, <1>10
    <2> HIDE DEF scored, i
    <2> QED
      BY <1>6, <1>10, <1>15, <1>16, <2>1 DEF KeepsCount
  <1>19. b \in Benches /\ resultRows' = resultRows \cup added
    BY <1>10, <1>12
  <1> QED
    BY <1>1, <1>5, <1>11, <1>14, <1>17, <1>18, <1>19, BenchStepKeeps
-----------------------------------------------------------------------------
(* A case is added, or a comparison reads what is stored.                  *)
LEMMA AddCaseKeeps == ASSUME BenchInv, AddCase  PROVE BenchInv'
  <1>1. cases' \in 0..MaxCases
    BY EvaluationAssumption DEF AddCase, BenchInv, BenchTypes
  <1> QED
    BY <1>1 DEF AddCase, BenchInv, BenchTypes

LEMMA ComparisonKeeps ==
  ASSUME BenchInv, UNCHANGED <<cases, runRow, resultRows, bench>>,
         NEW c \in Comparisons, comparison' = c, ComparedAsScored(c, bench)
  PROVE  BenchInv'
  BY DEF BenchInv, BenchTypes

LEMMA ReadBaselineKeeps == ASSUME BenchInv, NEW r \in EvalRuns, ReadBaseline(r)  PROVE BenchInv'
  <1> DEFINE passed == {row.case : row \in {x \in ResultsOf(r) : x.passed}}
             c == [comparison EXCEPT !.phase = "read", !.base = {r}, !.passed = passed]
  <1>1. comparison \in Comparisons /\ bench \in [EvalRuns -> Benches]
    BY DEF BenchInv, BenchTypes
  <1>2. \A i \in passed : Scored(bench, r, i)
    <2> SUFFICES ASSUME NEW x \in ResultsOf(r), x.passed  PROVE Scored(bench, r, x.case)
      OBVIOUS
    <2>1. StoredAsScored(x, bench) /\ x.run = r
      BY DEF BenchInv, ResultsOf
    <2>2. x.passed = bench[r].verdicts[x.case]
      <3>1. x = VerdictOf(r, bench[r], x.case)
        BY <2>1 DEF StoredAsScored
      <3>2. VerdictOf(r, bench[r], x.case).passed = bench[r].verdicts[x.case]
        BY DEF VerdictOf
      <3> QED
        BY <3>1, <3>2, Zenon
    <2> QED
      BY <2>1, <2>2 DEF StoredAsScored, Scored
  <1>3. passed \subseteq Nat
    <2>1. Len(bench[r].verdicts) \in Nat
      BY <1>1 DEF Benches
    <2>2. \A i \in passed : i \in 1..Len(bench[r].verdicts)
      BY <1>2 DEF Scored
    <2> HIDE DEF passed
    <2> QED
      BY <2>1, <2>2
  <1>4. comparison.cand = {} /\ comparison' = c /\ UNCHANGED <<cases, runRow, resultRows, bench>>
    BY DEF ReadBaseline, BenchInv, ComparedAsScored
  <1> HIDE DEF passed
  <1>5. /\ c \in Comparisons /\ c.phase = "read" /\ c.base = {r} /\ c.passed = passed /\ c.cand = comparison.cand
        /\ c.failures = comparison.failures
    BY <1>1, <1>3 DEF Comparisons
  <1> HIDE DEF c
  <1>6. comparison.failures = {}
    BY DEF ReadBaseline, BenchInv, ComparedAsScored
  <1>7. ComparedAsScored(c, bench)
    BY <1>2, <1>4, <1>5, <1>6 DEF ComparedAsScored
  <1> QED
    BY <1>4, <1>5, <1>7, ComparisonKeeps

LEMMA ReadCandidateKeeps == ASSUME BenchInv, NEW r \in EvalRuns, ReadCandidate(r)  PROVE BenchInv'
  <1> DEFINE failing == {row.case : row \in {x \in ResultsOf(r) : ~x.passed}}
             failures == failing \cap comparison.passed
  <1>1. comparison \in Comparisons /\ bench \in [EvalRuns -> Benches]
    BY DEF BenchInv, BenchTypes
  <1>2. \A i \in failing : Missed(bench, r, i)
    <2> SUFFICES ASSUME NEW x \in ResultsOf(r), ~x.passed  PROVE Missed(bench, r, x.case)
      OBVIOUS
    <2>1. StoredAsScored(x, bench) /\ x.run = r
      BY DEF BenchInv, ResultsOf
    <2>2. x.passed = bench[r].verdicts[x.case]
      <3>1. x = VerdictOf(r, bench[r], x.case)
        BY <2>1 DEF StoredAsScored
      <3>2. VerdictOf(r, bench[r], x.case).passed = bench[r].verdicts[x.case]
        BY DEF VerdictOf
      <3> QED
        BY <3>1, <3>2, Zenon
    <2> QED
      BY <2>1, <2>2 DEF StoredAsScored, Missed
  <1>3. PICK status \in {"FAIL", "WARNING", "PASS"} :
           /\ comparison' = [comparison EXCEPT !.phase = "ended", !.cand = {r}, !.passed = {},
                                               !.failures = failures, !.status = status]
           /\ failures # {} => status # "PASS"
    BY DEF ReadCandidate
  <1> DEFINE c == [comparison EXCEPT !.phase = "ended", !.cand = {r}, !.passed = {},
                                     !.failures = failures, !.status = status]
  <1>4. comparison' = c /\ UNCHANGED <<cases, runRow, resultRows, bench>>
    BY <1>3 DEF ReadCandidate
  <1>5. \A b \in comparison.base : \A i \in failures : Scored(bench, b, i)
    BY DEF BenchInv, ComparedAsScored
  <1>6. failures \subseteq Nat
    BY <1>1 DEF Comparisons
  <1>7. \A i \in failures : Missed(bench, r, i)
    BY <1>2
  <1> HIDE DEF failures
  <1>8. /\ c \in Comparisons /\ c.phase = "ended" /\ c.base = comparison.base /\ c.passed = {} /\ c.cand = {r}
        /\ c.failures = failures /\ c.status = status
    BY <1>1, <1>6 DEF Comparisons
  <1> HIDE DEF c
  <1>9. ComparedAsScored(c, bench)
    BY <1>3, <1>5, <1>7, <1>8 DEF ComparedAsScored
  <1> QED
    BY <1>4, <1>8, <1>9, ComparisonKeeps
-----------------------------------------------------------------------------
LEMMA BenchStepInv == BenchInv /\ [EvaluationNext]_evaluationVars => BenchInv'
  <1> SUFFICES ASSUME BenchInv, [EvaluationNext]_evaluationVars  PROVE BenchInv'
    OBVIOUS
  <1>1. CASE AddCase
    BY <1>1, AddCaseKeeps
  <1>2. ASSUME NEW r \in EvalRuns, StartRun(r)  PROVE BenchInv'
    BY <1>2, StartRunKeeps
  <1>3. ASSUME NEW r \in EvalRuns, FinishRun(r)  PROVE BenchInv'
    BY <1>3, FinishRunKeeps
  <1>4. ASSUME NEW r \in EvalRuns, RunBreaksOff(r)  PROVE BenchInv'
    BY <1>4, BreaksOffKeeps
  <1>5. ASSUME NEW r \in EvalRuns, ReadBaseline(r)  PROVE BenchInv'
    BY <1>5, ReadBaselineKeeps
  <1>6. ASSUME NEW r \in EvalRuns, ReadCandidate(r)  PROVE BenchInv'
    BY <1>6, ReadCandidateKeeps
  <1>7. ASSUME NEW r \in EvalRuns, NEW passes \in BOOLEAN, AskCase(r, passes)  PROVE BenchInv'
    BY <1>7, AskCaseKeeps
  <1>8. CASE UNCHANGED evaluationVars
    BY <1>8 DEF evaluationVars, BenchInv, BenchTypes
  <1> QED
    BY <1>1, <1>2, <1>3, <1>4, <1>5, <1>6, <1>7, <1>8 DEF EvaluationNext

LEMMA RunsStayHonest == EvaluationSpec => [](RunsAreHonest /\ EvaluationTypeOK)
  <1>1. BenchInv => EvaluationTypeOK
    BY DEF BenchInv, BenchTypes, RunRows, Benches, Comparisons, EvaluationTypeOK
  <1> QED
    BY <1>1, BenchInitInv, BenchStepInv, BenchInvHonest, PTL DEF EvaluationSpec
-----------------------------------------------------------------------------
(***************************************************************************)
(* The gates of a release.                                                 *)
(***************************************************************************)
Severities == {"CRITICAL", "MAJOR", "WARNING", "INFO"}
Scorecards ==
    [phase : {"none", "reported", "compared"}, base : {<<>>} \cup [Metrics -> BaseValues],
     cand : {<<>>} \cup [Metrics -> Values \cup {Unset}], found : SUBSET [metric : Metrics, severity : Severities]]
ScoresHold ==
    /\ scores \in Scorecards
    /\ scores.phase = "none" => results = <<>>
    /\ scores.phase # "none" =>
          scores.base \in [Metrics -> BaseValues] /\ scores.cand \in [Metrics -> Values \cup {Unset}]
    /\ scores.found = IF scores.phase = "compared"
                      THEN {[metric |-> m, severity |-> Severity(m)] :
                               m \in {x \in Metrics : scores.cand[x] # Unset /\ Reaches(x, 1)}}
                      ELSE {}

(* A gate judged what it would judge again: what was reported stays, and a *)
(* gate that was given what was found was so when all of it was found.     *)
Given(result) == IF result.given THEN scores.found ELSE {}
Judged(result) ==
    /\ result.gate \in Gates /\ result.given \in BOOLEAN
    /\ result.given => scores.phase = "compared"
    /\ result.decision = Decision(result.gate, Given(result))

GateInv ==
    /\ ScoresHold
    /\ results \in Seq([gate : Gates, given : BOOLEAN, decision : Decisions]) /\ Len(results) <= MaxResults
    /\ \A i \in DOMAIN results : Judged(results[i])
    /\ release \in [status : {"none", "PENDING", "APPROVED", "REJECTED"}, ahead : BOOLEAN]
    /\ release.status # "none" => release.status = Status(results)
    /\ release.ahead => release.status # "none" /\ Status(results) # "REJECTED"
-----------------------------------------------------------------------------
LEMMA ReportedScores ==
  ASSUME scores.base \in [Metrics -> BaseValues], scores.cand \in [Metrics -> Values \cup {Unset}],
         NEW m \in Metrics
  PROVE  /\ scores.base[m] \in Int /\ scores.cand[m] \in Int /\ LossOf(m) \in Int
         /\ Loss(scores.base[m], scores.cand[m], m \in ReportedLower) \in Int
  <1>1. scores.base[m] \in Int /\ scores.cand[m] \in Int
    <2>1. scores.base[m] \in BaseValues /\ scores.cand[m] \in Values \cup {Unset}
      OBVIOUS
    <2>2. BaseValues \subseteq Int /\ Values \cup {Unset} \subseteq Int
      BY GateAssumption
    <2> QED
      BY <2>1, <2>2
  <1>2. \A lower \in BOOLEAN : Loss(scores.base[m], scores.cand[m], lower) \in Int
    BY <1>1 DEF Loss
  <1>3. (m \in ReadLower) \in BOOLEAN /\ (m \in ReportedLower) \in BOOLEAN
    OBVIOUS
  <1> QED
    BY <1>1, <1>2, <1>3 DEF LossOf

(* A gate that passes found every rule kept, and nothing critical.         *)
LEMMA PassedGate ==
  ASSUME NEW gate \in Gates, NEW given, Decision(gate, given) = "PASS"
  PROVE  /\ \A rule \in gate : ~Breaks(rule, given)
         /\ \A finding \in given : finding.severity # "CRITICAL"
  BY DEF Decision

LEMMA FailedGate ==
  ASSUME NEW gate \in Gates, NEW given, Decision(gate, given) # "PASS"
  PROVE  given # {} \/ \E rule \in gate : Breaks(rule, given)
  BY DEF Decision

(* A rule keeps its limits unless it breaks over them.                     *)
LEMMA LimitsOfRules ==
  ASSUME scores.base \in [Metrics -> BaseValues], scores.cand \in [Metrics -> Values \cup {Unset}],
         NEW gate \in Gates, NEW rule \in gate
  PROVE  /\ \A given : ~Breaks(rule, given) => WithinLimits(rule)
         /\ Breaks(rule, {}) => ~WithinLimits(rule)
  <1>1. rule.metric \in Metrics /\ rule.min \in Int /\ rule.max \in Int
    BY GateAssumption
  <1>2. scores.cand[rule.metric] \in Int
    BY <1>1, ReportedScores
  <1>3. ASSUME NEW given, ~Breaks(rule, given)  PROVE WithinLimits(rule)
    BY <1>1, <1>2, <1>3 DEF Breaks, WithinLimits
  <1>4. ASSUME Breaks(rule, {})  PROVE ~WithinLimits(rule)
    BY <1>1, <1>2, <1>4 DEF Breaks, WithinLimits
  <1> QED
    BY <1>3, <1>4

(* What is worse by a tenth is found, and is critical, if the name of the  *)
(* metric says of its direction what the registry says.                    *)
LEMMA TenthIsCritical ==
  ASSUME ScoresHold, scores.phase = "compared", NEW m \in Metrics \ Misread, WorseByTenth(m)
  PROVE  \E finding \in scores.found : finding.severity = "CRITICAL"
  <1>1. scores.base \in [Metrics -> BaseValues] /\ scores.cand \in [Metrics -> Values \cup {Unset}]
    BY DEF ScoresHold
  <1>2. (m \in ReadLower) = (m \in ReportedLower)
    BY DEF Misread
  <1>3. LossOf(m) = Loss(scores.base[m], scores.cand[m], m \in ReportedLower)
    BY <1>2 DEF LossOf, Loss
  <1>4. LossOf(m) \in Int /\ scores.base[m] \in Int
    BY <1>1, ReportedScores
  <1>5. scores.cand[m] # Unset /\ scores.base[m] > 0 /\ 10 * LossOf(m) >= scores.base[m]
    BY <1>3 DEF WorseByTenth
  <1>6. 100 * LossOf(m) >= 10 * scores.base[m] /\ 100 * LossOf(m) >= 1 * scores.base[m]
    BY <1>4, <1>5
  <1>7. Reaches(m, 10) /\ Reaches(m, 1)
    BY <1>5, <1>6 DEF Reaches
  <1>8. [metric |-> m, severity |-> Severity(m)] \in scores.found
    BY <1>5, <1>7 DEF ScoresHold
  <1>9. [metric |-> m, severity |-> Severity(m)].severity = "CRITICAL"
    BY <1>7 DEF Severity
  <1> QED
    BY <1>8, <1>9

LEMMA GateInvEarned == GateInv => ReleasesAreEarned
  <1> SUFFICES ASSUME GateInv  PROVE ReleasesAreEarned
    OBVIOUS
  <1> USE DEF GateInv
  <1>1. ASSUME NEW i \in DOMAIN results
        PROVE  scores.base \in [Metrics -> BaseValues] /\ scores.cand \in [Metrics -> Values \cup {Unset}]
    BY <1>1 DEF ScoresHold
  <1>2. ASSUME release.ahead, NEW i \in DOMAIN results
        PROVE  /\ \A rule \in results[i].gate : WithinLimits(rule)
               /\ results[i].given => \A m \in Metrics \ Misread : ~WorseByTenth(m)
    <2>1. results[i].decision = "PASS"
      BY <1>2 DEF Status
    <2>2. Judged(results[i])
      OBVIOUS
    <2>3. /\ \A rule \in results[i].gate : ~Breaks(rule, Given(results[i]))
          /\ \A finding \in Given(results[i]) : finding.severity # "CRITICAL"
      BY <2>1, <2>2, PassedGate DEF Judged
    <2>4. \A rule \in results[i].gate : WithinLimits(rule)
      BY <1>1, <2>2, <2>3, LimitsOfRules DEF Judged
    <2>5. ASSUME results[i].given, NEW m \in Metrics \ Misread  PROVE ~WorseByTenth(m)
      BY <2>2, <2>3, <2>5, TenthIsCritical DEF Judged, Given
    <2> QED
      BY <2>4, <2>5
  <1>3. ASSUME release.status = "REJECTED"
        PROVE  \E i \in DOMAIN results :
                  \/ \E rule \in results[i].gate : ~WithinLimits(rule)
                  \/ results[i].given /\ scores.found # {}
    <2>1. PICK i \in DOMAIN results : results[i].decision # "PASS"
      BY <1>3 DEF Status
    <2>2. Judged(results[i])
      OBVIOUS
    <2>3. Given(results[i]) # {} \/ \E rule \in results[i].gate : Breaks(rule, Given(results[i]))
      BY <2>1, <2>2, FailedGate DEF Judged
    <2>4. CASE Given(results[i]) # {}
      BY <2>4 DEF Given
    <2>5. CASE Given(results[i]) = {}
      BY <1>1, <2>2, <2>3, <2>5, LimitsOfRules DEF Judged
    <2> QED
      BY <2>4, <2>5
  <1>4. release.status = "PENDING" <=> release.status # "none" /\ results = <<>>
    BY DEF Status
  <1> QED
    BY <1>2, <1>3, <1>4 DEF ReleasesAreEarned
-----------------------------------------------------------------------------
LEMMA GateInitInv == GateInit => GateInv
  BY GateAssumption DEF GateInit, GateInv, ScoresHold, Scorecards, NoScores

(* A gate judges by what was reported, and by what it is given.            *)
LEMMA DecisionStays ==
  ASSUME NEW gate, NEW given, scores'.base = scores.base, scores'.cand = scores.cand
  PROVE  Decision(gate, given)' = Decision(gate, given)
  <1>1. \A rule \in gate : Breaks(rule, given)' = Breaks(rule, given)
    BY DEF Breaks, LossOf
  <1> QED
    BY <1>1 DEF Decision

LEMMA JudgedStays ==
  ASSUME NEW result, Judged(result), scores'.base = scores.base, scores'.cand = scores.cand,
         \/ scores.phase # "compared"
         \/ scores'.phase = scores.phase /\ scores'.found = scores.found
  PROVE  Judged(result)'
  <1>1. CASE result.given
    <2>1. scores.phase = "compared" /\ scores'.phase = "compared" /\ scores'.found = scores.found
      BY <1>1 DEF Judged
    <2>2. PICK given : given = scores.found
      OBVIOUS
    <2>3. Given(result) = given /\ Given(result)' = given
      BY <1>1, <2>1, <2>2 DEF Given
    <2>4. Decision(result.gate, given)' = Decision(result.gate, given)
      BY DecisionStays
    <2> QED
      BY <2>1, <2>3, <2>4 DEF Judged
  <1>2. CASE ~result.given
    <2>1. Given(result) = {} /\ Given(result)' = {}
      BY <1>2 DEF Given
    <2>2. Decision(result.gate, {})' = Decision(result.gate, {})
      BY DecisionStays
    <2> QED
      BY <1>2, <2>1, <2>2 DEF Judged
  <1> QED
    BY <1>1, <1>2

LEMMA ReportKeeps == ASSUME GateInv, Report  PROVE GateInv'
  <1>1. PICK base \in [Metrics -> BaseValues], cand \in [Metrics -> Values \cup {Unset}] :
           scores' = [NoScores EXCEPT !.phase = "reported", !.base = base, !.cand = cand]
    BY DEF Report
  <1>2. scores'.phase = "reported" /\ scores'.base = base /\ scores'.cand = cand /\ scores'.found = {}
    BY <1>1 DEF NoScores
  <1>3. results = <<>> /\ UNCHANGED <<results, release>>
    BY DEF Report, GateInv, ScoresHold
  <1>4. ScoresHold'
    <2>1. scores' = [phase |-> "reported", base |-> base, cand |-> cand, found |-> {}]
      BY <1>1 DEF NoScores
    <2>2. scores' \in Scorecards
      BY <2>1 DEF Scorecards
    <2> QED
      BY <1>2, <2>2 DEF ScoresHold
  <1> QED
    BY <1>3, <1>4 DEF GateInv, Status

LEMMA DetectKeeps == ASSUME GateInv, DetectRegressions  PROVE GateInv'
  <1> DEFINE found == {[metric |-> m, severity |-> Severity(m)] :
                          m \in {x \in Metrics : scores.cand[x] # Unset /\ Reaches(x, 1)}}
  <1>1. scores' = [scores EXCEPT !.phase = "compared", !.found = found] /\ scores.phase = "reported"
    BY DEF DetectRegressions
  <1>2. /\ scores'.base = scores.base /\ scores'.cand = scores.cand
        /\ scores'.phase = "compared" /\ scores'.found = found
    <2>1. scores \in Scorecards
      BY DEF GateInv, ScoresHold
    <2> HIDE DEF found
    <2> QED
      BY <1>1, <2>1 DEF Scorecards
  <1>3. \A m, percent : Reaches(m, percent)' = Reaches(m, percent) /\ Severity(m)' = Severity(m)
    BY <1>2 DEF Reaches, Severity, LossOf
  <1>4. ScoresHold'
    <2>1. scores \in Scorecards
      BY DEF GateInv, ScoresHold
    <2>2. found \subseteq [metric : Metrics, severity : Severities]
      BY DEF Severity, Severities
    <2>3. scores' \in Scorecards
      <3> HIDE DEF found
      <3> QED
        BY <1>1, <2>1, <2>2 DEF Scorecards
    <2> QED
      BY <1>1, <1>2, <1>3, <2>3 DEF ScoresHold, GateInv
  <1>5. \A i \in DOMAIN results : Judged(results[i])'
    <2> SUFFICES ASSUME NEW i \in DOMAIN results  PROVE Judged(results[i])'
      OBVIOUS
    <2>1. UNCHANGED results
      BY DEF DetectRegressions
    <2>2. PICK result : result = results[i] /\ Judged(result)
      BY DEF GateInv
    <2>3. Judged(result)'
      BY <1>1, <1>2, <2>2, JudgedStays
    <2> QED
      BY <2>1, <2>2, <2>3
  <1> QED
    BY <1>4, <1>5 DEF DetectRegressions, GateInv, Status

LEMMA EvaluateGateKeeps ==
  ASSUME GateInv, NEW gate \in Gates, NEW give \in BOOLEAN, EvaluateGate(gate, give)  PROVE GateInv'
  <1> DEFINE given == IF give THEN scores.found ELSE {}
             result == [gate |-> gate, given |-> give, decision |-> Decision(gate, given)]
             Result == [gate : Gates, given : BOOLEAN, decision : Decisions]
  <1>1. /\ results' = Append(results, result) /\ Len(results) < MaxResults /\ UNCHANGED <<scores, release>>
        /\ give => scores.phase = "compared"
        /\ scores.phase # "none" /\ release.status = "none"
    BY DEF EvaluateGate
  <1>2. /\ result.gate = gate /\ result.given = give /\ result.decision = Decision(gate, given)
        /\ Given(result) = given
    BY DEF Given
  <1>3. Judged(result)
    BY <1>1, <1>2 DEF Judged
  <1>4. result \in Result
    BY DEF Decision, Decisions
  <1> HIDE DEF result
  <1>5. results \in Seq(Result)
    BY DEF GateInv
  <1>6. /\ results' \in Seq(Result) /\ Len(results') = Len(results) + 1 /\ Len(results) \in Nat
        /\ \A i \in 1..Len(results) : results'[i] = results[i]
        /\ results'[Len(results) + 1] = result
    BY <1>1, <1>4, <1>5
  <1>7. (\A i \in DOMAIN results : Judged(results[i]))'
    <2> SUFFICES ASSUME NEW i \in 1..(Len(results) + 1)  PROVE Judged(results[i])'
      BY <1>6
    <2>1. PICK one : one = results'[i]
      OBVIOUS
    <2>2. Judged(one)
      <3>1. CASE i = Len(results) + 1
        BY <1>3, <1>6, <2>1, <3>1
      <3>2. CASE i \in 1..Len(results)
        BY <1>5, <1>6, <2>1, <3>2 DEF GateInv
      <3> QED
        BY <1>6, <3>1, <3>2
    <2>3. Judged(one)'
      BY <1>1, <2>2, JudgedStays
    <2> QED
      BY <2>1, <2>3
  <1>8. ScoresHold'
    BY <1>1 DEF GateInv, ScoresHold, Severity, Reaches, LossOf
  <1>9. Len(results') <= MaxResults
    BY <1>1, <1>6, GateAssumption
  <1>10. /\ release' \in [status : {"none", "PENDING", "APPROVED", "REJECTED"}, ahead : BOOLEAN]
         /\ release'.status = "none" /\ ~release'.ahead
    BY <1>1 DEF GateInv
  <1> QED
    BY <1>6, <1>7, <1>8, <1>9, <1>10 DEF GateInv

LEMMA PolicyKeeps == ASSUME GateInv, EvaluateRelease \/ EnforceRelease  PROVE GateInv'
  <1>1. UNCHANGED <<scores, results>>
    BY DEF EvaluateRelease, EnforceRelease
  <1>2. ScoresHold' /\ \A i \in DOMAIN results : Judged(results[i])'
    <2>1. ScoresHold'
      BY <1>1 DEF GateInv, ScoresHold, Severity, Reaches, LossOf
    <2>2. \A result : Judged(result) => Judged(result)'
      BY <1>1, JudgedStays
    <2>3. ASSUME NEW i \in DOMAIN results  PROVE Judged(results[i])'
      <3>1. PICK one : one = results[i] /\ Judged(one)
        BY DEF GateInv
      <3> QED
        BY <1>1, <2>2, <3>1
    <2> QED
      BY <2>1, <2>3
  <1>3. Status(results) \in {"PENDING", "REJECTED", "APPROVED"}
    BY DEF Status
  <1>4. /\ release' \in [status : {"none", "PENDING", "APPROVED", "REJECTED"}, ahead : BOOLEAN]
        /\ release'.status = Status(results)
        /\ release'.ahead => Status(results) # "REJECTED"
    <2>1. CASE EvaluateRelease
      BY <1>3, <2>1 DEF EvaluateRelease, GateInv
    <2>2. CASE EnforceRelease
      BY <2>2 DEF EnforceRelease, GateInv
    <2> QED
      BY <2>1, <2>2
  <1> QED
    BY <1>1, <1>2, <1>3, <1>4 DEF GateInv, Status

LEMMA GateStepInv == GateInv /\ [GateNext]_gateVars => GateInv'
  <1> SUFFICES ASSUME GateInv, [GateNext]_gateVars  PROVE GateInv'
    OBVIOUS
  <1>1. CASE UNCHANGED gateVars
    <2>1. \A result : Judged(result) => Judged(result)'
      BY <1>1, JudgedStays DEF gateVars
    <2>2. ASSUME NEW i \in DOMAIN results  PROVE Judged(results[i])'
      <3>1. PICK one : one = results[i] /\ Judged(one)
        BY DEF GateInv
      <3> QED
        BY <1>1, <2>1, <3>1 DEF gateVars
    <2> QED
      BY <1>1, <2>2 DEF gateVars, GateInv, ScoresHold, Severity, Reaches, LossOf, Status
  <1>2. ASSUME NEW gate \in Gates, NEW give \in BOOLEAN, EvaluateGate(gate, give)  PROVE GateInv'
    BY <1>2, EvaluateGateKeeps
  <1> QED
    BY <1>1, <1>2, ReportKeeps, DetectKeeps, PolicyKeeps DEF GateNext

LEMMA ReleasesStayEarned == GateSpec => [](ReleasesAreEarned /\ GateTypeOK)
  <1>1. GateInv => GateTypeOK
    <2> SUFFICES ASSUME GateInv  PROVE GateTypeOK
      OBVIOUS
    <2>1. scores \in Scorecards
      BY DEF GateInv, ScoresHold
    <2>2. \A finding \in scores.found : finding.severity \in Severities
      BY <2>1 DEF Scorecards
    <2>3. \A i \in DOMAIN results : results[i].decision \in Decisions
      BY DEF GateInv, Judged, Decision, Decisions
    <2> QED
      BY <2>1, <2>2, <2>3 DEF GateInv, GateTypeOK, Scorecards, Severities
  <1> QED
    BY <1>1, GateInitInv, GateStepInv, GateInvEarned, PTL DEF GateSpec

(* Benchmark runs and releases are judged by what was found, whatever the  *)
(* questions of a run do to its session (evaluation/benchmark.py) and      *)
(* whatever gates a release meets (continuous_evaluation/application/      *)
(* quality_gate_service.py, release_service.py).                           *)
THEOREM QualityIsHonest == QualitySpec => []EvaluationsAreHonest
  BY RunsStayHonest, ReleasesStayEarned, PTL DEF QualitySpec, EvaluationsAreHonest
-----------------------------------------------------------------------------
(***************************************************************************)
(* Counting ranks, for the evidence that is chosen from the ranked.        *)
(***************************************************************************)

(* 1..n are n.                                                             *)
LEMMA CountsTo ==
  ASSUME NEW n \in Nat  PROVE IsFiniteSet(1..n) /\ Cardinality(1..n) = n
  <1>1. 1 \in Int /\ n \in Int
    OBVIOUS
  <1>2. IsFiniteSet(1..n) /\ Cardinality(1..n) = (IF 1 > n THEN 0 ELSE n - 1 + 1)
    BY <1>1, FS_Interval
  <1> QED
    BY <1>2

(* Of a numbering that gives every number to one, the first k are k.       *)
LEMMA FirstNumbered ==
  ASSUME NEW S, IsFiniteSet(S), NEW f \in Injection(S, 1..Cardinality(S)), NEW k \in Nat
  PROVE  LET first == {i \in S : f[i] <= k}
             room == IF Cardinality(S) < k THEN Cardinality(S) ELSE k
         IN  /\ IsFiniteSet(first) /\ Cardinality(first) = room
             /\ \A i \in first : f[i] \in 1..room
             /\ \A m \in 1..room : \E i \in first : f[i] = m
  <1> DEFINE n == Cardinality(S)
             first == {i \in S : f[i] <= k}
             room == IF n < k THEN n ELSE k
             g == [i \in first |-> f[i]]
  <1>1. n \in Nat /\ IsFiniteSet(1..n) /\ Cardinality(1..n) = n
    BY FS_CardinalityType, CountsTo
  <1>2. f \in Surjection(S, 1..n)
    BY <1>1, FS_Injection
  <1>3. room \in Nat /\ room <= n /\ room <= k /\ (\A m \in 1..n : m <= k <=> m <= room)
    BY <1>1
  <1>4. IsFiniteSet(1..room) /\ Cardinality(1..room) = room
    BY <1>3, CountsTo
  <1>5. f \in [S -> 1..n] /\ (\A a, b \in S : f[a] = f[b] => a = b) /\ (\A m \in 1..n : \E i \in S : f[i] = m)
    BY <1>2 DEF Injection, Surjection, IsInjective
  <1> HIDE DEF n, room
  <1>6. \A i \in first : f[i] \in 1..room
    BY <1>3, <1>5
  <1>7. \A m \in 1..room : \E i \in first : f[i] = m
    <2> SUFFICES ASSUME NEW m \in 1..room  PROVE \E i \in first : f[i] = m
      OBVIOUS
    <2>1. m \in 1..n /\ m <= k
      BY <1>1, <1>3
    <2>2. PICK i \in S : f[i] = m
      BY <1>5, <2>1
    <2>3. i \in first
      BY <2>1, <2>2
    <2> QED
      BY <2>2, <2>3
  <1>9. g \in Injection(first, 1..room) /\ g \in Surjection(first, 1..room)
    BY <1>5, <1>6, <1>7 DEF Injection, Surjection, IsInjective
  <1> HIDE DEF g, first
  <1>10. IsFiniteSet(first) /\ Cardinality(first) = room
    BY <1>4, <1>9, FS_Injection
  <1> QED
    BY <1>6, <1>7, <1>10 DEF first, room, n

(* Counting up to a number numbers what is counted.                        *)
LEMMA CountingNumbers ==
  ASSUME NEW S \in SUBSET Nat, IsFiniteSet(S)
  PROVE  [i \in S |-> Cardinality(UpToRank(S, i))] \in Injection(S, 1..Cardinality(S))
  <1> DEFINE f == [i \in S |-> Cardinality(UpToRank(S, i))]
  <1>1. \A i \in S : UpToRank(S, i) \subseteq S /\ i \in UpToRank(S, i)
    BY DEF UpToRank
  <1>2. \A i \in S : IsFiniteSet(UpToRank(S, i)) /\ Cardinality(UpToRank(S, i)) \in 1..Cardinality(S)
    <2> SUFFICES ASSUME NEW i \in S
                 PROVE  IsFiniteSet(UpToRank(S, i)) /\ Cardinality(UpToRank(S, i)) \in 1..Cardinality(S)
      OBVIOUS
    <2>1. IsFiniteSet(UpToRank(S, i)) /\ Cardinality(UpToRank(S, i)) <= Cardinality(S)
      BY <1>1, FS_Subset
    <2>2. Cardinality(UpToRank(S, i)) \in Nat /\ Cardinality(UpToRank(S, i)) # 0
      BY <1>1, <2>1, FS_CardinalityType, FS_EmptySet
    <2>3. Cardinality(S) \in Nat
      BY FS_CardinalityType
    <2> QED
      BY <2>1, <2>2, <2>3
  <1>3. \A a, b \in S : a < b => Cardinality(UpToRank(S, a)) # Cardinality(UpToRank(S, b))
    <2> SUFFICES ASSUME NEW a \in S, NEW b \in S, a < b
                 PROVE  Cardinality(UpToRank(S, a)) # Cardinality(UpToRank(S, b))
      OBVIOUS
    <2>1. UpToRank(S, a) \subseteq UpToRank(S, b) /\ b \in UpToRank(S, b) /\ b \notin UpToRank(S, a)
      <3>1. a \in Nat /\ b \in Nat /\ a <= b /\ b <= b /\ ~(b <= a)
        OBVIOUS
      <3>2. \A j \in S : j <= a => j <= b
        BY <3>1
      <3> QED
        BY <3>1, <3>2 DEF UpToRank
    <2> QED
      BY <1>2, <2>1, FS_Subset
  <1>4. \A a, b \in S : f[a] = f[b] => a = b
    <2> SUFFICES ASSUME NEW a \in S, NEW b \in S, f[a] = f[b]  PROVE a = b
      OBVIOUS
    <2>1. a \in Nat /\ b \in Nat
      OBVIOUS
    <2>2. Cardinality(UpToRank(S, a)) = Cardinality(UpToRank(S, b))
      OBVIOUS
    <2>3. ~(a < b) /\ ~(b < a)
      BY <1>3, <2>2
    <2> QED
      BY <2>1, <2>3
  <1>5. f \in [S -> 1..Cardinality(S)]
    BY <1>2
  <1> HIDE DEF f
  <1> QED
    BY <1>4, <1>5 DEF f, Injection, IsInjective

(* The first k of a set of numbers are k, if it has so many.               *)
LEMMA FirstCounted ==
  ASSUME NEW S \in SUBSET Nat, IsFiniteSet(S), NEW k \in Nat
  PROVE  LET first == {i \in S : Cardinality(UpToRank(S, i)) <= k}
         IN  IsFiniteSet(first) /\ Cardinality(first) = (IF Cardinality(S) < k THEN Cardinality(S) ELSE k)
  <1> DEFINE f == [i \in S |-> Cardinality(UpToRank(S, i))]
             room == IF Cardinality(S) < k THEN Cardinality(S) ELSE k
  <1>1. f \in Injection(S, 1..Cardinality(S))
    BY CountingNumbers
  <1>2. {i \in S : f[i] <= k} = {i \in S : Cardinality(UpToRank(S, i)) <= k}
    OBVIOUS
  <1> HIDE DEF f
  <1>3. IsFiniteSet({i \in S : f[i] <= k}) /\ Cardinality({i \in S : f[i] <= k}) = room
    BY <1>1, FirstNumbered
  <1> QED
    BY <1>2, <1>3


(* Of two parts, one counted after the other, every number numbers one.    *)
LEMMA PartsNumber ==
  ASSUME NEW S \in SUBSET Nat, IsFiniteSet(S), NEW F \in SUBSET S,
         NEW p \in [S -> Nat],
         \A i \in F : p[i] = Cardinality(UpToRank(F, i)),
         \A i \in S \ F : p[i] = Cardinality(F) + Cardinality(UpToRank(S \ F, i))
  PROVE  /\ p \in Injection(S, 1..Cardinality(S))
         /\ \A i \in F : p[i] <= Cardinality(F)
         /\ \A i \in S \ F : p[i] > Cardinality(F)
  <1> DEFINE D == S \ F
             m == Cardinality(F)
             d == Cardinality(D)
             f == [i \in F |-> Cardinality(UpToRank(F, i))]
             g == [i \in D |-> Cardinality(UpToRank(D, i))]
  <1>1. IsFiniteSet(F) /\ IsFiniteSet(D) /\ m \in Nat /\ d \in Nat
    BY FS_Subset, FS_CardinalityType
  <1>2. Cardinality(S) = m + d
    <2>1. F \cup D = S /\ F \cap D = {}
      OBVIOUS
    <2>2. Cardinality(F \cup D) = Cardinality(F) + Cardinality(D) - Cardinality(F \cap D)
      BY <1>1, FS_Union
    <2> QED
      BY <1>1, <2>1, <2>2, FS_EmptySet
  <1>3. f \in Injection(F, 1..m) /\ g \in Injection(D, 1..d)
    BY <1>1, CountingNumbers
  <1>4. (\A i \in F : p[i] = f[i]) /\ (\A i \in D : p[i] = m + g[i])
    OBVIOUS
  <1> HIDE DEF D, m, d, f, g
  <1>5. (\A i \in F : f[i] \in 1..m) /\ (\A i \in D : g[i] \in 1..d)
    BY <1>3 DEF Injection
  <1>6. (\A a, b \in F : f[a] = f[b] => a = b) /\ (\A a, b \in D : g[a] = g[b] => a = b)
    BY <1>3 DEF Injection, IsInjective
  <1>7. \A i \in F : p[i] \in 1..m
    BY <1>4, <1>5
  <1>8. \A i \in D : p[i] \in (m + 1)..(m + d)
    BY <1>1, <1>4, <1>5
  <1>9. \A i \in S : p[i] \in 1..(m + d)
    <2>1. \A x \in 1..m : x \in 1..(m + d)
      BY <1>1
    <2>2. \A x \in (m + 1)..(m + d) : x \in 1..(m + d)
      BY <1>1
    <2> QED
      BY <1>7, <1>8, <2>1, <2>2 DEF D
  <1>10. \A a, b \in S : p[a] = p[b] => a = b
    <2>1. \A x \in 1..m, y \in (m + 1)..(m + d) : x # y
      BY <1>1
    <2>2. \A a \in F, b \in D : p[a] # p[b]
      BY <1>7, <1>8, <2>1
    <2>3. \A a, b \in F : p[a] = p[b] => a = b
      BY <1>4, <1>6
    <2>4. \A a, b \in D : p[a] = p[b] => g[a] = g[b]
      BY <1>1, <1>4, <1>5
    <2> QED
      BY <1>6, <2>2, <2>3, <2>4 DEF D
  <1>11. p \in [S -> 1..(m + d)]
    BY <1>9
  <1>12. p \in Injection(S, 1..(m + d))
    BY <1>10, <1>11 DEF Injection, IsInjective
  <1>13. (\A i \in F : p[i] <= m) /\ (\A i \in D : p[i] > m)
    BY <1>1, <1>7, <1>8
  <1> QED
    BY <1>2, <1>12, <1>13 DEF D, m


(* The ranks of the ranked of an answer.                                   *)
LEMMA RanksAreNumbers ==
  ASSUME NEW ranked \in Retrieved
  PROVE  /\ Good(ranked) \in SUBSET Nat /\ IsFiniteSet(Good(ranked))
         /\ Distinct(ranked) \subseteq Good(ranked) /\ WithinShare(ranked) \subseteq Distinct(ranked)
         /\ \A some \in SUBSET Good(ranked) : some \in SUBSET Nat /\ IsFiniteSet(some)
  <1>1. Len(ranked) \in Nat /\ DOMAIN ranked = 1..Len(ranked)
    BY AnalystAssumption
  <1>2. Good(ranked) \subseteq 1..Len(ranked) /\ 1..Len(ranked) \subseteq Nat
    BY <1>1 DEF Good
  <1>3. IsFiniteSet(1..Len(ranked))
    BY <1>1, CountsTo
  <1>4. IsFiniteSet(Good(ranked)) /\ Good(ranked) \in SUBSET Nat
    BY <1>2, <1>3, FS_Subset
  <1> QED
    BY <1>4, FS_Subset DEF Distinct, WithinShare

(* A good chunk is there where it first comes.                             *)
LEMMA GoodComesFirst ==
  ASSUME NEW ranked \in Retrieved, NEW c \in Good(ranked)
  PROVE  \E i \in Distinct(ranked) : ranked[i].chunk = ranked[c].chunk
  <1> DEFINE same == {i \in Good(ranked) : ranked[i].chunk = ranked[c].chunk}
  <1>1. same \in SUBSET Nat /\ IsFiniteSet(same) /\ c \in same
    BY RanksAreNumbers
  <1>2. PICK i \in same : \A j \in same : i <= j
    BY <1>1, NatHasLeast
  <1>3. \A j \in Good(ranked) : j < i => ranked[j].chunk # ranked[i].chunk
    <2> SUFFICES ASSUME NEW j \in Good(ranked), j < i, j \in same  PROVE FALSE
      BY <1>2
    <2>1. i <= j /\ i \in Nat /\ j \in Nat
      BY <1>1, <1>2
    <2> QED
      BY <2>1
  <1> QED
    BY <1>2, <1>3 DEF Distinct

LEMMA DistinctDiffer ==
  ASSUME NEW ranked \in Retrieved, NEW a \in Distinct(ranked), NEW b \in Distinct(ranked),
         ranked[a].chunk = ranked[b].chunk
  PROVE  a = b
  <1>1. a \in Good(ranked) /\ b \in Good(ranked) /\ a \in Nat /\ b \in Nat
    BY RanksAreNumbers
  <1>2. ~(a < b) /\ ~(b < a)
    BY <1>1 DEF Distinct
  <1> QED
    BY <1>1, <1>2

(* As many ranked as there are ranks, if none comes twice.                 *)
LEMMA ChunksCount ==
  ASSUME NEW ranked \in Retrieved, NEW some \in SUBSET Distinct(ranked)
  PROVE  Cardinality(ChunksOf(ranked, some)) = Cardinality(some)
  <1> DEFINE f == [i \in some |-> ranked[i].chunk]
  <1>1. IsFiniteSet(some)
    BY RanksAreNumbers
  <1>2. f \in Injection(some, ChunksOf(ranked, some)) /\ f \in Surjection(some, ChunksOf(ranked, some))
    BY DistinctDiffer DEF ChunksOf, Injection, Surjection, IsInjective
  <1> HIDE DEF f
  <1> QED
    BY <1>1, <1>2, FS_Surjection

LEMMA PlacesNumber ==
  ASSUME NEW ranked \in Retrieved
  PROVE  LET p == [i \in Distinct(ranked) |-> EvidenceNumber(ranked, i)] IN
         /\ p \in Injection(Distinct(ranked), 1..Cardinality(Distinct(ranked)))
         /\ \A i \in WithinShare(ranked) : EvidenceNumber(ranked, i) <= Cardinality(WithinShare(ranked))
         /\ \A i \in Distinct(ranked) \ WithinShare(ranked) : EvidenceNumber(ranked, i) > Cardinality(WithinShare(ranked))
  <1> DEFINE S == Distinct(ranked)
             F == WithinShare(ranked)
             p == [i \in S |-> EvidenceNumber(ranked, i)]
  <1>1. S \in SUBSET Nat /\ IsFiniteSet(S) /\ F \in SUBSET S
    BY RanksAreNumbers
  <1>2. \A some \in SUBSET S, i \in S :
           Cardinality(some) \in Nat /\ Cardinality(UpToRank(some, i)) \in Nat
    <2> SUFFICES ASSUME NEW some \in SUBSET S, NEW i \in S
                 PROVE  Cardinality(some) \in Nat /\ Cardinality(UpToRank(some, i)) \in Nat
      OBVIOUS
    <2>1. UpToRank(some, i) \subseteq some
      BY DEF UpToRank
    <2>2. IsFiniteSet(some) /\ IsFiniteSet(UpToRank(some, i))
      BY <1>1, <2>1, FS_Subset
    <2> QED
      BY <2>2, FS_CardinalityType
  <1>3. (\A i \in F : EvidenceNumber(ranked, i) = Cardinality(UpToRank(F, i)))
        /\ (\A i \in S \ F : EvidenceNumber(ranked, i) = Cardinality(F) + Cardinality(UpToRank(S \ F, i)))
    BY DEF EvidenceNumber
  <1>4. p \in [S -> Nat]
    <2>1. \A i \in F : EvidenceNumber(ranked, i) \in Nat
      BY <1>1, <1>2, <1>3
    <2>2. \A i \in S \ F : Cardinality(F) \in Nat /\ Cardinality(UpToRank(S \ F, i)) \in Nat
      BY <1>1, <1>2
    <2>3. \A i \in S \ F : EvidenceNumber(ranked, i) \in Nat
      BY <1>3, <2>2
    <2> QED
      BY <2>1, <2>3
  <1>5. \A i \in S : p[i] = EvidenceNumber(ranked, i)
    OBVIOUS
  <1> HIDE DEF p
  <1>6. (\A i \in F : p[i] = Cardinality(UpToRank(F, i)))
        /\ (\A i \in S \ F : p[i] = Cardinality(F) + Cardinality(UpToRank(S \ F, i)))
    BY <1>1, <1>3, <1>5
  <1> HIDE DEF S, F
  <1>7. /\ p \in Injection(S, 1..Cardinality(S))
        /\ \A i \in F : p[i] <= Cardinality(F)
        /\ \A i \in S \ F : p[i] > Cardinality(F)
    BY <1>1, <1>4, <1>6, PartsNumber
  <1> QED
    BY <1>1, <1>5, <1>7 DEF p, S, F


(* Of a document as many ranked are free as there are, or as may be.       *)
LEMMA FreeOfDocument ==
  ASSUME NEW ranked \in Retrieved, NEW d
  PROVE  LET all == OfDocument(ranked, Distinct(ranked), d)
             free == OfDocument(ranked, WithinShare(ranked), d)
         IN  /\ IsFiniteSet(all) /\ IsFiniteSet(free)
             /\ Cardinality(free) = (IF Cardinality(all) < MaxPerDocument THEN Cardinality(all) ELSE MaxPerDocument)
  <1> DEFINE all == OfDocument(ranked, Distinct(ranked), d)
             free == OfDocument(ranked, WithinShare(ranked), d)
  <1>1. all \in SUBSET Distinct(ranked) /\ free \in SUBSET Distinct(ranked)
    BY RanksAreNumbers DEF OfDocument
  <1>2. all \in SUBSET Nat /\ IsFiniteSet(all) /\ IsFiniteSet(free)
    BY <1>1, RanksAreNumbers
  <1>3. free = {i \in all : Cardinality(UpToRank(all, i)) <= MaxPerDocument}
    BY DEF OfDocument, WithinShare
  <1>4. MaxPerDocument \in Nat
    BY AnalystAssumption
  <1> HIDE DEF all, free
  <1>5. Cardinality(free) = (IF Cardinality(all) < MaxPerDocument THEN Cardinality(all) ELSE MaxPerDocument)
    BY <1>2, <1>3, <1>4, FirstCounted
  <1> QED
    BY <1>2, <1>5 DEF all, free

(* Whatever was retrieved, the evidence is chosen well.                    *)
LEMMA EvidenceStaysDiverse ==
  ASSUME NEW ranked \in Retrieved
  PROVE  EvidenceIsDiverse(ranked)
  <1> DEFINE chosen == SelectEvidence(ranked)
             ids == Cardinality(ChunksOf(ranked, Good(ranked)))
             all == Distinct(ranked)
             free == WithinShare(ranked)
             p == [i \in all |-> EvidenceNumber(ranked, i)]
             Held(d) == Cardinality(OfDocument(ranked, chosen, d))
  <1>1. /\ free \subseteq all /\ all \subseteq Good(ranked) /\ all \in SUBSET Nat /\ IsFiniteSet(all)
        /\ IsFiniteSet(free)
    BY RanksAreNumbers
  <1>2. EvidenceTopK \in Nat /\ MaxPerDocument \in Nat
    BY AnalystAssumption
  <1>3. p \in Injection(all, 1..Cardinality(all))
        /\ (\A i \in free : EvidenceNumber(ranked, i) <= Cardinality(free))
        /\ (\A i \in all \ free : EvidenceNumber(ranked, i) > Cardinality(free))
    BY PlacesNumber
  <1>4. chosen = {i \in all : p[i] <= EvidenceTopK} /\ chosen = {i \in all : EvidenceNumber(ranked, i) <= EvidenceTopK}
        /\ \A i \in all : p[i] = EvidenceNumber(ranked, i)
    BY DEF SelectEvidence
  <1>5. ids = Cardinality(all)
    <2>1. ChunksOf(ranked, Good(ranked)) = ChunksOf(ranked, all)
      BY <1>1, GoodComesFirst DEF ChunksOf
    <2> QED
      BY <2>1, ChunksCount
  <1> HIDE DEF p, all, free, chosen, ids
  <1>6. LET room == IF Cardinality(all) < EvidenceTopK THEN Cardinality(all) ELSE EvidenceTopK
        IN  /\ IsFiniteSet(chosen) /\ Cardinality(chosen) = room
            /\ \A i \in chosen : p[i] \in 1..room
            /\ \A m \in 1..room : \E i \in chosen : p[i] = m
    <2> DEFINE first == {i \in all : p[i] <= EvidenceTopK}
               room == IF Cardinality(all) < EvidenceTopK THEN Cardinality(all) ELSE EvidenceTopK
    <2>1. /\ IsFiniteSet(first) /\ Cardinality(first) = room
          /\ \A i \in first : p[i] \in 1..room
          /\ \A m \in 1..room : \E i \in first : p[i] = m
      <3>1. IsFiniteSet(all) /\ p \in Injection(all, 1..Cardinality(all)) /\ EvidenceTopK \in Nat
        BY <1>1, <1>2, <1>3
      <3> QED
        BY <3>1, FirstNumbered
    <2>2. chosen = first
      BY <1>4
    <2> HIDE DEF first, room
    <2>3. /\ IsFiniteSet(chosen) /\ Cardinality(chosen) = room
          /\ \A i \in chosen : p[i] \in 1..room
          /\ \A m \in 1..room : \E i \in chosen : p[i] = m
      BY <2>1, <2>2
    <2> QED
      BY <2>3 DEF room
  <1>7. Cardinality(chosen) = (IF ids < EvidenceTopK THEN ids ELSE EvidenceTopK)
        /\ {EvidenceNumber(ranked, i) : i \in chosen} = 1..Cardinality(chosen)
    <2>1. \A i \in chosen : p[i] = EvidenceNumber(ranked, i)
      BY <1>4
    <2> QED
      BY <1>5, <1>6, <2>1
  <1>8. Cardinality(ChunksOf(ranked, chosen)) = Cardinality(chosen)
    BY <1>4, ChunksCount DEF all
  <1>9. ASSUME NEW i \in chosen, NEW c \in Good(ranked),
               Held(ranked[i].document) > MaxPerDocument,
               ranked[c].chunk \notin ChunksOf(ranked, chosen)
        PROVE  Held(ranked[c].document) >= MaxPerDocument
    <2> DEFINE held(d) == OfDocument(ranked, chosen, d)
               freed(d) == OfDocument(ranked, free, d)
    <2>1. \A d : IsFiniteSet(held(d)) /\ IsFiniteSet(freed(d)) /\ Cardinality(freed(d)) <= MaxPerDocument
                 /\ Cardinality(held(d)) \in Nat /\ Cardinality(freed(d)) \in Nat
      <3> SUFFICES ASSUME NEW d
                   PROVE  IsFiniteSet(held(d)) /\ IsFiniteSet(freed(d)) /\ Cardinality(freed(d)) <= MaxPerDocument
                          /\ Cardinality(held(d)) \in Nat /\ Cardinality(freed(d)) \in Nat
        OBVIOUS
      <3>1. held(d) \subseteq chosen /\ freed(d) \subseteq free
        BY DEF OfDocument
      <3>2. IsFiniteSet(held(d)) /\ IsFiniteSet(freed(d))
        BY <1>1, <1>6, <3>1, FS_Subset
      <3>3. Cardinality(held(d)) \in Nat /\ Cardinality(freed(d)) \in Nat
        BY <3>2, FS_CardinalityType
      <3>4. Cardinality(freed(d)) <= MaxPerDocument
        <4>1. IsFiniteSet(OfDocument(ranked, all, d))
              /\ Cardinality(freed(d)) = (IF Cardinality(OfDocument(ranked, all, d)) < MaxPerDocument
                                          THEN Cardinality(OfDocument(ranked, all, d)) ELSE MaxPerDocument)
          BY FreeOfDocument DEF all, free
        <4>2. Cardinality(OfDocument(ranked, all, d)) \in Nat
          BY <4>1, FS_CardinalityType
        <4> QED
          BY <1>2, <4>1, <4>2
      <3> QED
        BY <3>2, <3>3, <3>4
    <2>2. Held(ranked[i].document) = Cardinality(held(ranked[i].document))
          /\ Held(ranked[c].document) = Cardinality(held(ranked[c].document))
      BY DEF chosen
    <2>3. PICK j \in chosen : j \notin free
      <3>1. ~(held(ranked[i].document) \subseteq freed(ranked[i].document))
        <4> SUFFICES ASSUME held(ranked[i].document) \subseteq freed(ranked[i].document)  PROVE FALSE
          OBVIOUS
        <4> DEFINE h == held(ranked[i].document)
                   f == freed(ranked[i].document)
        <4>1. IsFiniteSet(f) /\ h \in SUBSET f /\ Cardinality(f) <= MaxPerDocument
              /\ Cardinality(h) > MaxPerDocument /\ Cardinality(h) \in Nat /\ Cardinality(f) \in Nat
          BY <1>9, <2>1, <2>2
        <4> HIDE DEF h, f
        <4>2. Cardinality(h) <= Cardinality(f)
          BY <4>1, FS_Subset
        <4> QED
          BY <1>2, <4>1, <4>2
      <3> QED
        BY <3>1 DEF OfDocument
    <2>4. free \subseteq chosen
      <3>1. EvidenceNumber(ranked, j) <= EvidenceTopK /\ EvidenceNumber(ranked, j) > Cardinality(free) /\ j \in all
        BY <1>3, <1>4, <2>3
      <3>2. Cardinality(free) \in Nat /\ Cardinality(all) \in Nat
        BY <1>1, FS_CardinalityType
      <3>3. \A x \in all : EvidenceNumber(ranked, x) \in 1..Cardinality(all)
        BY <1>3, <1>4 DEF Injection
      <3>4. \A x \in free : EvidenceNumber(ranked, x) <= EvidenceTopK
        BY <1>1, <1>2, <1>3, <3>1, <3>2, <3>3
      <3> QED
        BY <1>1, <1>4, <3>4
    <2>5. PICK x \in all : ranked[x].chunk = ranked[c].chunk
      BY GoodComesFirst DEF all
    <2>6. x \notin free /\ ranked[x].document = ranked[c].document
      <3>1. x \notin chosen
        BY <1>9, <2>5 DEF ChunksOf
      <3>2. x \in DOMAIN ranked /\ c \in DOMAIN ranked
        BY <1>1, <2>5 DEF Good
      <3> QED
        BY <2>4, <2>5, <3>1, <3>2, AnalystAssumption
    <2>7. Cardinality(freed(ranked[c].document)) = MaxPerDocument
      <3> DEFINE same == OfDocument(ranked, all, ranked[c].document)
      <3>1. same \subseteq all
        BY DEF OfDocument
      <3>2. IsFiniteSet(same) /\ UpToRank(same, x) \subseteq same
        BY <1>1, <3>1, FS_Subset DEF UpToRank
      <3>3. ~(Cardinality(UpToRank(same, x)) <= MaxPerDocument)
        BY <2>5, <2>6 DEF free, all, WithinShare
      <3>4. Cardinality(UpToRank(same, x)) <= Cardinality(same) /\ IsFiniteSet(UpToRank(same, x))
        BY <3>2, FS_Subset
      <3>5. Cardinality(UpToRank(same, x)) \in Nat /\ Cardinality(same) \in Nat
        BY <3>2, <3>4, FS_CardinalityType
      <3>6. Cardinality(freed(ranked[c].document))
               = (IF Cardinality(same) < MaxPerDocument THEN Cardinality(same) ELSE MaxPerDocument)
        BY FreeOfDocument DEF all, free
      <3> HIDE DEF same
      <3> QED
        BY <1>2, <3>3, <3>4, <3>5, <3>6
    <2>8. freed(ranked[c].document) \subseteq held(ranked[c].document)
      BY <2>4 DEF OfDocument
    <2>9. Cardinality(freed(ranked[c].document)) <= Cardinality(held(ranked[c].document))
      BY <2>1, <2>8, FS_Subset
    <2> QED
      BY <1>2, <2>1, <2>2, <2>7, <2>9
  <1> QED
    BY <1>7, <1>8, <1>9 DEF EvidenceIsDiverse, chosen, ids
-----------------------------------------------------------------------------
(***************************************************************************)
(* A question to the analyst.                                              *)
(***************************************************************************)
QuestionStages == {"new", "running", "recording", "answered", "timed out"}
Plans == {{}, {"sql"}, {"rag"}, {"sql", "rag"}}
SqlStates == {"off", "working", "queried", "done", "failed"}
RagStates == {"off", "working", "retrieved", "generated", "done", "failed"}
SqlBranches == [state : SqlStates, rows : Nat]
RagBranches == [state : RagStates, chunks : Retrieved \cup {<<>>}, evidence : Nat, cites : SUBSET Nat,
                insufficient : BOOLEAN]
AnalysisRows == [run : {"none", "running", "completed", "partial"}, steps : SUBSET (SqlSteps \cup {RagStep, Synthesis})]

(* The rows of a run that has not ended: no synthesis, no step without it. *)
EarlyRows ==
    {rows \in AnalysisRows : /\ rows.run \in {"none", "running"} /\ Synthesis \notin rows.steps
                             /\ rows.steps # {} => rows.run # "none"}

AnalystTypes ==
    /\ question \in [stage : QuestionStages, plan : Plans]
    /\ sql \in SqlBranches /\ rag \in RagBranches
    /\ db \in AnalysisRows /\ session \in [rows : AnalysisRows, ok : BOOLEAN]

(* A branch has a state if it is planned, and chunks if it retrieved them. *)
BranchesArePlanned ==
    /\ question.stage = "new" => sql.state = "off" /\ rag.state = "off"
    /\ question.stage # "new" =>
          /\ question.plan # {}
          /\ sql.state = "off" <=> "sql" \notin question.plan
          /\ rag.state = "off" <=> "rag" \notin question.plan
    /\ rag.state = "retrieved" => rag.chunks \in Retrieved

(* The answer, once there is one.                                          *)
AnswerIsGrounded ==
    question.stage \in {"recording", "answered"} =>
       /\ reply.tags \subseteq reply.evidence /\ (reply.grounded => reply.tags # {})
       /\ reply.degraded <=> "failed" \in {sql.state, rag.state}
       /\ reply.partial <=> {"done", "failed"} \subseteq {sql.state, rag.state}

(* The rows, before and after the answer.                                  *)
RowsAreEarly ==
    /\ question.stage # "answered" => db \in EarlyRows /\ session.rows \in EarlyRows
    /\ db.run \in {"completed", "partial"} <=> Synthesis \in db.steps
    /\ Synthesis \in db.steps => (db.run = "partial" <=> reply.degraded)
    /\ db.steps # {} => db.run # "none"

AnalystInv == AnalystTypes /\ BranchesArePlanned /\ AnswerIsGrounded /\ RowsAreEarly
-----------------------------------------------------------------------------
LEMMA NoRowsAreEarly == NoRows \in EarlyRows /\ [NoRows EXCEPT !.run = "running"] \in EarlyRows
  BY DEF NoRows, EarlyRows, AnalysisRows

LEMMA AnalystInitInv == AnalystInit => AnalystInv
  <1> SUFFICES ASSUME AnalystInit  PROVE AnalystInv
    OBVIOUS
  <1>1. question = [stage |-> "new", plan |-> {}] /\ sql = [state |-> "off", rows |-> 0]
        /\ rag = [state |-> "off", chunks |-> <<>>, evidence |-> 0, cites |-> {}, insufficient |-> FALSE]
        /\ db = NoRows /\ session = [rows |-> NoRows, ok |-> TRUE]
    BY DEF AnalystInit
  <1>2. NoRows \in AnalysisRows /\ NoRows \in EarlyRows
    BY NoRowsAreEarly DEF EarlyRows
  <1>3. AnalystTypes
    BY <1>1, <1>2 DEF AnalystTypes, QuestionStages, Plans, SqlBranches, SqlStates, RagBranches, RagStates
  <1>4. BranchesArePlanned /\ AnswerIsGrounded
    BY <1>1 DEF BranchesArePlanned, AnswerIsGrounded
  <1>5. RowsAreEarly
    BY <1>1, <1>2 DEF RowsAreEarly, NoRows
  <1> QED
    BY <1>3, <1>4, <1>5 DEF AnalystInv

(* What a step that is no answer leaves intact.                            *)
LEMMA BranchGoesOn ==
  ASSUME AnalystInv, question.stage \in {"new", "running"},
         question' \in [stage : QuestionStages, plan : Plans], question'.stage \in {"running", "timed out"},
         sql' \in SqlBranches, rag' \in RagBranches, question'.plan # {},
         sql'.state = "off" <=> "sql" \notin question'.plan, rag'.state = "off" <=> "rag" \notin question'.plan,
         rag'.state = "retrieved" => rag'.chunks \in Retrieved,
         db' \in EarlyRows, session' \in [rows : EarlyRows, ok : BOOLEAN]
  PROVE  AnalystInv'
  <1>1. EarlyRows \subseteq AnalysisRows
    BY DEF EarlyRows
  <1>2. AnalystTypes'
    BY <1>1 DEF AnalystTypes
  <1>3. BranchesArePlanned'
    BY DEF BranchesArePlanned
  <1>4. AnswerIsGrounded'
    BY DEF AnswerIsGrounded
  <1>5. RowsAreEarly'
    BY DEF RowsAreEarly, EarlyRows
  <1> QED
    BY <1>2, <1>3, <1>4, <1>5 DEF AnalystInv

LEMMA WithStaysEarly ==
  ASSUME session.rows \in EarlyRows, NEW steps \in SUBSET (SqlSteps \cup {RagStep}), CanInsert(steps)
  PROVE  With(steps) \in EarlyRows
  <1>1. Synthesis \notin SqlSteps \cup {RagStep}
    BY DEF Synthesis, SqlSteps, RagStep
  <1>2. session.rows \in AnalysisRows /\ session.rows.run # "none"
    BY DEF EarlyRows, CanInsert
  <1>3. With(steps) = [session.rows EXCEPT !.steps = session.rows.steps \cup steps]
    BY DEF With
  <1>4. With(steps) \in AnalysisRows /\ With(steps).run = session.rows.run
        /\ With(steps).steps = session.rows.steps \cup steps
    BY <1>2, <1>3 DEF AnalysisRows
  <1> QED
    BY <1>1, <1>2, <1>4 DEF EarlyRows

LEMMA BeginAnalysisKeeps == ASSUME AnalystInv, BeginAnalysis  PROVE AnalystInv'
  <1>1. AnalystTypes /\ question.stage = "new" /\ sql.state = "off" /\ rag.state = "off" /\ db \in EarlyRows
    BY DEF AnalystInv, BranchesArePlanned, RowsAreEarly, BeginAnalysis
  <1>2. PICK plan \in {{"sql"}, {"rag"}, {"sql", "rag"}} :
           /\ question' = [stage |-> "running", plan |-> plan]
           /\ sql' = IF "sql" \in plan THEN [sql EXCEPT !.state = "working"] ELSE sql
           /\ rag' = IF "rag" \in plan THEN [rag EXCEPT !.state = "working"] ELSE rag
    BY DEF BeginAnalysis
  <1>3. question' \in [stage : QuestionStages, plan : Plans] /\ question'.stage = "running" /\ question'.plan = plan
        /\ plan # {}
    BY <1>2 DEF QuestionStages, Plans
  <1>4. sql' \in SqlBranches /\ (sql'.state = "off" <=> "sql" \notin plan)
    BY <1>1, <1>2 DEF AnalystTypes, SqlBranches, SqlStates
  <1>5. rag' \in RagBranches /\ (rag'.state = "off" <=> "rag" \notin plan) /\ rag'.state # "retrieved"
    BY <1>1, <1>2 DEF AnalystTypes, RagBranches, RagStates
  <1>6. session' \in [rows : EarlyRows, ok : BOOLEAN] /\ db' = db
    <2> DEFINE running == [NoRows EXCEPT !.run = "running"]
    <2>1. session' \in {[rows |-> running, ok |-> TRUE], [rows |-> NoRows, ok |-> FALSE]} /\ db' = db
      BY DEF BeginAnalysis
    <2>2. running \in EarlyRows /\ NoRows \in EarlyRows
      BY NoRowsAreEarly
    <2> HIDE DEF running
    <2>3. [rows |-> running, ok |-> TRUE] \in [rows : EarlyRows, ok : BOOLEAN]
          /\ [rows |-> NoRows, ok |-> FALSE] \in [rows : EarlyRows, ok : BOOLEAN]
      BY <2>2
    <2> QED
      BY <2>1, <2>3
  <1> QED
    BY <1>1, <1>3, <1>4, <1>5, <1>6, BranchGoesOn

(* A step of a branch while the question runs.                             *)
LEMMA BranchStepKeeps ==
  ASSUME AnalystInv, question.stage = "running", question' = question,
         sql' \in SqlBranches, sql'.state = "off" <=> sql.state = "off",
         rag' \in RagBranches, rag'.state = "off" <=> rag.state = "off",
         rag'.state = "retrieved" => rag'.chunks \in Retrieved,
         db' \in EarlyRows, session' \in [rows : EarlyRows, ok : BOOLEAN]
  PROVE  AnalystInv'
  <1>1. question \in [stage : QuestionStages, plan : Plans] /\ question.plan # {}
        /\ (sql.state = "off" <=> "sql" \notin question.plan)
        /\ (rag.state = "off" <=> "rag" \notin question.plan)
    BY DEF AnalystInv, AnalystTypes, BranchesArePlanned
  <1>2. question' \in [stage : QuestionStages, plan : Plans] /\ question'.stage = "running" /\ question'.plan # {}
        /\ (sql'.state = "off" <=> "sql" \notin question'.plan)
        /\ (rag'.state = "off" <=> "rag" \notin question'.plan)
    BY <1>1
  <1> QED
    BY <1>2, BranchGoesOn

LEMMA RunningIsEarly ==
  ASSUME AnalystInv, question.stage \in {"running", "recording"}
  PROVE  /\ db \in EarlyRows /\ session.rows \in EarlyRows /\ session \in [rows : EarlyRows, ok : BOOLEAN]
         /\ [session EXCEPT !.ok = FALSE] \in [rows : EarlyRows, ok : BOOLEAN]
         /\ [rows |-> db, ok |-> TRUE] \in [rows : EarlyRows, ok : BOOLEAN]
         /\ sql \in SqlBranches /\ rag \in RagBranches
         /\ rag.state = "retrieved" => rag.chunks \in Retrieved
  <1>1. session \in [rows : AnalysisRows, ok : BOOLEAN] /\ db \in EarlyRows /\ session.rows \in EarlyRows
    BY DEF AnalystInv, AnalystTypes, RowsAreEarly
  <1>2. session \in [rows : EarlyRows, ok : BOOLEAN]
    BY <1>1
  <1>3. [session EXCEPT !.ok = FALSE] \in [rows : EarlyRows, ok : BOOLEAN]
    BY <1>2
  <1>4. [rows |-> db, ok |-> TRUE] \in [rows : EarlyRows, ok : BOOLEAN]
    BY <1>1
  <1> QED
    BY <1>1, <1>2, <1>3, <1>4 DEF AnalystInv, AnalystTypes, BranchesArePlanned


LEMMA SqlFailsKeeps == ASSUME AnalystInv, SqlFails  PROVE AnalystInv'
  <1>1. question.stage = "running" /\ question' = question /\ rag' = rag /\ db' = db
        /\ sql.state \in {"working", "queried"} /\ sql' = [sql EXCEPT !.state = "failed"]
        /\ session' \in {session, [session EXCEPT !.ok = FALSE]}
    BY DEF SqlFails
  <1>2. sql' \in SqlBranches /\ sql'.state = "failed"
    BY <1>1, RunningIsEarly DEF SqlBranches, SqlStates
  <1>3. db' \in EarlyRows /\ session' \in [rows : EarlyRows, ok : BOOLEAN]
    BY <1>1, RunningIsEarly
  <1> QED
    BY <1>1, <1>2, <1>3, RunningIsEarly, BranchStepKeeps

LEMMA RagFailsKeeps == ASSUME AnalystInv, RagFails  PROVE AnalystInv'
  <1>1. question.stage = "running" /\ question' = question /\ sql' = sql /\ db' = db
        /\ rag.state \in {"working", "retrieved", "generated"}
        /\ rag' = [rag EXCEPT !.state = "failed", !.chunks = <<>>]
        /\ session' \in {session, [session EXCEPT !.ok = FALSE]}
    BY DEF RagFails
  <1>2. rag' \in RagBranches /\ rag'.state = "failed"
    BY <1>1, RunningIsEarly DEF RagBranches, RagStates
  <1>3. db' \in EarlyRows /\ session' \in [rows : EarlyRows, ok : BOOLEAN]
    BY <1>1, RunningIsEarly
  <1> QED
    BY <1>1, <1>2, <1>3, RunningIsEarly, BranchStepKeeps

LEMMA SqlQueriesKeeps == ASSUME AnalystInv, SqlQueries  PROVE AnalystInv'
  <1>1. question.stage = "running" /\ question' = question /\ rag' = rag /\ db' = db /\ session' = session
        /\ sql.state = "working" /\ \E n \in 0..MaxRows : sql' = [state |-> "queried", rows |-> n]
    BY DEF SqlQueries
  <1>2. sql' \in SqlBranches /\ sql'.state = "queried"
    BY <1>1 DEF SqlBranches, SqlStates
  <1> QED
    BY <1>1, <1>2, RunningIsEarly, BranchStepKeeps

LEMMA SqlRecordsKeeps == ASSUME AnalystInv, SqlRecords  PROVE AnalystInv'
  <1>1. question.stage = "running" /\ question' = question /\ rag' = rag
        /\ sql.state = "queried" /\ sql' = [sql EXCEPT !.state = "done"]
        /\ \/ CanInsert(SqlSteps) /\ db' = With(SqlSteps) /\ session' = [rows |-> With(SqlSteps), ok |-> TRUE]
           \/ session' = [rows |-> db, ok |-> TRUE] /\ db' = db
    BY DEF SqlRecords, Commit, Rollback
  <1>2. sql' \in SqlBranches /\ sql'.state = "done"
    BY <1>1, RunningIsEarly DEF SqlBranches, SqlStates
  <1>3. db' \in EarlyRows /\ session' \in [rows : EarlyRows, ok : BOOLEAN]
    <2>1. CanInsert(SqlSteps) => With(SqlSteps) \in EarlyRows
      BY <1>1, RunningIsEarly, WithStaysEarly
    <2>2. db \in EarlyRows
      BY <1>1, RunningIsEarly
    <2>3. CASE CanInsert(SqlSteps) /\ db' = With(SqlSteps) /\ session' = [rows |-> With(SqlSteps), ok |-> TRUE]
      BY <2>1, <2>3
    <2>4. CASE session' = [rows |-> db, ok |-> TRUE] /\ db' = db
      BY <2>2, <2>4
    <2> QED
      BY <1>1, <2>3, <2>4
  <1> QED
    BY <1>1, <1>2, <1>3, RunningIsEarly, BranchStepKeeps

LEMMA RagRetrievesKeeps == ASSUME AnalystInv, RagRetrieves  PROVE AnalystInv'
  <1>1. question.stage = "running" /\ question' = question /\ sql' = sql /\ db' = db /\ session' = session
        /\ rag.state = "working" /\ \E s \in Retrieved : rag' = [rag EXCEPT !.state = "retrieved", !.chunks = s]
    BY DEF RagRetrieves
  <1>2. rag' \in RagBranches /\ rag'.state = "retrieved" /\ rag'.chunks \in Retrieved
    BY <1>1, RunningIsEarly DEF RagBranches, RagStates
  <1> QED
    BY <1>1, <1>2, RunningIsEarly, BranchStepKeeps

LEMMA RagGeneratesKeeps == ASSUME AnalystInv, RagGenerates  PROVE AnalystInv'
  <1> DEFINE found == Cardinality(SelectEvidence(rag.chunks))
  <1>1. question.stage = "running" /\ question' = question /\ sql' = sql /\ db' = db /\ session' = session
        /\ rag.state = "retrieved"
    BY DEF RagGenerates
  <1>2. rag' \in RagBranches /\ rag'.state \in {"done", "generated"}
    <2>1. rag \in RagBranches
      BY <1>1, RunningIsEarly
    <2>2. CASE \E signal \in BOOLEAN : rag' = [rag EXCEPT !.state = "done", !.chunks = <<>>, !.insufficient = signal]
      BY <2>1, <2>2 DEF RagBranches, RagStates
    <2>3. CASE \E n \in 1..found, signal \in BOOLEAN : \E cites \in SUBSET (1..n) :
                  rag' = [state |-> "generated", chunks |-> <<>>, evidence |-> n, cites |-> cites,
                          insufficient |-> signal]
      <3>1. PICK n \in 1..found, signal \in BOOLEAN : \E cites \in SUBSET (1..n) :
                  rag' = [state |-> "generated", chunks |-> <<>>, evidence |-> n, cites |-> cites,
                          insufficient |-> signal]
        BY <2>3
      <3>2. PICK cites \in SUBSET (1..n) :
                  rag' = [state |-> "generated", chunks |-> <<>>, evidence |-> n, cites |-> cites,
                          insufficient |-> signal]
        BY <3>1
      <3> HIDE DEF found
      <3>3. n \in Nat /\ cites \in SUBSET Nat
        OBVIOUS
      <3> QED
        BY <3>2, <3>3 DEF RagBranches, RagStates
    <2> QED
      BY <2>2, <2>3 DEF RagGenerates
  <1> QED
    BY <1>1, <1>2, RunningIsEarly, BranchStepKeeps

LEMMA RagRecordsKeeps == ASSUME AnalystInv, RagRecords  PROVE AnalystInv'
  <1>1. question.stage = "running" /\ question' = question /\ sql' = sql /\ db' = db
        /\ rag.state = "generated" /\ rag' = [rag EXCEPT !.state = "done"]
        /\ \/ CanInsert({RagStep}) /\ session' = [session EXCEPT !.rows = With({RagStep})]
           \/ session' = [session EXCEPT !.ok = FALSE]
    BY DEF RagRecords
  <1>2. rag' \in RagBranches /\ rag'.state = "done"
    BY <1>1, RunningIsEarly DEF RagBranches, RagStates
  <1>3. session' \in [rows : EarlyRows, ok : BOOLEAN]
    <2>1. CanInsert({RagStep}) => With({RagStep}) \in EarlyRows
      BY <1>1, RunningIsEarly, WithStaysEarly
    <2>2. session \in [rows : EarlyRows, ok : BOOLEAN] /\ [session EXCEPT !.ok = FALSE] \in [rows : EarlyRows, ok : BOOLEAN]
      BY <1>1, RunningIsEarly
    <2>3. \A rows \in EarlyRows : [session EXCEPT !.rows = rows] \in [rows : EarlyRows, ok : BOOLEAN]
      BY <2>2
    <2> QED
      BY <1>1, <2>1, <2>2, <2>3
  <1> QED
    BY <1>1, <1>2, <1>3, RunningIsEarly, BranchStepKeeps

LEMMA AnalysisTimesOutKeeps == ASSUME AnalystInv, AnalysisTimesOut  PROVE AnalystInv'
  <1>1. question.stage = "running" /\ question' = [question EXCEPT !.stage = "timed out"] /\ db' = db
        /\ sql' = (IF sql.state \in Ended \cup {"off"} THEN sql ELSE [sql EXCEPT !.state = "failed"])
        /\ rag' = (IF rag.state \in Ended \cup {"off"} THEN rag
                   ELSE [rag EXCEPT !.state = "failed", !.chunks = <<>>])
        /\ session' = [rows |-> db, ok |-> TRUE]
    BY DEF AnalysisTimesOut, Rollback
  <1>2. question \in [stage : QuestionStages, plan : Plans] /\ question.plan # {}
        /\ (sql.state = "off" <=> "sql" \notin question.plan)
        /\ (rag.state = "off" <=> "rag" \notin question.plan)
    BY <1>1 DEF AnalystInv, AnalystTypes, BranchesArePlanned
  <1>3. question' \in [stage : QuestionStages, plan : Plans] /\ question'.stage = "timed out"
        /\ question'.plan = question.plan
    BY <1>1, <1>2 DEF QuestionStages
  <1>4. sql' \in SqlBranches /\ (sql'.state = "off" <=> sql.state = "off")
    BY <1>1, RunningIsEarly DEF SqlBranches, SqlStates
  <1>5. rag' \in RagBranches /\ (rag'.state = "off" <=> rag.state = "off") /\ rag'.state # "retrieved"
    BY <1>1, RunningIsEarly DEF RagBranches, RagStates, Ended
  <1>6. db' \in EarlyRows /\ session' \in [rows : EarlyRows, ok : BOOLEAN]
    BY <1>1, RunningIsEarly
  <1>7. question'.plan # {} /\ (sql'.state = "off" <=> "sql" \notin question'.plan)
        /\ (rag'.state = "off" <=> "rag" \notin question'.plan)
    BY <1>2, <1>3, <1>4, <1>5
  <1> QED
    BY <1>1, <1>3, <1>4, <1>5, <1>6, <1>7, BranchGoesOn


(* What is cited is merged, and what is grounded is cited.                 *)
LEMMA MergedIsCited ==
  ASSUME sql \in SqlBranches, rag \in RagBranches, Merged # {}, ~(rag.state = "done" /\ rag.insufficient)
  PROVE  StripTags(Tags) # {}
  <1>1. MaxEvidence \in Nat /\ MaxEvidence >= 1
    BY AnalystAssumption
  <1>2. sql.rows \in Nat /\ rag.evidence \in Nat
    BY DEF SqlBranches, RagBranches
  <1>3. CASE sql.state = "done"
    <2>1. <<"S", 1>> \in Merged
      BY <1>1, <1>2, <1>3 DEF Merged
    <2>2. <<"S", 1>> \in Tags
      BY <1>3, <2>1 DEF Tags
    <2> QED
      BY <2>1, <2>2 DEF StripTags
  <1>4. CASE sql.state # "done"
    <2> DEFINE r == IF rag.state = "done" THEN {<<"R", i>> : i \in 1..rag.evidence} ELSE {}
    <2>1. Merged = {e \in r : e[2] <= MaxEvidence}
      <3>1. Merged = {e \in {} : e[2] <= MaxEvidence} \cup {e \in r : Cardinality({}) + e[2] <= MaxEvidence}
        BY <1>4 DEF Merged
      <3>2. \A e \in r : Cardinality({}) + e[2] = e[2]
        BY <1>2, FS_EmptySet
      <3> QED
        BY <3>1, <3>2
    <2>2. PICK e \in r : TRUE
      BY <2>1
    <2>3. rag.state = "done" /\ 1 \in 1..rag.evidence
      BY <1>2, <2>2
    <2>4. <<"R", 1>> \in Merged
      BY <1>1, <2>1, <2>3
    <2>5. <<"R", 1>> \in Tags
      BY <2>3, <2>4 DEF Tags
    <2> QED
      BY <2>4, <2>5 DEF StripTags
  <1> QED
    BY <1>3, <1>4

LEMMA SynthesizeKeeps == ASSUME AnalystInv, Synthesize  PROVE AnalystInv'
  <1>1. /\ question.stage = "running" /\ {sql.state, rag.state} \subseteq Ended \cup {"off"}
        /\ question' = [question EXCEPT !.stage = "recording"]
        /\ sql' = sql /\ rag' = rag /\ db' = db /\ session' = session
    BY DEF Synthesize
  <1>2. /\ reply'.tags = StripTags(Tags) /\ reply'.evidence = Merged
        /\ reply'.grounded <=> (Merged # {} /\ ~(rag.state = "done" /\ rag.insufficient))
        /\ reply'.degraded <=> Failed # {}
        /\ reply'.partial <=> Failed \notin {{}, question.plan}
    BY DEF Synthesize
  <1>3. AnalystTypes /\ question.plan # {}
        /\ (sql.state = "off" <=> "sql" \notin question.plan)
        /\ (rag.state = "off" <=> "rag" \notin question.plan) /\ rag.state # "retrieved"
    BY <1>1 DEF AnalystInv, BranchesArePlanned, Ended
  <1>4. question' \in [stage : QuestionStages, plan : Plans] /\ question'.stage = "recording"
        /\ question'.plan = question.plan
    BY <1>1, <1>3 DEF AnalystTypes, QuestionStages
  <1>5. question.plan \in Plans
    BY <1>3 DEF AnalystTypes
  <1>6. reply'.tags \subseteq reply'.evidence /\ (reply'.grounded => reply'.tags # {})
    BY <1>2, <1>3, MergedIsCited DEF StripTags, AnalystTypes
  <1>7. (reply'.degraded <=> "failed" \in {sql.state, rag.state})
        /\ (reply'.partial <=> {"done", "failed"} \subseteq {sql.state, rag.state})
    <2>1. "sql" \in Failed <=> sql.state = "failed"
      BY <1>3 DEF Failed
    <2>2. "rag" \in Failed <=> rag.state = "failed"
      BY <1>3 DEF Failed
    <2>3. Failed \subseteq question.plan /\ question.plan \subseteq {"sql", "rag"}
      BY <1>5 DEF Failed, Plans
    <2>4. Failed # {} <=> "failed" \in {sql.state, rag.state}
      BY <2>1, <2>2, <2>3
    <2>5. sql.state \in {"off", "done", "failed"} /\ rag.state \in {"off", "done", "failed"}
      BY <1>1 DEF Ended
    <2>6. Failed = question.plan <=> ("sql" \in question.plan => sql.state = "failed")
                                     /\ ("rag" \in question.plan => rag.state = "failed")
      BY <2>1, <2>2, <2>3
    <2>7. Failed \notin {{}, question.plan} <=> {"done", "failed"} \subseteq {sql.state, rag.state}
      BY <1>3, <2>4, <2>5, <2>6
    <2> QED
      BY <1>2, <2>4, <2>7
  <1>8. AnalystTypes'
    BY <1>1, <1>3, <1>4 DEF AnalystTypes
  <1>9. BranchesArePlanned'
    BY <1>1, <1>3, <1>4 DEF BranchesArePlanned
  <1>10. AnswerIsGrounded'
    BY <1>1, <1>6, <1>7 DEF AnswerIsGrounded
  <1>11. RowsAreEarly'
    <2>1. db \in EarlyRows /\ session.rows \in EarlyRows
      BY <1>1, RunningIsEarly
    <2> QED
      BY <1>1, <1>4, <2>1 DEF RowsAreEarly, EarlyRows
  <1> QED
    BY <1>8, <1>9, <1>10, <1>11 DEF AnalystInv

LEMMA RecordAnswerKeeps == ASSUME AnalystInv, RecordAnswer  PROVE AnalystInv'
  <1> DEFINE ended == IF reply.degraded THEN "partial" ELSE "completed"
             all == With({Synthesis})
  <1>1. /\ question.stage = "recording" /\ question' = [question EXCEPT !.stage = "answered"]
        /\ sql' = sql /\ rag' = rag /\ reply' = reply
        /\ \/ /\ CanInsert({Synthesis}) /\ db' = [all EXCEPT !.run = ended]
              /\ session' = [rows |-> [all EXCEPT !.run = ended], ok |-> TRUE]
           \/ session' = [rows |-> db, ok |-> TRUE] /\ db' = db
    BY DEF RecordAnswer, Commit, Rollback
  <1>2. AnalystTypes /\ BranchesArePlanned /\ AnswerIsGrounded
    BY DEF AnalystInv
  <1>3. question' \in [stage : QuestionStages, plan : Plans] /\ question'.stage = "answered"
        /\ question'.plan = question.plan
    BY <1>1, <1>2 DEF AnalystTypes, QuestionStages
  <1>4. db \in EarlyRows /\ session.rows \in AnalysisRows
    BY <1>1, RunningIsEarly DEF EarlyRows
  <1>5. all \in AnalysisRows /\ all.steps = session.rows.steps \cup {Synthesis}
    BY <1>4 DEF With, AnalysisRows
  <1>6. ended \in {"partial", "completed"} /\ (ended = "partial" <=> reply.degraded)
    OBVIOUS
  <1> HIDE DEF all, ended
  <1>7. [all EXCEPT !.run = ended] \in AnalysisRows /\ [all EXCEPT !.run = ended].run = ended
        /\ Synthesis \in [all EXCEPT !.run = ended].steps
    BY <1>5, <1>6 DEF AnalysisRows
  <1>8. db' \in AnalysisRows /\ session' \in [rows : AnalysisRows, ok : BOOLEAN]
    <2>1. db \in AnalysisRows
      BY <1>4 DEF EarlyRows
    <2> DEFINE final == [all EXCEPT !.run = ended]
    <2>2. final \in AnalysisRows
      BY <1>7
    <2>3. \/ db' = final /\ session' = [rows |-> final, ok |-> TRUE]
          \/ db' = db /\ session' = [rows |-> db, ok |-> TRUE]
      BY <1>1
    <2> HIDE DEF final
    <2>4. \A rows \in AnalysisRows : [rows |-> rows, ok |-> TRUE] \in [rows : AnalysisRows, ok : BOOLEAN]
      OBVIOUS
    <2> QED
      BY <2>1, <2>2, <2>3, <2>4
  <1>9. /\ db'.run \in {"completed", "partial"} <=> Synthesis \in db'.steps
        /\ Synthesis \in db'.steps => (db'.run = "partial" <=> reply.degraded)
        /\ db'.steps # {} => db'.run # "none"
    <2>1. CASE db' = [all EXCEPT !.run = ended]
      BY <1>6, <1>7, <2>1
    <2>2. CASE db' = db
      BY <1>4, <2>2 DEF EarlyRows
    <2> QED
      BY <1>1, <2>1, <2>2
  <1>10. AnalystTypes'
    BY <1>1, <1>2, <1>3, <1>8 DEF AnalystTypes
  <1>11. BranchesArePlanned' /\ AnswerIsGrounded'
    BY <1>1, <1>2, <1>3 DEF BranchesArePlanned, AnswerIsGrounded
  <1>12. RowsAreEarly'
    BY <1>1, <1>3, <1>9 DEF RowsAreEarly
  <1> QED
    BY <1>10, <1>11, <1>12 DEF AnalystInv

LEMMA AnalystStepInv == AnalystInv /\ [AnalystNext]_analystVars => AnalystInv'
  <1> SUFFICES ASSUME AnalystInv, [AnalystNext]_analystVars  PROVE AnalystInv'
    OBVIOUS
  <1>1. CASE UNCHANGED analystVars
    BY <1>1 DEF analystVars, AnalystInv, AnalystTypes, BranchesArePlanned, AnswerIsGrounded, RowsAreEarly
  <1>2. CASE AnalystNext
    BY <1>2, BeginAnalysisKeeps, SqlFailsKeeps, SqlQueriesKeeps, SqlRecordsKeeps, RagFailsKeeps, RagRetrievesKeeps,
       RagGeneratesKeeps, RagRecordsKeeps, AnalysisTimesOutKeeps, SynthesizeKeeps, RecordAnswerKeeps DEF AnalystNext
  <1> QED
    BY <1>1, <1>2

LEMMA AnalystInvGrounds == AnalystInv => AnalystTypeOK /\ AnswersAreGrounded
  <1> SUFFICES ASSUME AnalystInv  PROVE AnalystTypeOK /\ AnswersAreGrounded
    OBVIOUS
  <1>1. AnalystTypeOK
    <2>1. /\ question.stage \in QuestionStages /\ sql.state \in SqlStates /\ rag.state \in RagStates
          /\ db \in AnalysisRows /\ session.rows \in AnalysisRows
      BY DEF AnalystInv, AnalystTypes, SqlBranches, RagBranches
    <2> QED
      BY <2>1 DEF AnalystTypeOK, QuestionStages, SqlStates, RagStates, AnalysisRows, Ended
  <1>2. rag.state = "retrieved" => EvidenceIsDiverse(rag.chunks)
    BY EvidenceStaysDiverse DEF AnalystInv, BranchesArePlanned
  <1>3. Synthesis \in db.steps => question.stage = "answered"
    BY DEF AnalystInv, RowsAreEarly, EarlyRows
  <1> QED
    BY <1>1, <1>2, <1>3 DEF AnalystInv, AnswersAreGrounded, AnswerIsGrounded, RowsAreEarly

(* Whatever is retrieved, generated and cited, and wherever a branch fails *)
(* or times out: the evidence is chosen well, the answer cites what was    *)
(* returned, and the run is ended only with its answer.                    *)
THEOREM AnswersStayGrounded == AnalystSpec => [](AnalystTypeOK /\ AnswersAreGrounded)
  BY AnalystInitInv, AnalystStepInv, AnalystInvGrounds, PTL DEF AnalystSpec
-----------------------------------------------------------------------------
(***************************************************************************)
(* A search of the chunks.  What is sorted has an order: an ordering of a  *)
(* finite set can be listed without contradicting it, and such a list has  *)
(* each element once.                                                      *)
(***************************************************************************)
Orders(R, S) ==
    /\ \A a \in S : <<a, a>> \notin R
    /\ \A a, b, c \in S : <<a, b>> \in R /\ <<b, c>> \in R => <<a, c>> \in R

Along(s, R) == \A i, j \in DOMAIN s : i < j => <<s[j], s[i]>> \notin R

Enumerates(s, S) ==
    /\ s \in Seq(S) /\ Len(s) = Cardinality(S) /\ DOMAIN s = 1..Len(s)
    /\ \A i, j \in DOMAIN s : s[i] = s[j] => i = j
    /\ ToSet(s) = S

LEMMA OrderHasFirst ==
  ASSUME NEW S, IsFiniteSet(S), S # {}, NEW R, Orders(R, S)
  PROVE  \E m \in S : \A a \in S : <<a, m>> \notin R
  <1> DEFINE Below(c) == {a \in S : <<a, c>> \in R}
             Sizes == {Cardinality(Below(c)) : c \in S}
  <1>1. \A c \in S : IsFiniteSet(Below(c)) /\ Cardinality(Below(c)) \in Nat
    BY FS_Subset, FS_CardinalityType
  <1>2. Sizes \subseteq Nat /\ Sizes # {}
    BY <1>1
  <1>3. PICK n \in Sizes : \A k \in Sizes : n <= k
    BY <1>2, NatHasLeast
  <1>4. PICK m \in S : n = Cardinality(Below(m))
    BY <1>3
  <1>5. ASSUME NEW a \in S, <<a, m>> \in R  PROVE FALSE
    <2>1. Below(a) \in SUBSET Below(m)
      BY <1>5 DEF Orders
    <2>2. a \in Below(m) /\ a \notin Below(a)
      BY <1>5 DEF Orders
    <2>3. Cardinality(Below(a)) <= Cardinality(Below(m)) /\ Cardinality(Below(a)) # Cardinality(Below(m))
      BY <1>1, <2>1, <2>2, FS_Subset
    <2>4. Cardinality(Below(a)) \in Sizes
      OBVIOUS
    <2>5. n <= Cardinality(Below(a))
      BY <1>3, <2>4
    <2>6. Cardinality(Below(a)) \in Nat /\ Cardinality(Below(m)) \in Nat
      BY <1>1
    <2> HIDE DEF Below, Sizes
    <2> QED
      BY <1>4, <2>3, <2>5, <2>6
  <1> QED
    BY <1>5

LEMMA ListHasAll ==
  ASSUME NEW S, IsFiniteSet(S), NEW s \in SetToSeqs(S)
  PROVE  Enumerates(s, S)
  <1>1. Cardinality(S) \in Nat
    BY FS_CardinalityType
  <1> DEFINE D == 1..Cardinality(S)
  <1>2. s \in [D -> S] /\ \A i, j \in D : i # j => s[i] # s[j]
    BY DEF SetToSeqs
  <1>3. s \in Seq(S) /\ Len(s) = Cardinality(S) /\ DOMAIN s = 1..Len(s)
    BY <1>1, <1>2
  <1>4. IsFiniteSet(D) /\ Cardinality(D) = Cardinality(S)
    BY <1>1, FS_Interval
  <1>5. s \in Injection(D, S)
    BY <1>2 DEF Injection, IsInjective
  <1>6. s \in Surjection(D, S)
    <2> HIDE DEF D
    <2> QED
      BY <1>4, <1>5, FS_Injection
  <1>7. \A c \in S : \E i \in D : s[i] = c
    BY <1>6 DEF Surjection
  <1>8. ToSet(s) = S
    BY <1>2, <1>7 DEF ToSet
  <1> QED
    BY <1>2, <1>3, <1>8 DEF Enumerates

LEMMA ListExists ==
  ASSUME NEW S, IsFiniteSet(S), NEW R, Orders(R, S)
  PROVE  \E s \in SetToSeqs(S) : Along(s, R)
  <1> DEFINE Listed(T) == \E s \in SetToSeqs(T) : Along(s, R)
             Fails == {n \in Nat : \E T \in SUBSET S : Cardinality(T) = n /\ ~Listed(T)}
  <1>1. \A T \in SUBSET S : IsFiniteSet(T) /\ Cardinality(T) \in Nat
    BY FS_Subset, FS_CardinalityType
  <1>2. ASSUME Fails # {}  PROVE FALSE
    <2>1. PICK n \in Fails : \A k \in Fails : n <= k
      BY <1>2, NatHasLeast
    <2>2. PICK T \in SUBSET S : Cardinality(T) = n /\ ~Listed(T)
      BY <2>1
    <2>3. T # {}
      <3>1. <<>> \in SetToSeqs({}) /\ Along(<<>>, R)
        BY FS_EmptySet DEF SetToSeqs, Along
      <3> QED
        BY <2>2, <3>1
    <2>4. Orders(R, T)
      BY DEF Orders
    <2>5. PICK m \in T : \A a \in T : <<a, m>> \notin R
      BY <1>1, <2>3, <2>4, OrderHasFirst
    <2>6. Cardinality(T \ {m}) = n - 1 /\ n - 1 \in Nat /\ n \in Nat
      <3>1. IsFiniteSet(T) /\ m \in T /\ Cardinality(T) = n /\ n \in Nat
        BY <1>1, <2>2
      <3>2. n # 0
        BY <2>3, <3>1, FS_EmptySet
      <3>3. Cardinality(T \ {m}) = n - 1
        BY <3>1, FS_RemoveElement
      <3> QED
        BY <3>1, <3>2, <3>3
    <2>7. Listed(T \ {m})
      <3>1. n - 1 \notin Fails
        BY <2>1, <2>6
      <3> HIDE DEF Listed
      <3> QED
        BY <2>6, <3>1
    <2>8. PICK t \in SetToSeqs(T \ {m}) : Along(t, R)
      BY <2>7
    <2> DEFINE D == 1..n
               s == [i \in D |-> IF i = 1 THEN m ELSE t[i - 1]]
    <2>9. t \in [1..(n - 1) -> T \ {m}] /\ \A i, j \in 1..(n - 1) : i # j => t[i] # t[j]
      BY <2>6, <2>8 DEF SetToSeqs
    <2>10. \A i \in D : i # 1 => i - 1 \in 1..(n - 1)
      BY <2>6
    <2>11. s \in [D -> T]
      BY <2>9, <2>10
    <2>12. \A i, j \in D : i # j => s[i] # s[j]
      BY <2>9, <2>10
    <2>13. \A i, j \in D : i < j => <<s[j], s[i]>> \notin R
      <3> SUFFICES ASSUME NEW i \in D, NEW j \in D, i < j  PROVE <<s[j], s[i]>> \notin R
        OBVIOUS
      <3>1. j # 1 /\ j - 1 \in 1..(n - 1) /\ s[j] = t[j - 1] /\ s[j] \in T
        BY <2>10, <2>11
      <3>2. CASE i = 1
        <4>1. s[i] = m
          BY <3>2
        <4> QED
          BY <2>5, <3>1, <4>1
      <3>3. CASE i # 1
        <4>1. i - 1 \in 1..(n - 1) /\ s[i] = t[i - 1] /\ i - 1 < j - 1
          BY <2>10, <3>3
        <4>2. DOMAIN t = 1..(n - 1)
          BY <2>9
        <4> QED
          BY <2>8, <3>1, <4>1, <4>2 DEF Along
      <3> QED
        BY <3>2, <3>3
    <2>14. s \in SetToSeqs(T) /\ DOMAIN s = D
      <3> HIDE DEF s
      <3> QED
        BY <2>2, <2>11, <2>12 DEF SetToSeqs
    <2>15. Along(s, R)
      <3> HIDE DEF s, D
      <3> QED
        BY <2>13, <2>14 DEF Along
    <2> QED
      BY <2>2, <2>14, <2>15
  <1> HIDE DEF Fails
  <1>3. Fails = {}
    BY <1>2
  <1> SUFFICES ASSUME ~Listed(S)  PROVE FALSE
    OBVIOUS
  <1>4. Cardinality(S) \in Fails
    BY <1>1 DEF Fails
  <1> QED
    BY <1>3, <1>4

(* In such a list what comes before another thing stands before it.        *)
LEMMA ListInOrder ==
  ASSUME NEW S, NEW R, NEW s, Enumerates(s, S), Along(s, R), NEW a \in S, NEW b \in S, <<a, b>> \in R, a # b
  PROVE  RankIn(s, a) \in DOMAIN s /\ RankIn(s, b) \in DOMAIN s /\ RankIn(s, a) < RankIn(s, b)
  <1>1. \A c \in S : \E i \in DOMAIN s : s[i] = c
    BY DEF Enumerates, ToSet
  <1>2. \A c \in S : RankIn(s, c) \in DOMAIN s /\ s[RankIn(s, c)] = c
    BY <1>1 DEF RankIn
  <1>3. PICK i \in DOMAIN s : i = RankIn(s, a) /\ s[i] = a
    BY <1>2
  <1>4. PICK j \in DOMAIN s : j = RankIn(s, b) /\ s[j] = b
    BY <1>2
  <1>5. i \in Nat /\ j \in Nat
    BY DEF Enumerates
  <1>6. ~(j < i)
    BY <1>3, <1>4 DEF Along
  <1>7. i # j
    BY <1>3, <1>4
  <1> QED
    BY <1>3, <1>4, <1>5, <1>6, <1>7
-----------------------------------------------------------------------------
(* The list of an index, and one fused of two: chunks, each once.          *)
IsList(s, n) == s \in Seq(Chunks) /\ Len(s) <= n /\ \A i, j \in DOMAIN s : s[i] = s[j] => i = j

LEMMA RankIs ==
  ASSUME NEW s \in Seq(Chunks), NEW c \in ToSet(s)
  PROVE  RankIn(s, c) \in 1..Len(s) /\ s[RankIn(s, c)] = c
  <1>1. \E i \in DOMAIN s : s[i] = c
    BY DEF ToSet
  <1>2. RankIn(s, c) \in DOMAIN s /\ s[RankIn(s, c)] = c
    BY <1>1 DEF RankIn
  <1> QED
    BY <1>2

LEMMA ListedAreFinite ==
  ASSUME NEW s, NEW n, IsList(s, n)
  PROVE  /\ IsFiniteSet(ToSet(s)) /\ ToSet(s) \subseteq Chunks
         /\ Cardinality(ToSet(s)) \in Nat /\ Cardinality(ToSet(s)) <= Len(s)
  <1>1. Len(s) \in Nat /\ DOMAIN s = 1..Len(s) /\ \A i \in 1..Len(s) : s[i] \in Chunks
    BY DEF IsList
  <1>2. IsFiniteSet(1..Len(s)) /\ Cardinality(1..Len(s)) = Len(s)
    <2>1. PICK k \in Nat : k = Len(s)
      BY <1>1
    <2>2. 1 \in Int /\ k \in Int
      BY <2>1
    <2>3. IsFiniteSet(1..k) /\ Cardinality(1..k) = IF 1 > k THEN 0 ELSE k - 1 + 1
      BY <2>2, FS_Interval
    <2> QED
      BY <2>1, <2>3
  <1>3. s \in Surjection(1..Len(s), ToSet(s))
    <2>1. s = [i \in 1..Len(s) |-> s[i]]
      BY <1>1 DEF IsList
    <2>2. s \in [1..Len(s) -> ToSet(s)]
      BY <1>1, <2>1 DEF ToSet
    <2> QED
      BY <1>1, <2>2 DEF Surjection, ToSet
  <1>4. IsFiniteSet(ToSet(s)) /\ Cardinality(ToSet(s)) <= Len(s)
    BY <1>2, <1>3, FS_Surjection
  <1>5. ToSet(s) \subseteq Chunks
    BY <1>1 DEF ToSet
  <1> QED
    BY <1>4, <1>5, FS_CardinalityType

LEMMA SharesAre ==
  /\ Unit \div (60 + 1) = 3906 /\ Unit \div (60 + 2) = 3843 /\ Unit \div (60 + 3) = 3782
  /\ Unit \div (60 + 4) = 3722 /\ Unit \div (60 + 5) = 3665 /\ Unit \div (60 + 6) = 3610
  BY DEF Unit

LEMMA SharesFall ==
  ASSUME NEW n \in 1..6, NEW m \in 1..6
  PROVE  /\ Unit \div (60 + n) \in Nat \ {0}
         /\ n < m => Unit \div (60 + n) > Unit \div (60 + m)
  <1>1. n \in {1, 2, 3, 4, 5, 6} /\ m \in {1, 2, 3, 4, 5, 6}
    OBVIOUS
  <1>2. Unit \div (60 + n) \in Nat \ {0}
    BY <1>1, SharesAre
  <1>3. ASSUME n < m  PROVE Unit \div (60 + n) > Unit \div (60 + m)
    <2> HIDE DEF Unit
    <2> QED
      BY <1>1, <1>3, SharesAre
  <1> QED
    BY <1>2, <1>3

LEMMA ShareIs ==
  ASSUME NEW s, IsList(s, 6), NEW c
  PROVE  /\ Share(s, c) \in Nat
         /\ Share(s, c) # 0 <=> c \in ToSet(s)
  <1>1. CASE c \in ToSet(s)
    <2>1. RankIn(s, c) \in 1..6
      BY <1>1, RankIs DEF IsList
    <2>2. Unit \div (60 + RankIn(s, c)) \in Nat \ {0}
      BY <2>1, SharesFall
    <2>3. Share(s, c) = Unit \div (60 + RankIn(s, c))
      BY <1>1 DEF Share
    <2> QED
      BY <1>1, <2>2, <2>3
  <1>2. CASE c \notin ToSet(s)
    BY <1>2 DEF Share
  <1> QED
    BY <1>1, <1>2

LEMMA AheadSharesMore ==
  ASSUME NEW s, IsList(s, 6), NEW a, NEW b, Ahead(s, a, b)
  PROVE  Share(s, a) > Share(s, b)
  <1>1. a \in ToSet(s) /\ Share(s, a) \in Nat /\ Share(s, a) # 0
    BY ShareIs DEF Ahead
  <1>2. CASE b \notin ToSet(s)
    <2>1. Share(s, b) = 0
      BY <1>2 DEF Share
    <2> QED
      BY <1>1, <2>1
  <1>3. CASE b \in ToSet(s)
    <2>1. RankIn(s, a) \in 1..6 /\ RankIn(s, b) \in 1..6 /\ RankIn(s, a) < RankIn(s, b)
      BY <1>1, <1>3, RankIs DEF IsList, Ahead
    <2>2. Unit \div (60 + RankIn(s, a)) > Unit \div (60 + RankIn(s, b))
      BY <2>1, SharesFall
    <2> QED
      BY <1>1, <1>3, <2>2 DEF Share
  <1> QED
    BY <1>2, <1>3

(* Where a chunk stands; behind the list if it is not in it.               *)
Place(s, c) == IF c \in ToSet(s) THEN RankIn(s, c) ELSE Len(s) + 1

LEMMA AheadByPlace ==
  ASSUME NEW s, NEW n, IsList(s, n), NEW a, NEW b
  PROVE  /\ Place(s, a) \in Nat
         /\ Ahead(s, a, b) <=> Place(s, a) < Place(s, b)
  <1>1. s \in Seq(Chunks) /\ Len(s) \in Nat
    BY DEF IsList
  <1>2. \A c : c \in ToSet(s) => RankIn(s, c) \in 1..Len(s)
    BY <1>1, RankIs
  <1>3. \A c : /\ Place(s, c) \in Nat /\ Place(s, c) <= Len(s) + 1
               /\ c \in ToSet(s) => Place(s, c) = RankIn(s, c) /\ Place(s, c) <= Len(s)
               /\ c \notin ToSet(s) => Place(s, c) = Len(s) + 1
    BY <1>1, <1>2 DEF Place
  <1>4. CASE a \in ToSet(s)
    <2>1. CASE b \in ToSet(s)
      BY <1>3, <1>4, <2>1 DEF Ahead
    <2>2. CASE b \notin ToSet(s)
      <3>1. Place(s, a) < Place(s, b)
        BY <1>1, <1>3, <1>4, <2>2
      <3> QED
        BY <1>3, <1>4, <2>2, <3>1 DEF Ahead
    <2> QED
      BY <2>1, <2>2
  <1>5. CASE a \notin ToSet(s)
    <2>1. ~(Place(s, a) < Place(s, b))
      BY <1>1, <1>3, <1>5
    <2> QED
      BY <1>3, <1>5, <2>1 DEF Ahead
  <1> QED
    BY <1>4, <1>5

(* Sums of shares, then places, then ids: an order of numbers in turn.     *)
Behind(x, y) ==
    \/ x[1] > y[1]
    \/ /\ x[1] = y[1] /\ ~(y[2] < x[2])
       /\ \/ x[2] < y[2]
          \/ x[3] < y[3]
          \/ ~(y[3] < x[3]) /\ x[4] < y[4]

LEMMA InTurn ==
  ASSUME NEW x \in Int \X Int \X Int \X Int, NEW y \in Int \X Int \X Int \X Int,
         NEW z \in Int \X Int \X Int \X Int
  PROVE  /\ ~Behind(x, x)
         /\ Behind(x, y) /\ Behind(y, z) => Behind(x, z)
  <1>1. /\ x[1] \in Int /\ x[2] \in Int /\ x[3] \in Int /\ x[4] \in Int
        /\ y[1] \in Int /\ y[2] \in Int /\ y[3] \in Int /\ y[4] \in Int
        /\ z[1] \in Int /\ z[2] \in Int /\ z[3] \in Int /\ z[4] \in Int
    OBVIOUS
  <1> QED
    BY <1>1 DEF Behind

Standing(dense, sparse, c) ==
    <<Share(dense, c) + Share(sparse, c), Place(dense, c), Place(sparse, c), c>>

LEMMA PrecedesInTurn ==
  ASSUME NEW dense, NEW sparse, IsList(dense, 3), IsList(sparse, 3), NEW a \in Chunks, NEW b \in Chunks
  PROVE  /\ Standing(dense, sparse, a) \in Int \X Int \X Int \X Int
         /\ Precedes(dense, sparse, a, b) <=> Behind(Standing(dense, sparse, a), Standing(dense, sparse, b))
  <1>1. IsList(dense, 6) /\ IsList(sparse, 6)
    BY DEF IsList
  <1>2. \A c : Share(dense, c) \in Nat /\ Share(sparse, c) \in Nat
    BY <1>1, ShareIs
  <1>3. \A c, d : /\ Place(dense, c) \in Nat /\ Place(sparse, c) \in Nat
                  /\ Ahead(dense, c, d) <=> Place(dense, c) < Place(dense, d)
                  /\ Ahead(sparse, c, d) <=> Place(sparse, c) < Place(sparse, d)
    BY AheadByPlace
  <1>4. a \in Int
    BY SearchAssumption
  <1>5. Standing(dense, sparse, a) \in Int \X Int \X Int \X Int
    BY <1>2, <1>3, <1>4 DEF Standing
  <1>6. /\ Standing(dense, sparse, a)[1] = Share(dense, a) + Share(sparse, a)
        /\ Standing(dense, sparse, a)[2] = Place(dense, a) /\ Standing(dense, sparse, a)[3] = Place(sparse, a)
        /\ Standing(dense, sparse, a)[4] = a
        /\ Standing(dense, sparse, b)[1] = Share(dense, b) + Share(sparse, b)
        /\ Standing(dense, sparse, b)[2] = Place(dense, b) /\ Standing(dense, sparse, b)[3] = Place(sparse, b)
        /\ Standing(dense, sparse, b)[4] = b
    BY DEF Standing
  <1>7. /\ Ahead(dense, a, b) <=> Place(dense, a) < Place(dense, b)
        /\ Ahead(dense, b, a) <=> Place(dense, b) < Place(dense, a)
        /\ Ahead(sparse, a, b) <=> Place(sparse, a) < Place(sparse, b)
        /\ Ahead(sparse, b, a) <=> Place(sparse, b) < Place(sparse, a)
    BY <1>3
  <1>8. Precedes(dense, sparse, a, b) <=> Behind(Standing(dense, sparse, a), Standing(dense, sparse, b))
    BY <1>6, <1>7 DEF Precedes, Behind
  <1> QED
    BY <1>5, <1>8

(* The list fused of two has what either has, and puts first what has the  *)
(* greater sum.                                                            *)
LEMMA FuseIs ==
  ASSUME NEW dense, NEW sparse, IsList(dense, 3), IsList(sparse, 3)
  PROVE  /\ IsList(Fuse(dense, sparse), 6)
         /\ ToSet(Fuse(dense, sparse)) = ToSet(dense) \cup ToSet(sparse)
         /\ \A a, b \in ToSet(dense) \cup ToSet(sparse) :
               Share(dense, a) + Share(sparse, a) > Share(dense, b) + Share(sparse, b)
               => RankIn(Fuse(dense, sparse), a) < RankIn(Fuse(dense, sparse), b)
  <1> DEFINE S == ToSet(dense) \cup ToSet(sparse)
             R == {p \in S \X S : Precedes(dense, sparse, p[1], p[2])}
             f == Fuse(dense, sparse)
  <1>1. \A a, b \in S : <<a, b>> \in R <=> Precedes(dense, sparse, a, b)
    OBVIOUS
  <1>2. S \subseteq Chunks
    BY DEF IsList, ToSet
  <1>3. IsFiniteSet(S) /\ Cardinality(S) <= 6
    <2>1. /\ IsFiniteSet(ToSet(dense)) /\ Cardinality(ToSet(dense)) \in Nat
          /\ Cardinality(ToSet(dense)) <= 3
          /\ IsFiniteSet(ToSet(sparse)) /\ Cardinality(ToSet(sparse)) \in Nat
          /\ Cardinality(ToSet(sparse)) <= 3
      BY ListedAreFinite DEF IsList
    <2>2. IsFiniteSet(ToSet(dense)) /\ IsFiniteSet(ToSet(sparse))
      BY <2>1
    <2>3. /\ IsFiniteSet(S)
          /\ Cardinality(S) = Cardinality(ToSet(dense)) + Cardinality(ToSet(sparse))
                                - Cardinality(ToSet(dense) \cap ToSet(sparse))
      BY <2>2, FS_Union
    <2>4. Cardinality(ToSet(dense) \cap ToSet(sparse)) \in Nat
      BY <2>2, FS_Intersection, FS_CardinalityType
    <2>5. /\ Cardinality(ToSet(dense)) \in Nat /\ Cardinality(ToSet(dense)) <= 3
          /\ Cardinality(ToSet(sparse)) \in Nat /\ Cardinality(ToSet(sparse)) <= 3
      BY <2>1, <2>2, FS_CardinalityType
    <2> QED
      BY <2>3, <2>4, <2>5
  <1>4. Orders(R, S)
    <2>1. \A a \in S : <<a, a>> \notin R
      BY <1>1, <1>2, PrecedesInTurn, InTurn
    <2>2. ASSUME NEW a \in S, NEW b \in S, NEW c \in S, <<a, b>> \in R, <<b, c>> \in R
          PROVE  <<a, c>> \in R
      <3>1. Precedes(dense, sparse, a, b) /\ Precedes(dense, sparse, b, c)
        BY <1>1, <2>2
      <3>2. a \in Chunks /\ b \in Chunks /\ c \in Chunks
        BY <1>2
      <3>3. Precedes(dense, sparse, a, c)
        BY <3>1, <3>2, PrecedesInTurn, InTurn
      <3> QED
        BY <1>1, <3>3
    <2> HIDE DEF R, S
    <2> QED
      BY <2>1, <2>2 DEF Orders
  <1>5. PICK t \in SetToSeqs(S) : Along(t, R)
    <2> HIDE DEF S, R
    <2> QED
      BY <1>3, <1>4, ListExists
  <1>6. \A s \in SetToSeqs(S) : DOMAIN s = 1..Cardinality(S) /\ \A i \in DOMAIN s : s[i] \in S
    BY DEF SetToSeqs
  <1>7. \A s \in SetToSeqs(S) :
           Along(s, R) <=> \A i, j \in DOMAIN s : i < j => ~Precedes(dense, sparse, s[j], s[i])
    <2> HIDE DEF S, R
    <2> QED
      BY <1>1, <1>6 DEF Along
  <1>8. f = CHOOSE s \in SetToSeqs(S) :
                \A i, j \in DOMAIN s : i < j => ~Precedes(dense, sparse, s[j], s[i])
    BY DEF Fuse, Sorted
  <1>9. f \in SetToSeqs(S) /\ Along(f, R)
    <2> HIDE DEF S, R, f
    <2> QED
      BY <1>5, <1>7, <1>8
  <1>10. Enumerates(f, S)
    <2> HIDE DEF S, R, f
    <2> QED
      BY <1>3, <1>9, ListHasAll
  <1>11. IsList(f, 6)
    <2> HIDE DEF f
    <2>1. f \in Seq(Chunks)
      <3> HIDE DEF S
      <3> QED
        BY <1>2, <1>10, SeqMonotonic DEF Enumerates
    <2> QED
      BY <1>3, <1>10, <2>1 DEF Enumerates, IsList
  <1>12. ASSUME NEW a \in S, NEW b \in S,
                Share(dense, a) + Share(sparse, a) > Share(dense, b) + Share(sparse, b)
         PROVE  RankIn(f, a) < RankIn(f, b)
    <2>1. Precedes(dense, sparse, a, b)
      BY <1>12 DEF Precedes
    <2>2. <<a, b>> \in R
      BY <1>1, <2>1
    <2>3. a # b
      <3>1. <<a, a>> \notin R
        <4> HIDE DEF R, S
        <4> QED
          BY <1>4 DEF Orders
      <3> HIDE DEF R, S
      <3> QED
        BY <2>2, <3>1
    <2> HIDE DEF R, S, f
    <2> QED
      BY <1>9, <1>10, <2>2, <2>3, ListInOrder
  <1> QED
    BY <1>10, <1>11, <1>12 DEF Enumerates
-----------------------------------------------------------------------------
(* The lists of several variants, by weighted shares.                      *)
LEMMA FunctionSum ==
  ASSUME NEW D, IsFiniteSet(D), NEW f \in [D -> Int]
  PROVE  SumFunction(f) = SumOver(D, f)
  <1> DEFINE Choice(s) == CHOOSE x \in s : TRUE
             Summed(g) == g = [s \in SUBSET D |->
                                 IF s = {} THEN 0 ELSE f[Choice(s)] + g[s \ {Choice(s)}]]
             c == [s \in SUBSET D |-> Choice(s)]
             total == CHOOSE g : Summed(g)
  <1>1. Chooses(D, c)
    BY DEF Chooses
  <1>2. PICK g : Accumulates(D, f, c, g)
    <2> HIDE DEF c
    <2> QED
      BY <1>1, SumExists
  <1>3. \E h : Summed(h)
    <2>1. \A s \in SUBSET D : g[s] = IF s = {} THEN 0 ELSE f[Choice(s)] + g[s \ {Choice(s)}]
      BY <1>2 DEF Accumulates
    <2>2. g = [s \in SUBSET D |-> g[s]]
      BY <1>2 DEF Accumulates
    <2>3. g = [s \in SUBSET D |-> IF s = {} THEN 0 ELSE f[Choice(s)] + g[s \ {Choice(s)}]]
      BY <2>1, <2>2
    <2> QED
      BY <2>3
  <1>4. Summed(total)
    <2> HIDE DEF Summed
    <2> QED
      BY <1>3
  <1>5. SumFunction(f) = total[D]
    <2>1. DOMAIN f = D
      OBVIOUS
    <2> QED
      BY <2>1 DEF SumFunction, SumFunctionOnSet, FoldFunctionOnSet, MapThenFoldSet
  <1> HIDE DEF total
  <1>6. SumOf(D, f, total)
    BY <1>1, <1>4 DEF SumOf, Chooses
  <1> QED
    BY <1>5, <1>6, SumIsThat

LEMMA OneMoreSumsMore ==
  ASSUME NEW D, NEW f, NEW e, Summable(D, f), Summable(D, e), \A x \in D : f[x] <= e[x],
         NEW t \in D, f[t] < e[t]
  PROVE  SumOver(D, f) < SumOver(D, e)
  <1>1. /\ SumOver(D, f) = f[t] + SumOver(D \ {t}, f) /\ Summable(D \ {t}, f)
        /\ SumOver(D, e) = e[t] + SumOver(D \ {t}, e) /\ Summable(D \ {t}, e)
    BY SumTakes
  <1>2. SumOver(D \ {t}, f) <= SumOver(D \ {t}, e)
    BY <1>1, SumsAreOrdered
  <1>3. SumOver(D \ {t}, f) \in Int /\ SumOver(D \ {t}, e) \in Int
    BY <1>1, SumTakes
  <1>4. f[t] \in Int /\ e[t] \in Int
    BY DEF Summable
  <1> QED
    BY <1>1, <1>2, <1>3, <1>4

LEMMA ProductsKeepOrder ==
  ASSUME NEW w \in Nat \ {0}, NEW x \in Nat, NEW y \in Nat
  PROVE  /\ w * x \in Nat
         /\ x <= y => w * x <= w * y
         /\ x < y => w * x < w * y
  <1>1. w * x \in Nat /\ w * y \in Nat
    OBVIOUS
  <1>2. ASSUME x <= y  PROVE w * x <= w * y
    <2>1. PICK d \in Nat : y = x + d
      <3>1. y - x \in Nat /\ y = x + (y - x)
        BY <1>2
      <3> QED
        BY <3>1
    <2>2. w * y = w * x + w * d /\ w * d \in Nat
      BY <2>1
    <2> QED
      BY <1>1, <2>2
  <1>3. ASSUME x < y  PROVE w * x < w * y
    <2>1. PICK d \in Nat : y = x + d + 1
      <3>1. y - x - 1 \in Nat /\ y = x + (y - x - 1) + 1
        BY <1>3
      <3> QED
        BY <3>1
    <2>2. w * y = w * x + w * d + w /\ w * d \in Nat
      BY <2>1
    <2> QED
      BY <1>1, <2>2
  <1> QED
    BY <1>1, <1>2, <1>3

(* Lists that have come, of as many variants as there are weights.         *)
ListsFused ==
    /\ search.variants \in DOMAIN Weights
    /\ DOMAIN fused = Variants /\ \A v \in Variants : IsList(fused[v], 6)

WeightedShares(c) == [v \in Variants |-> Weights[v] * Share(fused[v], c)]

LEMMA VariantsAre ==
  ASSUME search.variants \in DOMAIN Weights
  PROVE  /\ search.variants \in Nat \ {0} /\ IsFiniteSet(Variants) /\ Variants \subseteq DOMAIN Weights
         /\ \A v \in Variants : Weights[v] \in Nat \ {0}
  <1>1. Weights \in Seq(Nat \ {0}) /\ DOMAIN Weights = 1..Len(Weights)
    BY SearchAssumption
  <1>2. PICK n \in Nat \ {0} : n = search.variants
    BY <1>1
  <1>3. Variants = 1..n /\ Variants \subseteq DOMAIN Weights
    BY <1>1, <1>2 DEF Variants
  <1>4. IsFiniteSet(1..n)
    BY FS_Interval
  <1>5. \A v \in 1..Len(Weights) : Weights[v] \in Nat \ {0}
    BY <1>1, ElementOfSeq
  <1> QED
    BY <1>1, <1>2, <1>3, <1>4, <1>5

LEMMA WeightedIs ==
  ASSUME ListsFused, NEW c
  PROVE  /\ Summable(Variants, WeightedShares(c))
         /\ Weighted(c) = SumOver(Variants, WeightedShares(c)) /\ Weighted(c) \in Int
         /\ \A v \in Variants : WeightedShares(c)[v] = Weights[v] * Share(fused[v], c)
  <1>1. IsFiniteSet(Variants) /\ \A v \in Variants : Weights[v] \in Nat \ {0}
    BY VariantsAre DEF ListsFused
  <1>2. \A v \in Variants : Share(fused[v], c) \in Nat
    BY ShareIs DEF ListsFused
  <1>3. \A v \in Variants : Weights[v] * Share(fused[v], c) \in Int
    <2> SUFFICES ASSUME NEW v \in Variants  PROVE Weights[v] * Share(fused[v], c) \in Int
      OBVIOUS
    <2>1. Weights[v] \in Nat \ {0} /\ Share(fused[v], c) \in Nat
      BY <1>1, <1>2
    <2>2. Weights[v] * Share(fused[v], c) \in Nat
      BY <2>1, ProductsKeepOrder
    <2> QED
      BY <2>2
  <1> DEFINE D == Variants   f == WeightedShares(c)
  <1>4. f \in [D -> Int]
    BY <1>3 DEF WeightedShares
  <1>5. Weighted(c) = SumFunction(f)
    BY DEF Weighted, WeightedShares
  <1>6. \A v \in D : f[v] = Weights[v] * Share(fused[v], c)
    BY DEF WeightedShares
  <1> HIDE DEF D, f
  <1>7. IsFiniteSet(D)
    BY <1>1 DEF D
  <1>8. SumFunction(f) = SumOver(D, f)
    BY <1>4, <1>7, FunctionSum
  <1>9. Summable(D, f)
    BY <1>4, <1>7 DEF Summable
  <1>10. SumOver(D, f) \in Int
    BY <1>9, SumTakes
  <1> QED
    BY <1>5, <1>6, <1>8, <1>9, <1>10 DEF D, f

(* What no list puts behind, and one puts first, has the greater sum.      *)
LEMMA WeightsMore ==
  ASSUME ListsFused, NEW a, NEW b, \A v \in Variants : Share(fused[v], b) <= Share(fused[v], a),
         NEW w \in Variants, Share(fused[w], b) < Share(fused[w], a)
  PROVE  Weighted(a) > Weighted(b)
  <1>1. \A v \in Variants : /\ Weights[v] \in Nat \ {0}
                            /\ Share(fused[v], a) \in Nat /\ Share(fused[v], b) \in Nat
    BY VariantsAre, ShareIs DEF ListsFused
  <1> DEFINE D == Variants   e == WeightedShares(a)   f == WeightedShares(b)
  <1>2. \A v \in D : f[v] <= e[v] /\ (Share(fused[v], b) < Share(fused[v], a) => f[v] < e[v])
    <2> SUFFICES ASSUME NEW v \in Variants
                 PROVE  f[v] <= e[v] /\ (Share(fused[v], b) < Share(fused[v], a) => f[v] < e[v])
      OBVIOUS
    <2>1. f[v] = Weights[v] * Share(fused[v], b) /\ e[v] = Weights[v] * Share(fused[v], a)
      BY WeightedIs
    <2> HIDE DEF e, f
    <2> QED
      BY <1>1, <2>1, ProductsKeepOrder
  <1>3. /\ Summable(D, e) /\ Summable(D, f) /\ Weighted(a) = SumOver(D, e) /\ Weighted(b) = SumOver(D, f)
        /\ Weighted(a) \in Int /\ Weighted(b) \in Int
    BY WeightedIs
  <1>4. w \in D /\ f[w] < e[w]
    BY <1>2
  <1> HIDE DEF D, e, f
  <1>5. SumOver(D, f) < SumOver(D, e)
    BY <1>2, <1>3, <1>4, OneMoreSumsMore
  <1> QED
    BY <1>3, <1>5

LEMMA AllListedAreFinite ==
  ASSUME ListsFused
  PROVE  LET S == UNION {ToSet(fused[v]) : v \in Variants}
         IN  IsFiniteSet(S) /\ S \subseteq Chunks
  <1> DEFINE U(k) == UNION {ToSet(fused[v]) : v \in 1..k}
             Fails == {k \in Nat : k <= search.variants /\ ~IsFiniteSet(U(k))}
  <1>1. search.variants \in Nat
    BY VariantsAre DEF ListsFused
  <1>2. \A v \in Variants : IsFiniteSet(ToSet(fused[v])) /\ ToSet(fused[v]) \subseteq Chunks
    BY ListedAreFinite DEF ListsFused
  <1>3. ASSUME Fails # {}  PROVE FALSE
    <2>1. PICK k \in Fails : \A m \in Fails : k <= m
      BY <1>3, NatHasLeast
    <2>2. U(0) = {}
      OBVIOUS
    <2>3. k # 0
      BY <2>1, <2>2, FS_EmptySet
    <2>4. k - 1 \in Nat /\ k - 1 < k /\ k - 1 <= search.variants /\ k \in Variants
      BY <1>1, <2>1, <2>3 DEF Variants
    <2>5. IsFiniteSet(U(k - 1))
      <3>1. k - 1 \notin Fails
        BY <2>1, <2>4
      <3> HIDE DEF U
      <3> QED
        BY <2>4, <3>1
    <2>6. U(k) = U(k - 1) \cup ToSet(fused[k])
      <3>1. 1..k = 1..(k - 1) \cup {k}
        BY <2>4
      <3> QED
        BY <3>1
    <2>7. IsFiniteSet(U(k))
      <3>1. PICK B : B = ToSet(fused[k]) /\ IsFiniteSet(B)
        BY <1>2, <2>4
      <3> HIDE DEF U
      <3>2. PICK A : A = U(k - 1) /\ IsFiniteSet(A)
        BY <2>5
      <3>3. IsFiniteSet(A \cup B)
        BY <3>1, <3>2, FS_Union
      <3> QED
        BY <2>6, <3>1, <3>2, <3>3
    <2> QED
      BY <2>1, <2>7
  <1>4. IsFiniteSet(U(search.variants))
    <2> HIDE DEF U
    <2> QED
      BY <1>1, <1>3
  <1> QED
    BY <1>2, <1>4 DEF Variants

LEMMA FuseVariantsIs ==
  ASSUME ListsFused
  PROVE  LET S == UNION {ToSet(fused[v]) : v \in Variants}
         IN  /\ Enumerates(FuseVariants, S) /\ S \subseteq Chunks
             /\ \A a, b \in S : Weighted(a) > Weighted(b)
                                => RankIn(FuseVariants, a) < RankIn(FuseVariants, b)
  <1> DEFINE S == UNION {ToSet(fused[v]) : v \in Variants}
             Before(a, b) == Weighted(a) > Weighted(b) \/ (Weighted(a) = Weighted(b) /\ a < b)
             R == {p \in S \X S : Before(p[1], p[2])}
             f == FuseVariants
  <1>1. \A a, b \in S : <<a, b>> \in R <=> Before(a, b)
    OBVIOUS
  <1>2. S \subseteq Chunks /\ IsFiniteSet(S)
    BY AllListedAreFinite
  <1>3. \A c \in S : Weighted(c) \in Int /\ c \in Int
    <2>1. \A c \in S : c \in Nat
      BY <1>2, SearchAssumption
    <2>2. \A c : Weighted(c) \in Int
      BY WeightedIs
    <2> QED
      BY <2>1, <2>2
  <1>4. Orders(R, S)
    <2>1. \A a \in S : ~Before(a, a)
      BY <1>3
    <2>2. \A a, b, c \in S : Before(a, b) /\ Before(b, c) => Before(a, c)
      BY <1>3
    <2> HIDE DEF R, S, Before
    <2> QED
      BY <1>1, <2>1, <2>2 DEF Orders
  <1>5. PICK t \in SetToSeqs(S) : Along(t, R)
    <2> HIDE DEF S, R
    <2> QED
      BY <1>2, <1>4, ListExists
  <1>6. \A s \in SetToSeqs(S) : DOMAIN s = 1..Cardinality(S) /\ \A i \in DOMAIN s : s[i] \in S
    BY DEF SetToSeqs
  <1>7. \A s \in SetToSeqs(S) : Along(s, R) <=> \A i, j \in DOMAIN s : i < j => ~Before(s[j], s[i])
    <2> HIDE DEF S, R, Before
    <2> QED
      BY <1>1, <1>6 DEF Along
  <1>8. f = CHOOSE s \in SetToSeqs(S) : \A i, j \in DOMAIN s : i < j => ~Before(s[j], s[i])
    BY DEF FuseVariants, Sorted
  <1>9. f \in SetToSeqs(S) /\ Along(f, R)
    <2> HIDE DEF S, R, f, Before
    <2> QED
      BY <1>5, <1>7, <1>8
  <1>10. Enumerates(f, S)
    <2> HIDE DEF S, R, f
    <2> QED
      BY <1>2, <1>9, ListHasAll
  <1>11. ASSUME NEW a \in S, NEW b \in S, Weighted(a) > Weighted(b)  PROVE RankIn(f, a) < RankIn(f, b)
    <2>1. <<a, b>> \in R
      BY <1>1, <1>11
    <2>2. a # b
      BY <1>3, <1>11
    <2> HIDE DEF R, S, f
    <2> QED
      BY <1>9, <1>10, <2>1, <2>2, ListInOrder
  <1> QED
    BY <1>2, <1>10, <1>11
-----------------------------------------------------------------------------
(* What has been retrieved so far: a variant that was not lost has the     *)
(* list fused of its two.                                                  *)
ShortLists == {s \in Seq(Chunks) : IsList(s, 3)}
FusedLists == {s \in Seq(Chunks) : IsList(s, 6)}
Lost(v) == <<"variant", v>> \in faults

RetrievalHolds ==
    /\ search.variants \in DOMAIN Weights
    /\ listed \in [Variants -> [Indices -> ShortLists \cup {Missing}]]
    /\ fused \in [Variants -> FusedLists \cup {Missing}]
    /\ faults \subseteq (Indices \cup {"variant"}) \X Variants
    /\ \A v \in Variants : fused[v] = Missing => ~Lost(v)
    /\ \A v \in Variants : fused[v] # Missing =>
          IF Lost(v) THEN fused[v] = <<>>
          ELSE /\ \A i \in Indices : listed[v][i] # Missing
               /\ fused[v] = Fuse(listed[v]["dense"], listed[v]["sparse"])
    /\ Single => ~Lost(1) /\ (fused[1] # Missing => (search.degraded <=> faults # {}))

LEMMA RetrievedLists ==
  ASSUME RetrievalHolds, \A v \in Variants : fused[v] # Missing
  PROVE  /\ ListsFused
         /\ \A v \in Variants : ~Lost(v) =>
               /\ IsList(listed[v]["dense"], 3) /\ IsList(listed[v]["sparse"], 3)
               /\ fused[v] = Fuse(listed[v]["dense"], listed[v]["sparse"])
               /\ ToSet(fused[v]) = ToSet(listed[v]["dense"]) \cup ToSet(listed[v]["sparse"])
         /\ \A v \in Variants : Lost(v) => ToSet(fused[v]) = {}
  <1>1. ListsFused
    BY DEF RetrievalHolds, FusedLists, ListsFused
  <1>2. ASSUME NEW v \in Variants, ~Lost(v)
        PROVE  /\ IsList(listed[v]["dense"], 3) /\ IsList(listed[v]["sparse"], 3)
               /\ fused[v] = Fuse(listed[v]["dense"], listed[v]["sparse"])
               /\ ToSet(fused[v]) = ToSet(listed[v]["dense"]) \cup ToSet(listed[v]["sparse"])
    <2>1. /\ \A i \in Indices : listed[v][i] # Missing
          /\ fused[v] = Fuse(listed[v]["dense"], listed[v]["sparse"])
      BY <1>2 DEF RetrievalHolds
    <2>2. listed[v]["dense"] \in ShortLists /\ listed[v]["sparse"] \in ShortLists
      <3>1. listed[v] \in [Indices -> ShortLists \cup {Missing}]
        BY DEF RetrievalHolds
      <3>2. "dense" \in Indices /\ "sparse" \in Indices
        BY DEF Indices
      <3> QED
        BY <2>1, <3>1, <3>2
    <2>3. IsList(listed[v]["dense"], 3) /\ IsList(listed[v]["sparse"], 3)
      BY <2>2 DEF ShortLists
    <2> QED
      BY <2>1, <2>3, FuseIs
  <1>3. ASSUME NEW v \in Variants, Lost(v)  PROVE ToSet(fused[v]) = {}
    <2>1. fused[v] = <<>>
      BY <1>3 DEF RetrievalHolds
    <2> QED
      BY <2>1 DEF ToSet
  <1> QED
    BY <1>1, <1>2, <1>3

LEMMA CountingIs ==
  ASSUME RetrievalHolds
  PROVE  /\ \A v \in Variants : ~Lost(v) => listed[v]["dense"] \in Counting /\ listed[v]["sparse"] \in Counting
         /\ \A s \in Counting :
               \E v \in Variants : ~Lost(v) /\ (s = listed[v]["dense"] \/ s = listed[v]["sparse"])
  <1>1. \A v \in Variants : Range(listed[v]) = {listed[v]["dense"], listed[v]["sparse"]}
    <2>1. \A v \in Variants : DOMAIN listed[v] = {"dense", "sparse"}
      BY DEF RetrievalHolds, Indices
    <2> QED
      BY <2>1 DEF Range
  <1>2. \A s : s \in Counting <=> \E v \in Variants : ~Lost(v) /\ s \in Range(listed[v])
    BY DEF Counting, Lost
  <1>3. ASSUME NEW v \in Variants, ~Lost(v)
        PROVE  listed[v]["dense"] \in Counting /\ listed[v]["sparse"] \in Counting
    BY <1>1, <1>2, <1>3
  <1>4. ASSUME NEW s \in Counting
        PROVE  \E v \in Variants : ~Lost(v) /\ (s = listed[v]["dense"] \/ s = listed[v]["sparse"])
    <2>1. PICK v \in Variants : ~Lost(v) /\ s \in Range(listed[v])
      BY <1>2
    <2>2. s \in {listed[v]["dense"], listed[v]["sparse"]}
      BY <1>1, <2>1
    <2> QED
      BY <2>1, <2>2
  <1> QED
    BY <1>3, <1>4

(* Who beats another in what was listed comes before it in what was fused. *)
LEMMA BeatenInVariant ==
  ASSUME RetrievalHolds, \A v \in Variants : fused[v] # Missing, NEW a, NEW b, Beats(a, b),
         NEW v \in Variants
  PROVE  /\ b \in ToSet(fused[v]) => RankIn(fused[v], a) < RankIn(fused[v], b)
         /\ Share(fused[v], b) <= Share(fused[v], a)
         /\ ~Lost(v) /\ (Ahead(listed[v]["dense"], a, b) \/ Ahead(listed[v]["sparse"], a, b))
            => Share(fused[v], b) < Share(fused[v], a)
  <1>1. IsList(fused[v], 6) /\ Share(fused[v], a) \in Nat /\ Share(fused[v], b) \in Nat
    BY RetrievedLists, ShareIs DEF ListsFused
  <1>2. CASE Lost(v)
    <2>1. ToSet(fused[v]) = {}
      BY <1>2, RetrievedLists
    <2>2. Share(fused[v], b) = 0
      BY <2>1 DEF Share
    <2> QED
      BY <1>1, <1>2, <2>1, <2>2
  <1>3. CASE ~Lost(v)
    <2>1. PICK d, p : d = listed[v]["dense"] /\ p = listed[v]["sparse"]
      OBVIOUS
    <2>2. /\ IsList(d, 3) /\ IsList(p, 3) /\ fused[v] = Fuse(d, p)
          /\ ToSet(fused[v]) = ToSet(d) \cup ToSet(p) /\ d \in Counting /\ p \in Counting
      BY <1>3, <2>1, RetrievedLists, CountingIs
    <2>3. IsList(d, 6) /\ IsList(p, 6)
      BY <2>2 DEF IsList
    <2>4. \A s \in {d, p} : /\ b \in ToSet(s) => Ahead(s, a, b)
                            /\ Share(s, a) \in Nat /\ Share(s, b) \in Nat
                            /\ Ahead(s, a, b) => Share(s, b) < Share(s, a) /\ a \in ToSet(s)
                            /\ b \notin ToSet(s) => Share(s, b) = 0
      <3> SUFFICES ASSUME NEW s \in {d, p}
                   PROVE  /\ b \in ToSet(s) => Ahead(s, a, b)
                          /\ Share(s, a) \in Nat /\ Share(s, b) \in Nat
                          /\ Ahead(s, a, b) => Share(s, b) < Share(s, a) /\ a \in ToSet(s)
                          /\ b \notin ToSet(s) => Share(s, b) = 0
        OBVIOUS
      <3>1. IsList(s, 6) /\ s \in Counting
        BY <2>2, <2>3
      <3>2. b \in ToSet(s) => Ahead(s, a, b)
        BY <3>1 DEF Beats
      <3>3. Share(s, a) \in Nat /\ Share(s, b) \in Nat
        BY <3>1, ShareIs
      <3>4. Ahead(s, a, b) => Share(s, b) < Share(s, a)
        BY <3>1, <3>3, AheadSharesMore
      <3> QED
        BY <3>2, <3>3, <3>4 DEF Ahead, Share
    <2>5. \A s \in {d, p} : Share(s, b) <= Share(s, a)
      BY <2>4
    <2>6. ASSUME Ahead(d, a, b) \/ Ahead(p, a, b)
          PROVE  /\ b \in ToSet(fused[v]) => RankIn(fused[v], a) < RankIn(fused[v], b)
                 /\ Share(fused[v], b) < Share(fused[v], a)
      <3>1. Share(d, a) + Share(p, a) > Share(d, b) + Share(p, b) /\ a \in ToSet(fused[v])
        BY <2>2, <2>4, <2>5, <2>6
      <3>2. CASE b \in ToSet(fused[v])
        <4>1. RankIn(fused[v], a) < RankIn(fused[v], b)
          BY <2>2, <3>1, <3>2, FuseIs
        <4>2. Ahead(fused[v], a, b)
          BY <3>1, <4>1 DEF Ahead
        <4> QED
          BY <1>1, <4>1, <4>2, AheadSharesMore
      <3>3. CASE b \notin ToSet(fused[v])
        <4>1. Share(fused[v], b) = 0
          BY <3>3 DEF Share
        <4>2. Share(fused[v], a) # 0
          BY <1>1, <3>1, ShareIs
        <4> QED
          BY <1>1, <3>3, <4>1, <4>2
      <3> QED
        BY <3>2, <3>3
    <2>7. CASE Ahead(d, a, b) \/ Ahead(p, a, b)
      BY <1>1, <2>6, <2>7
    <2>8. CASE ~Ahead(d, a, b) /\ ~Ahead(p, a, b)
      <3>1. b \notin ToSet(fused[v])
        BY <2>2, <2>4, <2>8
      <3>2. Share(fused[v], b) = 0
        BY <3>1 DEF Share
      <3> QED
        BY <1>1, <2>1, <2>8, <3>1, <3>2
    <2> QED
      BY <2>7, <2>8
  <1> QED
    BY <1>2, <1>3

LEMMA FusionIsTrue ==
  ASSUME RetrievalHolds, AllFused
  PROVE  /\ Ranking \in Seq(Chunks) /\ IsInjective(Ranking)
         /\ ToSet(Ranking) = UNION {ToSet(s) : s \in Counting}
         /\ \A a, b \in ToSet(Ranking) : Beats(a, b) => RankIn(Ranking, a) < RankIn(Ranking, b)
  <1>1. \A v \in Variants : fused[v] # Missing
    BY DEF AllFused
  <1> DEFINE S == UNION {ToSet(fused[v]) : v \in Variants}
  <1>2. S = UNION {ToSet(s) : s \in Counting}
    <2>1. ASSUME NEW c \in S  PROVE \E s \in Counting : c \in ToSet(s)
      <3>1. PICK v \in Variants : c \in ToSet(fused[v])
        OBVIOUS
      <3>2. ~Lost(v)
        BY <1>1, <3>1, RetrievedLists
      <3>3. c \in ToSet(listed[v]["dense"]) \cup ToSet(listed[v]["sparse"])
        BY <1>1, <3>1, <3>2, RetrievedLists
      <3> QED
        BY <3>2, <3>3, CountingIs
    <2>2. ASSUME NEW s \in Counting, NEW c \in ToSet(s)  PROVE c \in S
      <3>1. PICK v \in Variants : ~Lost(v) /\ (s = listed[v]["dense"] \/ s = listed[v]["sparse"])
        BY CountingIs
      <3>2. ToSet(fused[v]) = ToSet(listed[v]["dense"]) \cup ToSet(listed[v]["sparse"])
        BY <1>1, <3>1, RetrievedLists
      <3> QED
        BY <2>2, <3>1, <3>2
    <2> HIDE DEF S
    <2> QED
      BY <2>1, <2>2
  <1>3. ListsFused
    BY <1>1, RetrievedLists
  <1>4. CASE Single
    <2>1. Variants = {1} /\ Ranking = fused[1] /\ 1 \in Variants
      BY <1>4 DEF Single, Variants, Ranking
    <2>2. S = ToSet(Ranking)
      BY <2>1
    <2>3. IsList(Ranking, 6)
      BY <1>3, <2>1 DEF ListsFused
    <2>4. Ranking \in Seq(Chunks) /\ IsInjective(Ranking)
      BY <2>3 DEF IsList, IsInjective
    <2>5. \A a, b \in ToSet(Ranking) : Beats(a, b) => RankIn(Ranking, a) < RankIn(Ranking, b)
      BY <1>1, <2>1, BeatenInVariant
    <2> HIDE DEF S
    <2> QED
      BY <1>2, <2>2, <2>4, <2>5
  <1>5. CASE ~Single
    <2>1. Ranking = FuseVariants
      BY <1>5 DEF Ranking
    <2>2. /\ Enumerates(Ranking, S) /\ S \subseteq Chunks
          /\ \A a, b \in S : Weighted(a) > Weighted(b) => RankIn(Ranking, a) < RankIn(Ranking, b)
      BY <1>3, <2>1, FuseVariantsIs
    <2>3. \A a, b \in S : Beats(a, b) => Weighted(a) > Weighted(b)
      <3> SUFFICES ASSUME NEW a \in S, NEW b \in S, Beats(a, b)  PROVE Weighted(a) > Weighted(b)
        OBVIOUS
      <3>1. PICK s \in Counting : Ahead(s, a, b)
        BY DEF Beats
      <3>2. PICK w \in Variants : ~Lost(w) /\ (s = listed[w]["dense"] \/ s = listed[w]["sparse"])
        BY CountingIs
      <3>3. Share(fused[w], b) < Share(fused[w], a)
        BY <1>1, <3>1, <3>2, BeatenInVariant
      <3>4. \A v \in Variants : Share(fused[v], b) <= Share(fused[v], a)
        BY <1>1, BeatenInVariant
      <3> QED
        BY <1>3, <3>3, <3>4, WeightsMore
    <2> HIDE DEF S
    <2>4. Ranking \in Seq(Chunks) /\ IsInjective(Ranking) /\ ToSet(Ranking) = S
      BY <2>2, SeqMonotonic DEF Enumerates, IsInjective
    <2> QED
      BY <1>2, <2>2, <2>3, <2>4
  <1> QED
    BY <1>4, <1>5
-----------------------------------------------------------------------------
(* FlattenSeq: if e says where each part ends, it has them one after the   *)
(* other.                                                                  *)
Flattens(q, m, g) == g = [i \in 1..m |-> IF i = 1 THEN q[i] ELSE g[i - 1] \o q[i]]

LEMMA FlattenExists ==
  ASSUME NEW q, NEW N \in Nat
  PROVE  \E g : Flattens(q, N, g)
  <1> DEFINE Fails == {m \in Nat : ~\E g : Flattens(q, m, g)}
  <1>1. ASSUME Fails # {}  PROVE FALSE
    <2>1. PICK m \in Fails : \A k \in Fails : m <= k
      BY <1>1, NatHasLeast
    <2>2. CASE m = 0
      <3>1. Flattens(q, 0, <<>>)
        BY DEF Flattens
      <3> QED
        BY <2>1, <2>2, <3>1
    <2>3. CASE m # 0
      <3>1. m - 1 \in Nat /\ m - 1 < m /\ m \in Nat
        BY <2>1, <2>3
      <3>2. m - 1 \notin Fails
        BY <2>1, <3>1
      <3>3. PICK g : Flattens(q, m - 1, g)
        <4> HIDE DEF Flattens
        <4> QED
          BY <3>1, <3>2
      <3>4. \A i \in 1..(m - 1) : g[i] = IF i = 1 THEN q[i] ELSE g[i - 1] \o q[i]
        BY <3>3 DEF Flattens
      <3> DEFINE h == [i \in 1..m |-> IF i < m THEN g[i]
                                      ELSE IF i = 1 THEN q[i] ELSE g[i - 1] \o q[i]]
      <3>5. \A i \in 1..m : h[i] = IF i = 1 THEN q[i] ELSE h[i - 1] \o q[i]
        <4> SUFFICES ASSUME NEW i \in 1..m  PROVE h[i] = IF i = 1 THEN q[i] ELSE h[i - 1] \o q[i]
          OBVIOUS
        <4>1. i # 1 => i - 1 \in 1..m /\ i - 1 < m /\ h[i - 1] = g[i - 1]
          BY <3>1
        <4>2. CASE i < m
          <5>1. i \in 1..(m - 1) /\ h[i] = g[i]
            BY <3>1, <4>2
          <5> HIDE DEF h
          <5> QED
            BY <3>4, <4>1, <5>1
        <4>3. CASE ~(i < m)
          <5>1. h[i] = IF i = 1 THEN q[i] ELSE g[i - 1] \o q[i]
            BY <4>3
          <5> HIDE DEF h
          <5> QED
            BY <4>1, <5>1
        <4> QED
          BY <4>2, <4>3
      <3>6. h = [i \in 1..m |-> h[i]]
        OBVIOUS
      <3>7. Flattens(q, m, h)
        <4> HIDE DEF h
        <4> QED
          BY <3>5, <3>6 DEF Flattens
      <3> QED
        BY <2>1, <3>7
    <2> QED
      BY <2>2, <2>3
  <1> HIDE DEF Fails
  <1>2. Fails = {}
    BY <1>1
  <1> QED
    BY <1>2 DEF Fails

PartsEnd(q, e) ==
    /\ e \in [0..Len(q) -> Nat] /\ e[0] = 0
    /\ \A b \in 1..Len(q) : e[b - 1] <= e[b] /\ Len(q[b]) = e[b] - e[b - 1]

LEMMA FlattenIs ==
  ASSUME NEW T, NEW q \in Seq(Seq(T)), q # <<>>, NEW e, PartsEnd(q, e)
  PROVE  /\ FlattenSeq(q) \in Seq(T) /\ Len(FlattenSeq(q)) = e[Len(q)]
         /\ \A b \in 1..Len(q) : \A k \in 1..Len(q[b]) : FlattenSeq(q)[e[b - 1] + k] = q[b][k]
  <1> DEFINE N == Len(q)
             f == CHOOSE g : Flattens(q, N, g)
             Has(i) == /\ f[i] \in Seq(T) /\ Len(f[i]) = e[i]
                       /\ \A b \in 1..i : \A k \in 1..Len(q[b]) : f[i][e[b - 1] + k] = q[b][k]
             Fails == {i \in Nat : i \in 1..N /\ ~Has(i)}
  <1>1. N \in Nat \ {0} /\ \A b \in 1..N : q[b] \in Seq(T)
    BY ElementOfSeq, EmptySeq
  <1>2. Flattens(q, N, f)
    <2>1. \E g : Flattens(q, N, g)
      BY <1>1, FlattenExists
    <2> HIDE DEF Flattens
    <2> QED
      BY <2>1
  <1>3. FlattenSeq(q) = f[N]
    BY <1>1 DEF FlattenSeq, Flattens
  <1> HIDE DEF f
  <1>4. \A i \in 1..N : f[i] = IF i = 1 THEN q[i] ELSE f[i - 1] \o q[i]
    BY <1>2 DEF Flattens
  <1>5. \A b \in 1..N : /\ e[b] \in Nat /\ e[b - 1] \in Nat /\ e[b - 1] <= e[b]
                        /\ Len(q[b]) = e[b] - e[b - 1]
    <2>1. \A b \in 1..N : b \in 0..N /\ b - 1 \in 0..N
      BY <1>1
    <2> QED
      BY <2>1 DEF PartsEnd
  <1>6. Has(1)
    <2>1. 1 \in 1..N /\ e[0] = 0 /\ 1 - 1 = 0
      BY <1>1 DEF PartsEnd
    <2>2. f[1] = q[1] /\ q[1] \in Seq(T) /\ Len(q[1]) = e[1] /\ e[1] \in Nat
      BY <1>1, <1>4, <1>5, <2>1
    <2>3. \A b \in 1..1 : b = 1 /\ e[b - 1] = 0
      BY <2>1
    <2>4. \A k \in 1..Len(q[1]) : 0 + k = k
      BY <2>2
    <2> QED
      BY <2>1, <2>2, <2>3, <2>4
  <1>7. ASSUME NEW i \in 1..N, i # 1, Has(i - 1)  PROVE Has(i)
    <2>1. i - 1 \in 1..N /\ i - 1 \in Nat /\ q[i] \in Seq(T) /\ Len(q[i]) = e[i] - e[i - 1]
          /\ e[i] \in Nat /\ e[i - 1] \in Nat /\ e[i - 1] <= e[i]
      BY <1>1, <1>5, <1>7
    <2>2. f[i] = f[i - 1] \o q[i]
      BY <1>4, <1>7
    <2> DEFINE s == f[i - 1]   t == q[i]
    <2>3. s \in Seq(T) /\ Len(s) = e[i - 1] /\ t \in Seq(T)
      BY <1>7, <2>1
    <2> HIDE DEF s, t
    <2>4. /\ s \o t \in Seq(T) /\ Len(s \o t) = Len(s) + Len(t)
          /\ \A j \in 1..Len(s) + Len(t) : (s \o t)[j] = IF j <= Len(s) THEN s[j] ELSE t[j - Len(s)]
      BY <2>3, ConcatProperties
    <2>5. f[i] = s \o t /\ Len(t) = e[i] - e[i - 1]
      BY <2>1, <2>2 DEF s, t
    <2>6. f[i] \in Seq(T) /\ Len(f[i]) = e[i]
      <3>1. PICK x \in Nat : x = Len(s) /\ x = e[i - 1]
        BY <2>3
      <3>2. PICK y \in Nat : y = Len(t) /\ y = e[i] - x
        BY <2>3, <2>5, <3>1
      <3>3. PICK z \in Nat : z = e[i] /\ y = z - x
        BY <2>1, <3>2
      <3>4. x + y = z
        BY <3>3
      <3> QED
        BY <2>4, <2>5, <3>1, <3>2, <3>3, <3>4
    <2>7. ASSUME NEW b \in 1..i, NEW k \in 1..Len(q[b])  PROVE f[i][e[b - 1] + k] = q[b][k]
      <3>1. b \in 1..N /\ e[b - 1] \in Nat /\ e[b] \in Nat /\ Len(q[b]) = e[b] - e[b - 1]
        <4>1. b \in 1..N
          BY <1>1, <2>1
        <4> QED
          BY <1>5, <4>1
      <3>2. CASE b = i
        <4>1. k \in 1..Len(t) /\ e[b - 1] + k \in 1..(Len(s) + Len(t)) /\ ~(e[b - 1] + k <= Len(s))
              /\ (e[b - 1] + k) - Len(s) = k
          <5>1. k \in 1..Len(t)
            BY <3>2 DEF t
          <5>2. e[b - 1] = Len(s)
            BY <2>3, <3>2
          <5>3. PICK x \in Nat : x = Len(s)
            BY <2>3
          <5>4. PICK y \in Nat : y = Len(t)
            BY <2>3
          <5> QED
            BY <5>1, <5>2, <5>3, <5>4
        <4>2. f[i][e[b - 1] + k] = t[k]
          BY <2>4, <2>5, <4>1
        <4> QED
          BY <3>2, <4>2 DEF t
      <3>3. CASE b # i
        <4>1. b \in 1..(i - 1)
          BY <2>1, <3>3
        <4>2. f[i - 1][e[b - 1] + k] = q[b][k]
          BY <1>7, <4>1
        <4>3. e[b] <= e[i - 1]
          <5> DEFINE Later == {j \in Nat : b <= j /\ j <= N /\ ~(e[b] <= e[j])}
          <5>1. ASSUME Later # {}  PROVE FALSE
            <6>1. PICK j \in Later : \A m \in Later : j <= m
              BY <5>1, NatHasLeast
            <6>2. j # b
              BY <3>1, <6>1
            <6>3. j \in 1..N /\ j - 1 \in Nat /\ b <= j - 1 /\ j - 1 <= N /\ ~(j <= j - 1)
              BY <1>1, <3>1, <6>1, <6>2
            <6>4. j - 1 \in 1..N /\ j - 1 \notin Later
              BY <1>1, <3>1, <6>1, <6>3
            <6>5. e[b] <= e[j - 1]
              BY <6>3, <6>4
            <6>6. e[j - 1] <= e[j] /\ e[j] \in Nat /\ e[j - 1] \in Nat
              <7>1. j \in 1..N
                BY <6>3
              <7> QED
                BY <1>5, <7>1
            <6>7. ~(e[b] <= e[j])
              BY <6>1
            <6>8. PICK u \in Nat : u = e[b]
              BY <3>1
            <6>9. PICK v \in Nat : v = e[j - 1] /\ u <= v
              BY <6>5, <6>6, <6>8
            <6>10. PICK w \in Nat : w = e[j] /\ v <= w /\ ~(u <= w)
              BY <6>6, <6>7, <6>8, <6>9
            <6> QED
              BY <6>9, <6>10
          <5>2. i - 1 \in Nat /\ b <= i - 1 /\ i - 1 <= N
            BY <1>1, <2>1, <4>1
          <5> QED
            BY <5>1, <5>2
        <4>4. e[b - 1] + k \in 1..Len(s) /\ e[b - 1] + k \in 1..(Len(s) + Len(t))
          <5>1. PICK x \in Nat : x = Len(s) /\ x = e[i - 1]
            BY <2>3
          <5>2. PICK y \in Nat : y = Len(t)
            BY <2>3
          <5>3. PICK z \in Nat : z = e[b - 1]
            BY <3>1
          <5>4. PICK w \in Nat : w = e[b] /\ w <= x
            BY <3>1, <4>3, <5>1
          <5>5. k \in 1..(w - z)
            BY <3>1, <5>3, <5>4
          <5>6. z + k \in 1..x /\ z + k \in 1..(x + y)
            BY <5>4, <5>5
          <5> QED
            BY <5>1, <5>2, <5>3, <5>6
        <4>5. f[i][e[b - 1] + k] = s[e[b - 1] + k]
          BY <2>4, <2>5, <4>4
        <4> QED
          BY <4>2, <4>5 DEF s
      <3> QED
        BY <3>2, <3>3
    <2> QED
      BY <2>6, <2>7
  <1>8. ASSUME Fails # {}  PROVE FALSE
    <2>1. PICK i \in Fails : \A k \in Fails : i <= k
      BY <1>8, NatHasLeast
    <2> HIDE DEF Has
    <2>2. i \in 1..N /\ i # 1 /\ ~Has(i)
      BY <1>6, <2>1
    <2>3. i - 1 \in 1..N /\ i - 1 \in Nat /\ ~(i <= i - 1)
      BY <1>1, <2>2
    <2>4. Has(i - 1)
      BY <2>1, <2>3
    <2> QED
      BY <1>7, <2>2, <2>4
  <1>9. Has(N)
    <2> HIDE DEF Has
    <2>1. N \in Nat /\ N \in 1..N
      BY <1>1
    <2> QED
      BY <1>8, <2>1
  <1> QED
    BY <1>3, <1>9
-----------------------------------------------------------------------------
(* The batches part the bounded candidates.                                *)
BatchStates == {"waiting", "scoring", "scored", "failed", "cancelled"}
BatchCount == (Len(Bounded) + BatchSize - 1) \div BatchSize
EndOf(b) == Least(b * BatchSize, Len(Bounded))
Slice(b) == SubSeq(Bounded, (b - 1) * BatchSize + 1, EndOf(b))
Batches == [chunks : Seq(Chunks), state : BatchStates, scores : Seq(Scores)]

BatchesHold ==
    /\ batches \in [1..BatchCount -> Batches]
    /\ \A b \in 1..BatchCount :
          /\ batches[b].chunks = Slice(b)
          /\ batches[b].state = "scored" => Len(batches[b].scores) = Len(batches[b].chunks)

PoolIs == pool \in Seq(Chunks) /\ \A i, j \in DOMAIN pool : pool[i] = pool[j] => i = j

LEMMA FirstIs ==
  ASSUME NEW S, NEW s \in Seq(S), NEW n \in Nat
  PROVE  /\ First(s, n) \in Seq(S) /\ Len(First(s, n)) = Least(n, Len(s)) /\ Least(n, Len(s)) \in Nat
         /\ Least(n, Len(s)) <= Len(s)
         /\ \A i \in 1..Least(n, Len(s)) : First(s, n)[i] = s[i] /\ i \in 1..Len(s)
  <1>1. PICK m \in Nat : m = Least(n, Len(s)) /\ m <= Len(s)
    BY DEF Least
  <1>2. \A i \in 1..m : i \in 1..Len(s) /\ s[i] \in S
    BY <1>1, ElementOfSeq
  <1>3. SubSeq(s, 1, m) \in Seq(S) /\ Len(SubSeq(s, 1, m)) = m
        /\ \A i \in 1..m : SubSeq(s, 1, m)[i] = s[i]
    <2>1. /\ SubSeq(s, 1, m) \in Seq(S) /\ Len(SubSeq(s, 1, m)) = IF 1 <= m THEN m - 1 + 1 ELSE 0
          /\ \A i \in 1..(m - 1 + 1) : SubSeq(s, 1, m)[i] = s[1 + i - 1]
      BY <1>2, SubSeqProperties
    <2>2. (m - 1) + 1 = m /\ \A i \in 1..m : (1 + i) - 1 = i
      OBVIOUS
    <2> QED
      BY <2>1, <2>2
  <1>4. First(s, n) = SubSeq(s, 1, m)
    BY <1>1 DEF First
  <1> QED
    BY <1>1, <1>2, <1>3, <1>4

LEMMA BoundedIs ==
  ASSUME PoolIs, search.limit \in Nat \cup {NoLimit}
  PROVE  Bounded \in Seq(Chunks) /\ \A i, j \in DOMAIN Bounded : Bounded[i] = Bounded[j] => i = j
  <1> DEFINE n == IF Single THEN Least(LimitOr(Ceiling, search.limit), Ceiling) ELSE Ceiling
  <1>1. n \in Nat
    BY SearchAssumption DEF Least, LimitOr
  <1>2. Bounded = First(pool, n)
    BY DEF Bounded
  <1> HIDE DEF n
  <1>3. PICK m : m = Least(n, Len(pool))
    OBVIOUS
  <1>4. /\ Bounded \in Seq(Chunks) /\ Len(Bounded) = m /\ m \in Nat /\ m <= Len(pool)
        /\ \A i \in 1..m : Bounded[i] = pool[i] /\ i \in 1..Len(pool)
    <2>1. pool \in Seq(Chunks)
      BY DEF PoolIs
    <2>2. /\ First(pool, n) \in Seq(Chunks) /\ Len(First(pool, n)) = m /\ m \in Nat /\ m <= Len(pool)
          /\ \A i \in 1..m : First(pool, n)[i] = pool[i] /\ i \in 1..Len(pool)
      BY <1>1, <1>3, <2>1, FirstIs
    <2> QED
      BY <1>2, <2>2
  <1>5. DOMAIN Bounded = 1..m /\ DOMAIN pool = 1..Len(pool)
    BY <1>4 DEF PoolIs
  <1> QED
    BY <1>4, <1>5 DEF PoolIs

(* A quotient and what it divides.                                         *)
LEMMA QuotientBounds ==
  ASSUME NEW n \in Nat, NEW d \in Nat \ {0}
  PROVE  LET q == (n + d - 1) \div d
         IN  q \in Nat /\ n <= q * d /\ (n > 0 => q > 0 /\ (q - 1) * d < n) /\ (n = 0 => q = 0)
  <1> DEFINE m == n + d - 1
             q == m \div d
  <1>1. m \in Nat
    OBVIOUS
  <1>2. q \in Nat /\ m = d * q + (m % d) /\ m % d \in Nat /\ m % d < d
    BY <1>1
  <1>3. PICK r \in Nat : r = m % d /\ r < d
    BY <1>2
  <1>4. PICK p \in Nat : p = q
    BY <1>2
  <1>5. n + d - 1 = d * p + r
    BY <1>2, <1>3, <1>4
  <1>6. n <= p * d
    BY <1>3, <1>5
  <1>7. ASSUME n > 0  PROVE p > 0 /\ (p - 1) * d < n
    <2>1. p # 0
      BY <1>3, <1>5, <1>7
    <2>2. (p - 1) * d = d * p - d
      OBVIOUS
    <2> QED
      BY <1>3, <1>5, <2>1, <2>2
  <1>8. ASSUME n = 0  PROVE p = 0
    <2> SUFFICES ASSUME p # 0  PROVE FALSE
      OBVIOUS
    <2>1. PICK k \in Nat : p = k + 1
      <3>1. p - 1 \in Nat /\ p = (p - 1) + 1
        OBVIOUS
      <3> QED
        BY <3>1
    <2>2. d * p = d * k + d /\ d * k \in Nat
      BY <2>1
    <2> QED
      BY <1>3, <1>5, <1>8, <2>2
  <1> HIDE DEF q, m
  <1> QED
    BY <1>4, <1>6, <1>7, <1>8 DEF q, m

LEMMA EndsAre ==
  ASSUME Bounded \in Seq(Chunks)
  PROVE  /\ BatchCount \in Nat /\ (BatchCount = 0 <=> Len(Bounded) = 0)
         /\ EndOf(0) = 0 /\ EndOf(BatchCount) = Len(Bounded)
         /\ \A b \in 1..BatchCount :
               /\ EndOf(b - 1) = (b - 1) * BatchSize /\ EndOf(b - 1) \in Nat /\ EndOf(b) \in Nat
               /\ EndOf(b - 1) < EndOf(b) /\ EndOf(b) <= Len(Bounded)
  <1>1. PICK n \in Nat : n = Len(Bounded)
    OBVIOUS
  <1>2. PICK d \in Nat \ {0} : d = BatchSize
    BY SearchAssumption
  <1>3. PICK q : q = (n + d - 1) \div d
    OBVIOUS
  <1>4. q \in Nat /\ n <= q * d /\ (n > 0 => q > 0 /\ (q - 1) * d < n) /\ (n = 0 => q = 0)
    BY <1>3, QuotientBounds
  <1>5. BatchCount = q /\ \A b : EndOf(b) = Least(b * d, n)
    BY <1>1, <1>2, <1>3 DEF BatchCount, EndOf
  <1>6. EndOf(0) = 0 /\ EndOf(q) = n
    <2>1. 0 * d = 0 /\ q * d \in Nat
      BY <1>4
    <2> QED
      BY <1>4, <1>5, <2>1 DEF Least
  <1>7. ASSUME NEW b \in 1..q
        PROVE  /\ EndOf(b - 1) = (b - 1) * d /\ EndOf(b - 1) \in Nat /\ EndOf(b) \in Nat
               /\ EndOf(b - 1) < EndOf(b) /\ EndOf(b) <= n
    <2>1. b \in Nat /\ b - 1 \in Nat /\ q - 1 \in Nat /\ b - 1 <= q - 1 /\ q > 0 /\ b <= q
      BY <1>4
    <2>2. n > 0
      BY <1>4, <2>1
    <2>3. d * (b - 1) <= d * (q - 1) /\ d * (b - 1) \in Nat
      BY <2>1, ProductsKeepOrder
    <2>4. (b - 1) * d = d * (b - 1) /\ (q - 1) * d = d * (q - 1)
      BY <2>1
    <2>5. (b - 1) * d < n /\ (b - 1) * d \in Nat
      BY <1>4, <2>1, <2>2, <2>3, <2>4
    <2>6. b * d = (b - 1) * d + d
      BY <2>1
    <2>7. PICK x \in Nat : x = (b - 1) * d
      BY <2>5
    <2>8. EndOf(b - 1) = x
      BY <1>5, <2>5, <2>7 DEF Least
    <2>9. EndOf(b) = Least(x + d, n)
      BY <1>5, <2>6, <2>7
    <2>10. EndOf(b) \in Nat /\ x < EndOf(b) /\ EndOf(b) <= n
      BY <2>5, <2>7, <2>9 DEF Least
    <2> QED
      BY <2>7, <2>8, <2>10
  <1>8. q = 0 <=> n = 0
    BY <1>4
  <1> QED
    BY <1>1, <1>2, <1>4, <1>5, <1>6, <1>7, <1>8

LEMMA SlicesAre ==
  ASSUME Bounded \in Seq(Chunks), NEW b \in 1..BatchCount
  PROVE  /\ Slice(b) \in Seq(Chunks) /\ Len(Slice(b)) = EndOf(b) - EndOf(b - 1)
         /\ \A k \in 1..Len(Slice(b)) : /\ EndOf(b - 1) + k \in 1..Len(Bounded)
                                        /\ Slice(b)[k] = Bounded[EndOf(b - 1) + k]
  <1>1. PICK x \in Nat : x = EndOf(b - 1)
    BY EndsAre
  <1>2. PICK y \in Nat : y = EndOf(b) /\ x < y /\ y <= Len(Bounded)
    BY <1>1, EndsAre
  <1>3. Slice(b) = SubSeq(Bounded, x + 1, y)
    <2>1. x = (b - 1) * BatchSize
      BY <1>1, EndsAre
    <2> QED
      BY <1>2, <2>1 DEF Slice
  <1>4. \A i \in (x + 1)..y : i \in 1..Len(Bounded) /\ Bounded[i] \in Chunks
    <2>1. \A i \in (x + 1)..y : i \in 1..Len(Bounded)
      BY <1>1, <1>2
    <2> QED
      BY <2>1, ElementOfSeq
  <1>5. /\ SubSeq(Bounded, x + 1, y) \in Seq(Chunks)
        /\ Len(SubSeq(Bounded, x + 1, y)) = IF x + 1 <= y THEN y - (x + 1) + 1 ELSE 0
        /\ \A k \in 1..(y - (x + 1) + 1) : SubSeq(Bounded, x + 1, y)[k] = Bounded[(x + 1) + k - 1]
    <2> DEFINE l == x + 1
    <2>1. l \in Int /\ y \in Int /\ \A i \in l..y : Bounded[i] \in Chunks
      BY <1>1, <1>2, <1>4
    <2> HIDE DEF l
    <2>2. /\ SubSeq(Bounded, l, y) \in Seq(Chunks)
          /\ Len(SubSeq(Bounded, l, y)) = IF l <= y THEN y - l + 1 ELSE 0
          /\ \A k \in 1..(y - l + 1) : SubSeq(Bounded, l, y)[k] = Bounded[l + k - 1]
      BY <2>1, SubSeqProperties
    <2> QED
      BY <2>2 DEF l
  <1>6. x + 1 <= y /\ (y - (x + 1)) + 1 = y - x
    BY <1>1, <1>2
  <1>7. Len(Slice(b)) = y - x
    BY <1>3, <1>5, <1>6
  <1>8. \A k \in 1..(y - x) : x + k \in (x + 1)..y /\ ((x + 1) + k) - 1 = x + k
    OBVIOUS
  <1>9. ASSUME NEW k \in 1..(y - x)
        PROVE  Slice(b)[k] = Bounded[x + k] /\ x + k \in 1..Len(Bounded)
    <2>1. x + k \in (x + 1)..y /\ ((x + 1) + k) - 1 = x + k
      BY <1>8
    <2>2. x + k \in 1..Len(Bounded)
      BY <1>4, <2>1
    <2>3. k \in 1..(y - (x + 1) + 1)
      BY <1>6
    <2>4. SubSeq(Bounded, x + 1, y)[k] = Bounded[(x + 1) + k - 1]
      BY <1>5, <2>3
    <2> QED
      BY <1>3, <2>1, <2>2, <2>4
  <1> QED
    BY <1>1, <1>2, <1>3, <1>5, <1>7, <1>9
-----------------------------------------------------------------------------
(* The scores, gathered in the order of the batches, are in the order of   *)
(* the candidates.                                                         *)
BoundedHolds ==
    /\ Bounded \in Seq(Chunks) /\ Len(Bounded) # 0
    /\ \A i, j \in DOMAIN Bounded : Bounded[i] = Bounded[j] => i = j

AllScored == \A b \in 1..BatchCount : batches[b].state = "scored"

Gathered == FlattenSeq([b \in DOMAIN batches |-> batches[b].scores])

LEMMA SomeBatchHas ==
  ASSUME BoundedHolds, NEW i \in 1..Len(Bounded)
  PROVE  \E b \in 1..BatchCount : \E k \in 1..Len(Slice(b)) : i = EndOf(b - 1) + k
  <1> DEFINE Above == {b \in Nat : b \in 1..BatchCount /\ i <= EndOf(b)}
  <1>1. PICK n \in Nat : n = Len(Bounded) /\ i \in 1..n
    BY DEF BoundedHolds
  <1>2. PICK m \in Nat : m = BatchCount /\ m # 0 /\ EndOf(m) = n
    BY <1>1, EndsAre DEF BoundedHolds
  <1>3. Above # {} /\ Above \subseteq Nat
    <2>1. m \in 1..m /\ i <= EndOf(m)
      BY <1>1, <1>2
    <2> QED
      BY <1>2, <2>1
  <1>4. PICK b \in Above : \A c \in Above : b <= c
    BY <1>3, NatHasLeast
  <1>5. b \in 1..BatchCount /\ b \in Nat /\ i <= EndOf(b)
    BY <1>4
  <1>6. PICK x \in Nat : x = EndOf(b - 1)
    BY <1>5, EndsAre DEF BoundedHolds
  <1>7. PICK y \in Nat : y = EndOf(b) /\ x < y /\ y <= n
    BY <1>1, <1>5, <1>6, EndsAre DEF BoundedHolds
  <1>8. x < i
    <2>1. CASE b = 1
      <3>1. x = 0
        BY <1>6, <2>1, EndsAre DEF BoundedHolds
      <3> QED
        BY <1>1, <3>1
    <2>2. CASE b # 1
      <3>1. b - 1 \in Nat /\ b - 1 \in 1..m /\ ~(b <= b - 1)
        BY <1>2, <1>5, <2>2
      <3>2. b - 1 \notin Above
        BY <1>4, <3>1
      <3>3. ~(i <= x)
        BY <1>2, <1>6, <3>1, <3>2
      <3> QED
        BY <1>1, <3>3
    <2> QED
      BY <2>1, <2>2
  <1>9. Len(Slice(b)) = y - x
    BY <1>5, <1>6, <1>7, SlicesAre DEF BoundedHolds
  <1>10. i - x \in 1..(y - x) /\ i = x + (i - x)
    BY <1>1, <1>5, <1>7, <1>8
  <1> QED
    BY <1>5, <1>6, <1>9, <1>10

LEMMA GatheredIs ==
  ASSUME BatchesHold, AllScored, BoundedHolds
  PROVE  /\ Len(Gathered) = Len(Bounded) /\ Gathered \in Seq(Scores)
         /\ \A b \in 1..BatchCount : \A k \in 1..Len(Slice(b)) :
               Gathered[EndOf(b - 1) + k] = batches[b].scores[k]
  <1> DEFINE N == BatchCount
             q == [b \in DOMAIN batches |-> batches[b].scores]
             e == [b \in 0..N |-> EndOf(b)]
  <1>1. N \in Nat /\ N # 0 /\ DOMAIN batches = 1..N
    BY EndsAre DEF BatchesHold, BoundedHolds
  <1>2. \A b \in 1..N : batches[b] \in Batches /\ batches[b].scores \in Seq(Scores)
    BY DEF BatchesHold, Batches
  <1>3. q \in Seq(Seq(Scores)) /\ Len(q) = N /\ q # <<>> /\ \A b \in 1..N : q[b] = batches[b].scores
    <2>1. q = [b \in 1..N |-> batches[b].scores]
      BY <1>1
    <2>2. q \in [1..N -> Seq(Scores)]
      BY <1>2, <2>1
    <2> HIDE DEF q
    <2>3. q \in Seq(Seq(Scores)) /\ Len(q) = N
      BY <1>1, <2>2
    <2> QED
      BY <1>1, <2>1, <2>3
  <1>4. \A b \in 1..N : Len(q[b]) = EndOf(b) - EndOf(b - 1) /\ Len(q[b]) = Len(Slice(b))
    <2>1. \A b \in 1..N : Len(batches[b].scores) = Len(Slice(b))
      BY DEF BatchesHold, AllScored
    <2>2. \A b \in 1..N : Len(Slice(b)) = EndOf(b) - EndOf(b - 1)
      BY SlicesAre DEF BoundedHolds
    <2> HIDE DEF q
    <2> QED
      BY <1>3, <2>1, <2>2
  <1>5. PartsEnd(q, e)
    <2>1. \A b \in 1..N : b \in 0..N /\ b - 1 \in 0..N
      BY <1>1
    <2>2. \A b \in 0..N : b = 0 \/ b \in 1..N
      BY <1>1
    <2>3. EndOf(0) = 0 /\ \A b \in 1..N : EndOf(b) \in Nat /\ EndOf(b - 1) \in Nat /\ EndOf(b - 1) < EndOf(b)
      BY EndsAre DEF BoundedHolds
    <2>4. 0 \in 0..N /\ \A b \in 0..N : EndOf(b) \in Nat
      BY <1>1, <2>2, <2>3
    <2>5. \A b \in 1..N : EndOf(b - 1) <= EndOf(b)
      BY <2>3
    <2>6. e \in [0..N -> Nat] /\ e[0] = 0 /\ \A b \in 0..N : e[b] = EndOf(b)
      BY <2>3, <2>4
    <2> HIDE DEF e, q, N
    <2> QED
      BY <1>3, <1>4, <2>1, <2>5, <2>6 DEF PartsEnd
  <1>6. e[N] = Len(Bounded) /\ \A b \in 1..N : e[b - 1] = EndOf(b - 1)
    <2>1. N \in 0..N /\ \A b \in 1..N : b - 1 \in 0..N
      BY <1>1
    <2>2. EndOf(N) = Len(Bounded)
      BY EndsAre DEF BoundedHolds
    <2> QED
      BY <2>1, <2>2
  <1>7. Gathered = FlattenSeq(q)
    BY DEF Gathered
  <1> HIDE DEF q, e, N
  <1>8. /\ FlattenSeq(q) \in Seq(Scores) /\ Len(FlattenSeq(q)) = e[Len(q)]
        /\ \A b \in 1..Len(q) : \A k \in 1..Len(q[b]) : FlattenSeq(q)[e[b - 1] + k] = q[b][k]
    BY <1>3, <1>5, FlattenIs
  <1>9. ASSUME NEW b \in 1..N, NEW k \in 1..Len(Slice(b))
        PROVE  Gathered[EndOf(b - 1) + k] = batches[b].scores[k]
    <2>1. b \in 1..Len(q) /\ k \in 1..Len(q[b]) /\ q[b] = batches[b].scores
      BY <1>3, <1>4
    <2>2. e[b - 1] = EndOf(b - 1)
      BY <1>6
    <2>3. FlattenSeq(q)[e[b - 1] + k] = q[b][k]
      BY <1>8, <2>1
    <2> QED
      BY <1>7, <2>1, <2>2, <2>3
  <1> QED
    BY <1>3, <1>6, <1>7, <1>8, <1>9 DEF N

LEMMA ScoresAreGathered ==
  ASSUME BatchesHold, AllScored, BoundedHolds, NEW i \in 1..Len(Bounded)
  PROVE  Gathered[i] = ScoreOf(Bounded[i]) /\ Gathered[i] \in Int
  <1> DEFINE c == Bounded[i]
             Has(b) == c \in ToSet(batches[b].chunks)
  <1>1. DOMAIN batches = 1..BatchCount /\ \A b \in 1..BatchCount : batches[b].chunks = Slice(b)
    BY DEF BatchesHold
  <1>2. PICK d \in 1..BatchCount : \E k \in 1..Len(Slice(d)) : i = EndOf(d - 1) + k
    BY SomeBatchHas
  <1>3. PICK k \in 1..Len(Slice(d)) : i = EndOf(d - 1) + k
    BY <1>2
  <1>4. Slice(d) \in Seq(Chunks) /\ Slice(d)[k] = c
    BY <1>3, SlicesAre DEF BoundedHolds
  <1>5. Has(d)
    <2>1. DOMAIN Slice(d) = 1..Len(Slice(d))
      BY <1>4
    <2>2. c \in ToSet(Slice(d))
      BY <1>4, <2>1 DEF ToSet
    <2> QED
      BY <1>1, <2>2
  <1>6. ASSUME NEW b \in 1..BatchCount, Has(b)
        PROVE  batches[b].scores[RankIn(batches[b].chunks, c)] = Gathered[i]
    <2>1. Slice(b) \in Seq(Chunks) /\ c \in ToSet(Slice(b)) /\ batches[b].chunks = Slice(b)
      BY <1>1, <1>6, SlicesAre DEF BoundedHolds
    <2>2. PICK r \in 1..Len(Slice(b)) : r = RankIn(Slice(b), c) /\ Slice(b)[r] = c
      <3> HIDE DEF c
      <3> QED
        BY <2>1, RankIs
    <2>3. EndOf(b - 1) + r \in 1..Len(Bounded) /\ Bounded[EndOf(b - 1) + r] = c
      BY <2>2, SlicesAre DEF BoundedHolds
    <2>4. DOMAIN Bounded = 1..Len(Bounded)
      BY DEF BoundedHolds
    <2>5. EndOf(b - 1) + r = i
      BY <2>3, <2>4 DEF BoundedHolds
    <2>6. Gathered[EndOf(b - 1) + r] = batches[b].scores[r]
      BY GatheredIs
    <2> QED
      BY <2>1, <2>2, <2>5, <2>6
  <1>7. PICK b \in 1..BatchCount : b = (CHOOSE x \in DOMAIN batches : Has(x)) /\ Has(b)
    <2> HIDE DEF Has
    <2> QED
      BY <1>1, <1>5
  <1>8. ScoreOf(c) = batches[b].scores[RankIn(batches[b].chunks, c)]
    BY <1>7 DEF ScoreOf
  <1>9. Gathered[i] \in Int
    <2>1. Gathered \in Seq(Scores) /\ i \in 1..Len(Gathered)
      BY GatheredIs
    <2>2. Gathered[i] \in Scores
      BY <2>1, ElementOfSeq
    <2> QED
      BY <2>2, SearchAssumption
  <1> HIDE DEF Has, c
  <1>10. Gathered[i] = ScoreOf(c)
    BY <1>6, <1>7, <1>8
  <1> QED
    BY <1>9, <1>10 DEF c
-----------------------------------------------------------------------------
(* What the reranker returns: the candidates, each once, the better first. *)
LEMMA RerankedIs ==
  ASSUME BatchesHold, AllScored, BoundedHolds
  PROVE  /\ Reranked \in Seq(Chunks) /\ Len(Reranked) = Len(Bounded)
         /\ \A i, j \in 1..Len(Bounded) : Reranked[i] = Reranked[j] => i = j
         /\ ToSet(Reranked) = ToSet(Bounded)
         /\ \A c \in ToSet(Bounded) : ScoreOf(c) \in Int
         /\ \A i, j \in 1..Len(Bounded) : i < j => ScoreOf(Reranked[i]) >= ScoreOf(Reranked[j])
  <1> DEFINE S == DOMAIN Bounded
             g == Gathered
             Before(i, j) == g[i] > g[j] \/ (g[i] = g[j] /\ i < j)
             R == {p \in S \X S : Before(p[1], p[2])}
             o == Sorted(S, Before)
  <1>1. PICK n \in Nat : n = Len(Bounded) /\ S = 1..n
    BY DEF BoundedHolds
  <1>2. IsFiniteSet(S) /\ Cardinality(S) = n
    <2>1. IsFiniteSet(1..n) /\ Cardinality(1..n) = n
      <3>1. 1 \in Int /\ n \in Int
        OBVIOUS
      <3>2. Cardinality(1..n) = IF 1 > n THEN 0 ELSE n - 1 + 1
        BY <3>1, FS_Interval
      <3> QED
        BY <3>1, <3>2, FS_Interval
    <2> QED
      BY <1>1, <2>1
  <1>3. \A i \in S : g[i] \in Int /\ i \in Int /\ g[i] = ScoreOf(Bounded[i])
    BY <1>1, ScoresAreGathered
  <1>4. \A i, j \in S : <<i, j>> \in R <=> Before(i, j)
    OBVIOUS
  <1>5. Orders(R, S)
    <2> HIDE DEF g, S
    <2>1. \A a \in S : ~Before(a, a)
      BY <1>3
    <2>2. \A a, b, c \in S : Before(a, b) /\ Before(b, c) => Before(a, c)
      BY <1>3
    <2> HIDE DEF R, Before
    <2> QED
      BY <1>4, <2>1, <2>2 DEF Orders
  <1>6. PICK t \in SetToSeqs(S) : Along(t, R)
    <2> HIDE DEF S, R
    <2> QED
      BY <1>2, <1>5, ListExists
  <1>7. \A s \in SetToSeqs(S) : DOMAIN s = 1..Cardinality(S) /\ \A i \in DOMAIN s : s[i] \in S
    BY DEF SetToSeqs
  <1>8. \A s \in SetToSeqs(S) : Along(s, R) <=> \A i, j \in DOMAIN s : i < j => ~Before(s[j], s[i])
    <2> HIDE DEF S, R, Before
    <2> QED
      BY <1>4, <1>7 DEF Along
  <1>9. o = CHOOSE s \in SetToSeqs(S) : \A i, j \in DOMAIN s : i < j => ~Before(s[j], s[i])
    BY DEF Sorted
  <1>10. o \in SetToSeqs(S) /\ Along(o, R)
    <2> HIDE DEF S, R, o, Before
    <2> QED
      BY <1>6, <1>8, <1>9
  <1>11. Reranked = [i \in DOMAIN o |-> Bounded[o[i]]]
    BY DEF Reranked, Gathered
  <1> HIDE DEF S, R, o, g
  <1>12. Enumerates(o, S)
    BY <1>2, <1>10, ListHasAll
  <1>13. DOMAIN o = 1..n /\ ToSet(o) = S /\ \A i \in 1..n : o[i] \in S
    <2>1. DOMAIN o = 1..n /\ ToSet(o) = S
      BY <1>2, <1>12 DEF Enumerates
    <2> QED
      BY <2>1 DEF ToSet
  <1>14. DOMAIN Bounded = 1..n /\ \A i \in S : Bounded[i] \in Chunks
    BY <1>1 DEF BoundedHolds, S
  <1>15. Reranked \in [1..n -> Chunks] /\ \A i \in 1..n : Reranked[i] = Bounded[o[i]]
    BY <1>11, <1>13, <1>14
  <1>16. Reranked \in Seq(Chunks) /\ Len(Reranked) = n /\ DOMAIN Reranked = 1..n
    BY <1>15
  <1>17. \A i, j \in 1..n : Reranked[i] = Reranked[j] => i = j
    <2>1. \A i, j \in S : Bounded[i] = Bounded[j] => i = j
      BY DEF BoundedHolds, S
    <2>2. \A i, j \in 1..n : o[i] = o[j] => i = j
      BY <1>12, <1>13 DEF Enumerates
    <2> QED
      BY <1>13, <1>15, <2>1, <2>2
  <1>18. ToSet(Reranked) = ToSet(Bounded)
    <2>1. \A j \in S : \E i \in 1..n : o[i] = j
      BY <1>13 DEF ToSet
    <2>2. \A c \in ToSet(Reranked) : c \in ToSet(Bounded)
      BY <1>1, <1>13, <1>14, <1>15, <1>16 DEF ToSet
    <2>3. \A c \in ToSet(Bounded) : c \in ToSet(Reranked)
      <3> SUFFICES ASSUME NEW j \in S  PROVE Bounded[j] \in ToSet(Reranked)
        BY <1>1, <1>14 DEF ToSet
      <3>1. PICK i \in 1..n : o[i] = j
        BY <2>1
      <3> QED
        BY <1>15, <1>16, <3>1 DEF ToSet
    <2> QED
      BY <2>2, <2>3
  <1>19. \A c \in ToSet(Bounded) : ScoreOf(c) \in Int
    BY <1>1, <1>3, <1>14 DEF ToSet
  <1>20. ASSUME NEW i \in 1..n, NEW j \in 1..n, i < j
         PROVE  ScoreOf(Reranked[i]) >= ScoreOf(Reranked[j])
    <2>1. o[i] \in S /\ o[j] \in S
      BY <1>13
    <2>2. ~Before(o[j], o[i])
      BY <1>4, <1>10, <1>13, <1>20, <2>1 DEF Along
    <2>3. ~(g[o[j]] > g[o[i]])
      BY <2>2
    <2>4. g[o[i]] = ScoreOf(Reranked[i]) /\ g[o[j]] = ScoreOf(Reranked[j]) /\ g[o[i]] \in Int /\ g[o[j]] \in Int
      BY <1>3, <1>15, <2>1
    <2> QED
      BY <2>3, <2>4
  <1> QED
    BY <1>1, <1>16, <1>17, <1>18, <1>19, <1>20

(* The first of them, as many as asked for.                                *)
BestReturned ==
    /\ IsInjective(returned) /\ Len(returned) = Least(search.topK, Len(Bounded))
    /\ \A i \in DOMAIN returned :
          \A c \in ToSet(Bounded) \ ToSet(SubSeq(returned, 1, i)) :
             ScoreOf(returned[i]) >= ScoreOf(c)

LEMMA ReturnedAreBest ==
  ASSUME BatchesHold, AllScored, BoundedHolds, search.topK \in Nat,
         returned = First(Reranked, search.topK)
  PROVE  BestReturned
  <1>1. PICK n \in Nat : n = Len(Bounded)
    BY DEF BoundedHolds
  <1>2. Reranked \in Seq(Chunks) /\ Len(Reranked) = n
    BY <1>1, RerankedIs
  <1>3. PICK m \in Nat : m = Least(search.topK, n) /\ m <= n
    BY DEF Least
  <1>4. /\ returned \in Seq(Chunks) /\ Len(returned) = m
        /\ \A i \in 1..m : returned[i] = Reranked[i] /\ i \in 1..n
    BY <1>2, <1>3, FirstIs
  <1>5. DOMAIN returned = 1..m /\ DOMAIN Reranked = 1..n
    BY <1>2, <1>4
  <1>6. IsInjective(returned)
    <2>1. \A i, j \in 1..n : Reranked[i] = Reranked[j] => i = j
      BY <1>1, RerankedIs
    <2> QED
      BY <1>4, <1>5, <2>1 DEF IsInjective
  <1>7. ASSUME NEW i \in 1..m, NEW c \in ToSet(Bounded), c \notin ToSet(SubSeq(returned, 1, i))
        PROVE  ScoreOf(returned[i]) >= ScoreOf(c)
    <2>1. c \in ToSet(Reranked)
      BY RerankedIs
    <2>2. PICK j \in 1..n : c = Reranked[j]
      BY <1>5, <2>1 DEF ToSet
    <2>3. i \in Nat /\ i <= m /\ i \in 1..n /\ returned[i] = Reranked[i]
      BY <1>3, <1>4
    <2>4. ~(j <= i)
      <3> SUFFICES ASSUME j <= i  PROVE FALSE
        OBVIOUS
      <3>1. Len(SubSeq(returned, 1, i)) = i /\ SubSeq(returned, 1, i) \in Seq(Chunks)
            /\ \A k \in 1..i : SubSeq(returned, 1, i)[k] = returned[k]
        <4>1. \A k \in 1..i : k \in 1..m /\ returned[k] \in Chunks
          BY <1>3, <1>4, <2>3, ElementOfSeq
        <4>2. /\ SubSeq(returned, 1, i) \in Seq(Chunks)
              /\ Len(SubSeq(returned, 1, i)) = IF 1 <= i THEN i - 1 + 1 ELSE 0
              /\ \A k \in 1..(i - 1 + 1) : SubSeq(returned, 1, i)[k] = returned[1 + k - 1]
          BY <2>3, <4>1, SubSeqProperties
        <4>3. (i - 1) + 1 = i /\ \A k \in 1..i : (1 + k) - 1 = k
          BY <2>3
        <4> QED
          BY <2>3, <4>2, <4>3
      <3>2. j \in 1..i /\ j \in 1..m
        BY <1>3, <2>2, <2>3
      <3>3. SubSeq(returned, 1, i)[j] = c
        BY <1>4, <2>2, <3>1, <3>2
      <3>4. j \in DOMAIN SubSeq(returned, 1, i)
        BY <3>1, <3>2
      <3> QED
        BY <1>7, <3>3, <3>4 DEF ToSet
    <2>5. i < j
      BY <2>2, <2>3, <2>4
    <2> QED
      BY <1>1, <2>2, <2>3, <2>5, RerankedIs
  <1> QED
    BY <1>1, <1>3, <1>4, <1>5, <1>6, <1>7 DEF BestReturned
-----------------------------------------------------------------------------
(* What holds of a search along its way.                                   *)
Stages == {"idle", "retrieving", "fused", "reranking", "done", "failed"}
Searches ==
    [stage : Stages, variants : Nat, topK : Nat, limit : Nat \cup {NoLimit}, rerank : BOOLEAN,
     fallback : BOOLEAN, partial : BOOLEAN, degraded : BOOLEAN]

TellsDegraded == Single => (search.degraded <=> faults # {})
Unscored == <<"rerank", 0>> \in faults

HybridHolds ==
    /\ search \in Searches
    /\ search.stage = "idle" => faults = {}
    /\ search.stage = "retrieving" => RetrievalHolds
    /\ search.stage \in {"fused", "reranking", "done"} => PoolIs /\ TellsDegraded
    /\ search.stage \in {"idle", "retrieving", "fused"} => batches = <<>>
    /\ batches # <<>> => PoolIs /\ BatchesHold
    /\ search.stage = "done" /\ batches # <<>> /\ ~Unscored =>
          AllScored /\ returned = First(Reranked, search.topK)

LEMMA BoundedStays ==
  ASSUME pool' = pool, search'.variants = search.variants, search'.limit = search.limit
  PROVE  /\ Bounded' = Bounded /\ BatchCount' = BatchCount
         /\ \A b : Slice(b)' = Slice(b)
         /\ PoolIs' <=> PoolIs
  <1>1. Bounded' = Bounded
    BY DEF Bounded, Single
  <1>2. BatchCount' = BatchCount
    BY <1>1 DEF BatchCount
  <1>3. \A b : Slice(b)' = Slice(b)
    BY <1>1 DEF Slice, EndOf
  <1>4. PoolIs' <=> PoolIs
    BY DEF PoolIs
  <1> QED
    BY <1>1, <1>2, <1>3, <1>4

LEMMA BatchesStay ==
  ASSUME pool' = pool, search'.variants = search.variants, search'.limit = search.limit,
         batches' = batches
  PROVE  (BatchesHold' <=> BatchesHold) /\ (AllScored' <=> AllScored) /\ Reranked' = Reranked
  <1>1. Bounded' = Bounded /\ BatchCount' = BatchCount /\ \A b : Slice(b)' = Slice(b)
    BY BoundedStays
  <1>2. BatchesHold' <=> BatchesHold
    BY <1>1 DEF BatchesHold
  <1>3. AllScored' <=> AllScored
    BY <1>1 DEF AllScored
  <1>4. Reranked' = Reranked
    BY <1>1 DEF Reranked, Sorted
  <1> QED
    BY <1>2, <1>3, <1>4

LEMMA HybridStarts == HybridInit => HybridHolds
  BY SearchAssumption DEF HybridInit, HybridHolds, Searches, Stages

(* The end of a search that fails.                                         *)
LEMMA FailingHolds ==
  ASSUME HybridHolds, search' = [search EXCEPT !.stage = "failed"], pool' = pool,
         batches' # <<>> => PoolIs /\ BatchesHold'
  PROVE  HybridHolds'
  <1>1. /\ search' \in Searches /\ search'.stage = "failed"
        /\ search'.variants = search.variants /\ search'.limit = search.limit
    BY DEF HybridHolds, Searches, Stages
  <1>2. batches' # <<>> => PoolIs' /\ BatchesHold'
    BY <1>1, BoundedStays
  <1> QED
    BY <1>1, <1>2 DEF HybridHolds

LEMMA BeginHybridHolds ==
  ASSUME HybridHolds, BeginHybrid
  PROVE  HybridHolds'
  <1>1. PICK n \in DOMAIN Weights, partial \in BOOLEAN :
          /\ search' = [search EXCEPT !.stage = "retrieving", !.variants = n, !.partial = partial]
          /\ listed' = [v \in 1..n |-> [i \in Indices |-> Missing]]
          /\ fused' = [v \in 1..n |-> Missing]
    BY DEF BeginHybrid
  <1>2. n \in Nat \ {0}
    BY SearchAssumption
  <1>3. search' \in Searches /\ search'.stage = "retrieving" /\ search'.variants = n
    BY <1>1, <1>2 DEF HybridHolds, Searches, Stages
  <1>4. faults' = {} /\ batches' = <<>>
    BY DEF BeginHybrid, HybridHolds
  <1>5. RetrievalHolds'
    <2>1. Variants' = 1..n
      BY <1>3 DEF Variants
    <2>2. \A v \in 1..n : fused'[v] = Missing
      BY <1>1
    <2>3. listed' \in [1..n -> [Indices -> ShortLists \cup {Missing}]]
          /\ fused' \in [1..n -> FusedLists \cup {Missing}]
      BY <1>1
    <2>4. 1 \in 1..n
      BY <1>2
    <2> QED
      BY <1>3, <1>4, <2>1, <2>2, <2>3, <2>4 DEF RetrievalHolds, Lost
  <1> QED
    BY <1>3, <1>4, <1>5 DEF HybridHolds

LEMMA RankingsAreShort ==
  ASSUME search.variants \in DOMAIN Weights, NEW s \in Rankings
  PROVE  s \in ShortLists
  <1>1. PICK k \in 1..3 : k = MaxListed[search.variants]
    BY SearchAssumption
  <1>2. PICK m \in 0..k : s \in [1..m -> Chunks]
    BY <1>1 DEF Rankings, BoundedSeq, SeqOf
  <1>3. s \in Seq(Chunks) /\ Len(s) = m /\ m <= 3
    BY <1>1, <1>2
  <1>4. \A i, j \in DOMAIN s : s[i] = s[j] => i = j
    BY DEF Rankings, IsInjective
  <1> QED
    BY <1>3, <1>4 DEF ShortLists, IsList

LEMMA IndexAnswersHolds ==
  ASSUME HybridHolds, NEW v \in DOMAIN fused, NEW i \in Indices, IndexAnswers(v, i)
  PROVE  HybridHolds'
  <1>1. /\ search.stage = "retrieving" /\ RetrievalHolds /\ batches = <<>>
        /\ fused[v] = Missing /\ listed[v][i] = Missing
        /\ search' = search /\ fused' = fused /\ batches' = batches
    BY DEF IndexAnswers, HybridHolds
  <1>2. PICK s \in ShortLists : listed' = [listed EXCEPT ![v][i] = s]
    <2>1. <<>> \in ShortLists
      BY DEF ShortLists, IsList
    <2>2. \A s \in Rankings : s \in ShortLists
      BY <1>1, RankingsAreShort DEF RetrievalHolds
    <2> QED
      BY <2>1, <2>2 DEF IndexAnswers
  <1>3. faults' = faults \/ faults' = faults \cup {<<i, v>>}
    BY DEF IndexAnswers
  <1>4. Variants' = Variants /\ (Single' <=> Single) /\ DOMAIN fused = Variants /\ v \in Variants
    BY <1>1 DEF Variants, Single, RetrievalHolds
  <1>5. \A w \in Variants : Lost(w)' <=> Lost(w)
    BY <1>3 DEF Lost, Indices
  <1>6. faults' \subseteq (Indices \cup {"variant"}) \X Variants
    BY <1>1, <1>3, <1>4 DEF RetrievalHolds
  <1>7. listed' \in [Variants -> [Indices -> ShortLists \cup {Missing}]]
        /\ \A w \in Variants : w # v => listed'[w] = listed[w]
    BY <1>1, <1>2, <1>4 DEF RetrievalHolds
  <1>8. \A w \in Variants : fused[w] # Missing => w # v
    BY <1>1
  <1>9. \A w \in Variants : fused'[w] = Missing => ~Lost(w)'
    BY <1>1, <1>5 DEF RetrievalHolds
  <1>10. ASSUME NEW w \in Variants, fused'[w] # Missing
         PROVE  IF Lost(w)' THEN fused'[w] = <<>>
                ELSE /\ \A j \in Indices : listed'[w][j] # Missing
                     /\ fused'[w] = Fuse(listed'[w]["dense"], listed'[w]["sparse"])
    <2>1. fused[w] # Missing /\ listed'[w] = listed[w] /\ fused'[w] = fused[w]
      BY <1>1, <1>7, <1>8, <1>10
    <2> QED
      BY <1>1, <1>5, <2>1 DEF RetrievalHolds
  <1>11. Single => ~Lost(1)' /\ fused'[1] = Missing
    <2>1. Single => Variants = {1}
      BY DEF Single, Variants
    <2> QED
      BY <1>1, <1>4, <1>5, <2>1 DEF RetrievalHolds
  <1>12. RetrievalHolds'
    <2>1. search'.variants \in DOMAIN Weights /\ fused' \in [Variants -> FusedLists \cup {Missing}]
      BY <1>1 DEF RetrievalHolds
    <2> QED
      BY <1>4, <1>6, <1>7, <1>9, <1>10, <1>11, <2>1 DEF RetrievalHolds
  <1> QED
    BY <1>1, <1>12 DEF HybridHolds

(* One variant is fused, or lost.                                          *)
LEMMA LosingHolds ==
  ASSUME HybridHolds, search.stage = "retrieving", NEW v \in DOMAIN fused, fused[v] = Missing,
         VariantFails(v)
  PROVE  HybridHolds'
  <1>1. RetrievalHolds /\ batches = <<>>
    BY DEF HybridHolds
  <1>2. CASE Single /\ search' = [search EXCEPT !.stage = "failed"] /\ UNCHANGED fused
    BY <1>1, <1>2, FailingHolds DEF VariantFails
  <1>3. CASE ~Single /\ fused' = [fused EXCEPT ![v] = <<>>] /\ UNCHANGED search
    <2>1. /\ search' = search /\ listed' = listed /\ batches' = batches
          /\ faults' = faults \cup {<<"variant", v>>}
      BY <1>3 DEF VariantFails
    <2>2. Variants' = Variants /\ (Single' <=> Single) /\ DOMAIN fused = Variants /\ v \in Variants
      BY <1>1, <2>1 DEF Variants, Single, RetrievalHolds
    <2>3. \A w \in Variants : w # v => fused'[w] = fused[w] /\ (Lost(w)' <=> Lost(w))
      BY <1>1, <1>3, <2>1, <2>2 DEF Lost, RetrievalHolds
    <2>4. fused'[v] = <<>> /\ Lost(v)' /\ fused'[v] # Missing
      BY <1>1, <1>3, <2>1, <2>2, SearchAssumption DEF Lost, RetrievalHolds
    <2>5. <<>> \in FusedLists
      BY DEF FusedLists, IsList
    <2>6. fused' \in [Variants -> FusedLists \cup {Missing}]
      BY <1>1, <1>3, <2>5 DEF RetrievalHolds
    <2>7. faults' \subseteq (Indices \cup {"variant"}) \X Variants
      BY <1>1, <2>1, <2>2 DEF RetrievalHolds
    <2>8. \A w \in Variants : fused'[w] = Missing => ~Lost(w)'
      BY <1>1, <2>3, <2>4 DEF RetrievalHolds
    <2>9. ASSUME NEW w \in Variants, fused'[w] # Missing
          PROVE  IF Lost(w)' THEN fused'[w] = <<>>
                 ELSE /\ \A j \in Indices : listed'[w][j] # Missing
                      /\ fused'[w] = Fuse(listed'[w]["dense"], listed'[w]["sparse"])
      <3>1. CASE w = v
        BY <2>4, <3>1
      <3>2. CASE w # v
        <4>1. fused[w] # Missing /\ fused'[w] = fused[w] /\ (Lost(w)' <=> Lost(w)) /\ listed'[w] = listed[w]
          BY <2>1, <2>3, <2>9, <3>2
        <4> QED
          BY <1>1, <4>1 DEF RetrievalHolds
      <3> QED
        BY <3>1, <3>2
    <2>10. search'.variants \in DOMAIN Weights /\ listed' \in [Variants -> [Indices -> ShortLists \cup {Missing}]]
      BY <1>1, <2>1 DEF RetrievalHolds
    <2>11. RetrievalHolds'
      BY <1>3, <2>2, <2>6, <2>7, <2>8, <2>9, <2>10 DEF RetrievalHolds
    <2> QED
      BY <1>1, <2>1, <2>11 DEF HybridHolds
  <1> QED
    BY <1>2, <1>3 DEF VariantFails

LEMMA FuseListsHolds ==
  ASSUME HybridHolds, NEW v \in DOMAIN fused, FuseLists(v)
  PROVE  HybridHolds'
  <1> DEFINE failed == {i \in Indices : <<i, v>> \in faults}
             d == Fuse(listed[v]["dense"], listed[v]["sparse"])
  <1>1. /\ search.stage = "retrieving" /\ fused[v] = Missing /\ RetrievalHolds /\ batches = <<>>
        /\ search \in Searches
        /\ \A i \in Indices : listed[v][i] # Missing
    BY DEF FuseLists, HybridHolds
  <1>2. CASE VariantFails(v)
    BY <1>1, <1>2, LosingHolds
  <1>3. CASE /\ fused' = [fused EXCEPT ![v] = d]
             /\ search' = [search EXCEPT !.degraded = Single /\ failed # {}]
             /\ UNCHANGED <<listed, faults, pool, batches, others, returned>>
    <2>1. DOMAIN fused = Variants /\ v \in Variants /\ "dense" \in Indices /\ "sparse" \in Indices
      BY <1>1 DEF RetrievalHolds, Indices
    <2>2. listed[v]["dense"] \in ShortLists /\ listed[v]["sparse"] \in ShortLists
      BY <1>1, <2>1 DEF RetrievalHolds
    <2>3. d \in FusedLists
      <3>1. IsList(listed[v]["dense"], 3) /\ IsList(listed[v]["sparse"], 3)
        BY <2>2 DEF ShortLists
      <3>2. IsList(d, 6)
        BY <3>1, FuseIs
      <3> QED
        BY <3>2 DEF FusedLists, IsList
    <2> HIDE DEF d
    <2>4. fused' \in [Variants -> FusedLists \cup {Missing}] /\ fused'[v] = d
          /\ \A w \in Variants : w # v => fused'[w] = fused[w]
      BY <1>1, <1>3, <2>1, <2>3 DEF RetrievalHolds
    <2>5. /\ search' \in Searches /\ search'.stage = "retrieving" /\ search'.variants = search.variants
          /\ search'.degraded = (Single /\ failed # {})
      <3>1. (Single /\ failed # {}) \in BOOLEAN
        OBVIOUS
      <3> HIDE DEF failed
      <3>2. PICK t \in BOOLEAN : t = (Single /\ failed # {}) /\ search' = [search EXCEPT !.degraded = t]
        BY <1>3, <3>1
      <3>3. search' \in Searches /\ search'.stage = search.stage /\ search'.variants = search.variants
            /\ search'.degraded = t
        BY <1>1, <3>2 DEF Searches
      <3> QED
        BY <1>1, <3>2, <3>3
    <2>6. Variants' = Variants /\ (Single' <=> Single)
      BY <2>5 DEF Variants, Single
    <2>7. \A w \in Variants : Lost(w)' <=> Lost(w)
      BY <1>3 DEF Lost
    <2>8. ~Lost(v)
      BY <1>1, <2>1 DEF RetrievalHolds
    <2>9. \A w \in Variants : fused'[w] = Missing => ~Lost(w)'
      BY <1>1, <2>4, <2>7, <2>8 DEF RetrievalHolds
    <2>10. ASSUME NEW w \in Variants, fused'[w] # Missing
           PROVE  IF Lost(w)' THEN fused'[w] = <<>>
                  ELSE /\ \A j \in Indices : listed'[w][j] # Missing
                       /\ fused'[w] = Fuse(listed'[w]["dense"], listed'[w]["sparse"])
      <3>1. CASE w = v
        BY <1>1, <1>3, <2>4, <2>7, <2>8, <3>1 DEF d
      <3>2. CASE w # v
        <4>1. fused[w] # Missing /\ fused'[w] = fused[w] /\ (Lost(w)' <=> Lost(w)) /\ listed'[w] = listed[w]
          BY <1>3, <2>4, <2>7, <2>10, <3>2
        <4> QED
          BY <1>1, <4>1 DEF RetrievalHolds
      <3> QED
        BY <3>1, <3>2
    <2>11. Single => ~Lost(1)' /\ (search'.degraded <=> faults' # {})
      <3> SUFFICES ASSUME Single  PROVE ~Lost(1)' /\ (search'.degraded <=> faults' # {})
        OBVIOUS
      <3>1. Variants = {1} /\ v = 1
        BY <2>1 DEF Single, Variants
      <3>2. ~Lost(1) /\ faults' = faults
        BY <1>3, <2>8, <3>1
      <3>3. faults # {} <=> failed # {}
        <4>1. ASSUME NEW f \in faults  PROVE failed # {}
          <5>1. PICK i \in Indices \cup {"variant"} : f = <<i, 1>>
            BY <1>1, <3>1 DEF RetrievalHolds
          <5>2. i \in Indices
            BY <3>2, <5>1 DEF Lost
          <5> QED
            BY <3>1, <5>1, <5>2
        <4> QED
          BY <4>1
      <3> HIDE DEF failed
      <3> QED
        BY <2>5, <2>7, <3>1, <3>2, <3>3
    <2>12. /\ search'.variants \in DOMAIN Weights /\ faults' \subseteq (Indices \cup {"variant"}) \X Variants
           /\ listed' \in [Variants -> [Indices -> ShortLists \cup {Missing}]]
      BY <1>1, <1>3, <2>5 DEF RetrievalHolds
    <2>13. RetrievalHolds'
      BY <2>4, <2>6, <2>9, <2>10, <2>11, <2>12 DEF RetrievalHolds
    <2> QED
      BY <1>1, <1>3, <2>5, <2>13 DEF HybridHolds
  <1> QED
    BY <1>2, <1>3 DEF FuseLists

LEMMA TimeoutHolds ==
  ASSUME HybridHolds, NEW v \in DOMAIN fused, RetrievalTimesOut(v)
  PROVE  HybridHolds'
  BY LosingHolds DEF RetrievalTimesOut

LEMMA CutPoolHolds ==
  ASSUME HybridHolds, CutPool
  PROVE  HybridHolds'
  <1>1. /\ AllFused /\ RetrievalHolds /\ batches = <<>> /\ search \in Searches
        /\ search.stage = "retrieving" /\ batches' = batches
        /\ faults' = IF Single THEN faults ELSE {}
    BY DEF CutPool, HybridHolds, AllFused
  <1>2. PICK k \in TopKs, limit \in RerankLimits, rerank \in BOOLEAN, fallback \in BOOLEAN :
          LET most == LimitOr(Ceiling, limit)
              size == IF ~Single THEN LimitOr(Len(Ranking), limit)
                      ELSE IF rerank /\ k < most THEN most ELSE k
          IN  /\ search' = [search EXCEPT !.stage = "fused", !.topK = k, !.limit = limit,
                                          !.rerank = rerank, !.fallback = fallback]
              /\ pool' = First(Ranking, size)
    BY DEF CutPool
  <1>3. k \in Nat /\ limit \in Nat \cup {NoLimit} /\ Ceiling \in Nat
    BY SearchAssumption
  <1>4. search' \in Searches /\ search'.stage = "fused" /\ search'.variants = search.variants
        /\ search'.degraded = search.degraded
    <2>1. search' = [search EXCEPT !.stage = "fused", !.topK = k, !.limit = limit,
                                   !.rerank = rerank, !.fallback = fallback]
      BY <1>2
    <2> QED
      BY <1>1, <1>3, <2>1 DEF Searches, Stages
  <1>5. Ranking \in Seq(Chunks) /\ IsInjective(Ranking)
    BY <1>1, FusionIsTrue
  <1>6. PICK size \in Nat : pool' = First(Ranking, size)
    <2>1. Len(Ranking) \in Nat
      BY <1>5
    <2> QED
      BY <1>2, <1>3, <2>1 DEF LimitOr
  <1>7. PoolIs'
    <2>1. PICK m : m = Least(size, Len(Ranking))
      OBVIOUS
    <2>2. /\ pool' \in Seq(Chunks) /\ Len(pool') = m
          /\ \A i \in 1..m : pool'[i] = Ranking[i] /\ i \in 1..Len(Ranking)
      BY <1>5, <1>6, <2>1, FirstIs
    <2>3. DOMAIN pool' = 1..m /\ DOMAIN Ranking = 1..Len(Ranking)
      BY <1>5, <2>2
    <2>4. \A i, j \in DOMAIN Ranking : Ranking[i] = Ranking[j] => i = j
      BY <1>5 DEF IsInjective
    <2> QED
      BY <2>2, <2>3, <2>4 DEF PoolIs
  <1>8. TellsDegraded'
    <2> SUFFICES ASSUME Single'  PROVE search'.degraded <=> faults' # {}
      BY DEF TellsDegraded
    <2>1. Single /\ 1 \in Variants
      BY <1>4 DEF Single, Variants
    <2>2. fused[1] # Missing
      BY <1>1, <2>1 DEF AllFused
    <2> QED
      BY <1>1, <1>4, <2>1, <2>2 DEF RetrievalHolds
  <1> QED
    BY <1>1, <1>4, <1>7, <1>8 DEF HybridHolds

(* The end of a search that returns.                                       *)
LEMMA ReturningKeeps ==
  ASSUME search \in Searches, NEW c, NEW d, Return(c, d)
  PROVE  search'.variants = search.variants /\ search'.limit = search.limit
  BY DEF Return, Searches

LEMMA ReturningHolds ==
  ASSUME HybridHolds, search.stage \in {"fused", "reranking"}, NEW c, NEW d \in BOOLEAN, Return(c, d),
         pool' = pool, Single => (d <=> faults' # {}), batches' # <<>> => BatchesHold',
         batches' # <<>> /\ ~Unscored' => AllScored' /\ Reranked' = c
  PROVE  HybridHolds'
  <1>1. search \in Searches /\ PoolIs
    BY DEF HybridHolds
  <1>2. CASE search' = [search EXCEPT !.stage = "failed"] /\ UNCHANGED returned
    BY <1>1, <1>2, FailingHolds
  <1>3. CASE /\ search' = [search EXCEPT !.stage = "done", !.degraded = d]
             /\ returned' = First(c, search.topK)
    <2>1. /\ search' \in Searches /\ search'.stage = "done" /\ search'.degraded = d
          /\ search'.variants = search.variants /\ search'.topK = search.topK
      BY <1>1, <1>3 DEF Searches, Stages
    <2>2. PoolIs' /\ (Single' <=> Single)
      BY <1>1, <2>1 DEF PoolIs, Single
    <2>3. TellsDegraded'
      BY <2>1, <2>2 DEF TellsDegraded
    <2>4. batches' # <<>> /\ ~Unscored' => AllScored' /\ returned' = First(Reranked', search'.topK)
      BY <1>3, <2>1
    <2> QED
      BY <2>1, <2>2, <2>3, <2>4 DEF HybridHolds, First
  <1> QED
    BY <1>2, <1>3 DEF Return

LEMMA ReturnFusedHolds ==
  ASSUME HybridHolds, ReturnFused
  PROVE  HybridHolds'
  <1>1. /\ search.stage = "fused" /\ batches' = <<>> /\ pool' = pool /\ faults' = faults
        /\ search.degraded \in BOOLEAN /\ (Single => (search.degraded <=> faults # {}))
    BY DEF ReturnFused, HybridHolds, TellsDegraded, Searches
  <1>2. PICK d \in BOOLEAN : d = search.degraded /\ Return(pool, d)
    BY <1>1 DEF ReturnFused
  <1> QED
    BY <1>1, <1>2, ReturningHolds

LEMMA BeginRerankingHolds ==
  ASSUME HybridHolds, BeginReranking
  PROVE  HybridHolds'
  <1>1. /\ search \in Searches /\ search.stage = "fused" /\ PoolIs /\ TellsDegraded
        /\ search' = [search EXCEPT !.stage = "reranking"]
        /\ pool' = pool /\ faults' = faults
    BY DEF BeginReranking, HybridHolds
  <1>2. /\ search' \in Searches /\ search'.stage = "reranking" /\ search'.variants = search.variants
        /\ search'.limit = search.limit /\ search'.degraded = search.degraded
    BY <1>1 DEF Searches, Stages
  <1>3. /\ PoolIs' /\ TellsDegraded' /\ BatchCount' = BatchCount /\ \A b : Slice(b)' = Slice(b)
    <2>1. Single' <=> Single
      BY <1>2 DEF Single
    <2> QED
      BY <1>1, <1>2, <2>1, BoundedStays DEF TellsDegraded
  <1>4. batches' = [b \in 1..BatchCount |-> [chunks |-> Slice(b), state |-> "waiting", scores |-> <<>>]]
    BY DEF BeginReranking, BatchCount, Slice, EndOf
  <1>5. Bounded \in Seq(Chunks)
    <2>1. search.limit \in Nat \cup {NoLimit}
      BY <1>1 DEF Searches
    <2> QED
      BY <1>1, <2>1, BoundedIs
  <1>6. ASSUME NEW b \in 1..BatchCount
        PROVE  [chunks |-> Slice(b), state |-> "waiting", scores |-> <<>>] \in Batches
    <2>1. Slice(b) \in Seq(Chunks) /\ <<>> \in Seq(Scores) /\ "waiting" \in BatchStates
      BY <1>5, SlicesAre DEF BatchStates
    <2> QED
      BY <2>1 DEF Batches
  <1>7. batches' \in [1..BatchCount -> Batches]
    BY <1>4, <1>6
  <1>8. \A b \in 1..BatchCount : batches'[b].chunks = Slice(b) /\ batches'[b].state # "scored"
    BY <1>4
  <1>9. BatchesHold'
    BY <1>3, <1>7, <1>8 DEF BatchesHold
  <1> QED
    BY <1>2, <1>3, <1>9 DEF HybridHolds

(* A batch that is not scored goes on.                                     *)
LEMMA BatchesAre ==
  ASSUME HybridHolds, NEW b \in DOMAIN batches
  PROVE  /\ batches # <<>> /\ PoolIs /\ BatchesHold /\ b \in 1..BatchCount
         /\ DOMAIN batches = 1..BatchCount /\ Bounded \in Seq(Chunks)
         /\ search \in Searches /\ search.stage \notin {"idle", "retrieving", "fused"}
  <1>1. batches # <<>>
    OBVIOUS
  <1>2. PoolIs /\ BatchesHold /\ search \in Searches /\ search.stage \notin {"idle", "retrieving", "fused"}
    BY <1>1 DEF HybridHolds
  <1>3. DOMAIN batches = 1..BatchCount
    BY <1>2 DEF BatchesHold
  <1>4. Bounded \in Seq(Chunks)
    <2>1. search.limit \in Nat \cup {NoLimit}
      BY <1>2 DEF Searches
    <2> QED
      BY <1>2, <2>1, BoundedIs
  <1> QED
    BY <1>1, <1>2, <1>3, <1>4

LEMMA BatchGoesOn ==
  ASSUME HybridHolds, NEW b \in DOMAIN batches, batches[b].state # "scored",
         UNCHANGED <<search, pool, faults, returned>>, BatchesHold'
  PROVE  HybridHolds'
  <1>1. /\ batches # <<>> /\ PoolIs /\ BatchesHold /\ b \in 1..BatchCount
        /\ search \in Searches /\ search.stage \notin {"idle", "retrieving", "fused"}
    BY BatchesAre
  <1>2. ~AllScored
    BY <1>1 DEF AllScored
  <1>3. search.stage = "done" => Unscored
    BY <1>1, <1>2 DEF HybridHolds
  <1>4. PoolIs' /\ (TellsDegraded' <=> TellsDegraded) /\ (Unscored' <=> Unscored)
    BY <1>1 DEF PoolIs, TellsDegraded, Single, Unscored
  <1>5. search.stage \in {"fused", "reranking", "done"} => TellsDegraded
    BY DEF HybridHolds
  <1> QED
    BY <1>1, <1>3, <1>4, <1>5 DEF HybridHolds

LEMMA BatchTurns ==
  ASSUME BatchesHold, NEW b \in 1..BatchCount, NEW s \in BatchStates \ {"scored"},
         pool' = pool, search'.variants = search.variants, search'.limit = search.limit,
         batches' = [batches EXCEPT ![b].state = s]
  PROVE  BatchesHold'
  <1>1. BatchCount' = BatchCount /\ \A c : Slice(c)' = Slice(c)
    BY BoundedStays
  <1>2. batches \in [1..BatchCount -> Batches]
    BY DEF BatchesHold
  <1>3. /\ batches' \in [1..BatchCount -> Batches]
        /\ \A c \in 1..BatchCount : c # b => batches'[c] = batches[c]
        /\ batches'[b].chunks = batches[b].chunks /\ batches'[b].state = s
    BY <1>2 DEF Batches
  <1>4. ASSUME NEW c \in 1..BatchCount
        PROVE  /\ batches'[c].chunks = Slice(c)
               /\ batches'[c].state = "scored" => Len(batches'[c].scores) = Len(batches'[c].chunks)
    <2>1. CASE c = b
      BY <1>3, <2>1 DEF BatchesHold
    <2>2. CASE c # b
      BY <1>3, <2>2 DEF BatchesHold
    <2> QED
      BY <2>1, <2>2
  <1> QED
    BY <1>1, <1>3, <1>4 DEF BatchesHold

LEMMA BatchStartsHolds ==
  ASSUME HybridHolds, NEW b \in DOMAIN batches, BatchStarts(b)
  PROVE  HybridHolds'
  <1>1. BatchesHold /\ b \in 1..BatchCount /\ batches[b].state # "scored"
    BY BatchesAre DEF BatchStarts
  <1>2. BatchesHold'
    <2>1. "scoring" \in BatchStates \ {"scored"}
      BY DEF BatchStates
    <2> QED
      BY <1>1, <2>1, BatchTurns DEF BatchStarts
  <1> QED
    BY <1>1, <1>2, BatchGoesOn DEF BatchStarts

LEMMA BatchScoresHolds ==
  ASSUME HybridHolds, NEW b \in DOMAIN batches, BatchScores(b)
  PROVE  HybridHolds'
  <1>1. /\ BatchesHold /\ b \in 1..BatchCount /\ batches[b].state # "scored" /\ Bounded \in Seq(Chunks)
        /\ UNCHANGED <<search, pool, faults, returned>>
    BY BatchesAre DEF BatchScores
  <1>2. PICK s \in [DOMAIN batches[b].chunks -> Scores] :
          batches' = [batches EXCEPT ![b].state = "scored", ![b].scores = s]
    BY DEF BatchScores
  <1>3. batches[b].chunks = Slice(b) /\ Slice(b) \in Seq(Chunks) /\ batches \in [1..BatchCount -> Batches]
    BY <1>1, SlicesAre DEF BatchesHold
  <1>4. s \in Seq(Scores) /\ Len(s) = Len(Slice(b))
    <2>1. PICK n \in Nat : n = Len(Slice(b)) /\ DOMAIN Slice(b) = 1..n
      BY <1>3
    <2> QED
      BY <1>2, <1>3, <2>1
  <1>5. /\ batches' \in [1..BatchCount -> Batches]
        /\ \A c \in 1..BatchCount : c # b => batches'[c] = batches[c]
        /\ batches'[b].chunks = batches[b].chunks /\ batches'[b].scores = s
    <2>1. "scored" \in BatchStates
      BY DEF BatchStates
    <2>2. PICK t : t = [batches[b] EXCEPT !.state = "scored", !.scores = s]
      OBVIOUS
    <2>3. t \in Batches /\ t.chunks = batches[b].chunks /\ t.scores = s
      BY <1>1, <1>3, <1>4, <2>1, <2>2 DEF Batches
    <2>4. batches' = [batches EXCEPT ![b] = t]
      BY <1>1, <1>2, <1>3, <2>2 DEF Batches
    <2> QED
      BY <1>1, <1>3, <2>3, <2>4
  <1>6. BatchesHold'
    <2>1. BatchCount' = BatchCount /\ \A c : Slice(c)' = Slice(c)
      BY <1>1, BoundedStays
    <2>2. ASSUME NEW c \in 1..BatchCount
          PROVE  /\ batches'[c].chunks = Slice(c)
                 /\ batches'[c].state = "scored" => Len(batches'[c].scores) = Len(batches'[c].chunks)
      <3>1. CASE c = b
        BY <1>3, <1>4, <1>5, <3>1
      <3>2. CASE c # b
        BY <1>1, <1>5, <3>2 DEF BatchesHold
      <3> QED
        BY <3>1, <3>2
    <2> QED
      BY <1>5, <2>1, <2>2 DEF BatchesHold
  <1> QED
    BY <1>1, <1>6, BatchGoesOn

(* A reranking that fails, and one that has all the scores.                *)
LEMMA RerankKeeps ==
  ASSUME search \in Searches, RerankFails
  PROVE  search'.variants = search.variants /\ search'.limit = search.limit
  <1>1. CASE search' = [search EXCEPT !.stage = "failed"]
    BY <1>1 DEF Searches
  <1>2. CASE search.fallback /\ Return(Bounded, Single)
    BY <1>2, ReturningKeeps
  <1>3. CASE ~search.fallback /\ ~Single /\ Return(pool, FALSE)
    BY <1>3, ReturningKeeps
  <1> QED
    BY <1>1, <1>2, <1>3 DEF RerankFails

LEMMA RerankFailsHolds ==
  ASSUME HybridHolds, search.stage = "reranking", RerankFails, batches' # <<>> => BatchesHold'
  PROVE  HybridHolds'
  <1>1. pool' = pool /\ faults' # {} /\ Unscored' /\ PoolIs
    BY DEF RerankFails, Unscored, HybridHolds
  <1>2. CASE search.fallback /\ Return(Bounded, Single)
    <2>1. PICK d \in BOOLEAN : (d <=> Single) /\ d = Single
      BY DEF Single
    <2>2. Return(Bounded, d)
      BY <1>2, <2>1
    <2> QED
      BY <1>1, <2>1, <2>2, ReturningHolds
  <1>3. CASE ~search.fallback /\ ~Single /\ Return(pool, FALSE)
    BY <1>1, <1>3, ReturningHolds
  <1>4. CASE search' = [search EXCEPT !.stage = "failed"]
    BY <1>1, <1>4, FailingHolds
  <1> QED
    BY <1>2, <1>3, <1>4 DEF RerankFails

LEMMA RerankingRejectedHolds ==
  ASSUME HybridHolds, RerankingRejected
  PROVE  HybridHolds'
  <1>1. /\ search.stage = "fused" /\ batches' = <<>> /\ pool' = pool /\ faults' # {} /\ Unscored' /\ PoolIs
    BY DEF RerankingRejected, Unscored, HybridHolds
  <1>2. CASE ~Single /\ Return(pool, FALSE)
    BY <1>1, <1>2, ReturningHolds
  <1>3. CASE search' = [search EXCEPT !.stage = "failed"] /\ UNCHANGED returned
    BY <1>1, <1>3, FailingHolds
  <1> QED
    BY <1>2, <1>3 DEF RerankingRejected

LEMMA BatchRaisesHolds ==
  ASSUME HybridHolds, NEW b \in DOMAIN batches, BatchRaises(b)
  PROVE  HybridHolds'
  <1>1. /\ BatchesHold /\ b \in 1..BatchCount /\ search \in Searches
        /\ batches[b].state # "scored" /\ batches' = [batches EXCEPT ![b].state = "failed"]
        /\ "failed" \in BatchStates \ {"scored"}
    BY BatchesAre DEF BatchRaises, BatchStates
  <1>2. CASE search.stage = "reranking" /\ RerankFails
    <2>1. search'.variants = search.variants /\ search'.limit = search.limit /\ pool' = pool
      BY <1>1, <1>2, RerankKeeps DEF RerankFails
    <2>2. BatchesHold'
      BY <1>1, <2>1, BatchTurns
    <2> QED
      BY <1>2, <2>2, RerankFailsHolds
  <1>3. CASE UNCHANGED <<search, listed, fused, faults, pool, others, returned>>
    <2>1. BatchesHold'
      BY <1>1, <1>3, BatchTurns
    <2> QED
      BY <1>1, <1>3, <2>1, BatchGoesOn
  <1> QED
    BY <1>2, <1>3 DEF BatchRaises

LEMMA RerankTimesOutHolds ==
  ASSUME HybridHolds, RerankTimesOut
  PROVE  HybridHolds'
  <1>1. PICK d \in DOMAIN batches : TRUE
    BY DEF RerankTimesOut
  <1>2. /\ search.stage = "reranking" /\ RerankFails /\ BatchesHold /\ search \in Searches
        /\ DOMAIN batches = 1..BatchCount
    BY <1>1, BatchesAre DEF RerankTimesOut
  <1>3. batches' = [b \in 1..BatchCount |-> IF batches[b].state = "scored" THEN batches[b]
                                            ELSE [batches[b] EXCEPT !.state = "cancelled"]]
    BY <1>2 DEF RerankTimesOut
  <1>4. BatchCount' = BatchCount /\ \A c : Slice(c)' = Slice(c)
    <2>1. search'.variants = search.variants /\ search'.limit = search.limit /\ pool' = pool
      BY <1>2, RerankKeeps DEF RerankFails
    <2> QED
      BY <2>1, BoundedStays
  <1>5. ASSUME NEW b \in 1..BatchCount
        PROVE  /\ batches'[b] \in Batches /\ batches'[b].chunks = Slice(b)
               /\ batches'[b].state = "scored" => Len(batches'[b].scores) = Len(batches'[b].chunks)
    <2>1. /\ batches[b] \in Batches /\ batches[b].chunks = Slice(b)
          /\ batches[b].state = "scored" => Len(batches[b].scores) = Len(batches[b].chunks)
      BY <1>2 DEF BatchesHold
    <2>2. CASE batches[b].state = "scored"
      BY <1>3, <2>1, <2>2
    <2>3. CASE batches[b].state # "scored"
      <3>1. batches'[b] = [batches[b] EXCEPT !.state = "cancelled"] /\ "cancelled" \in BatchStates
        BY <1>3, <2>3 DEF BatchStates
      <3> QED
        BY <2>1, <3>1 DEF Batches
    <2> QED
      BY <2>2, <2>3
  <1>6. batches' \in [1..BatchCount -> Batches]
    <2>1. batches' = [b \in 1..BatchCount |-> batches'[b]]
      BY <1>3
    <2> QED
      BY <1>5, <2>1
  <1>7. BatchesHold'
    BY <1>4, <1>5, <1>6 DEF BatchesHold
  <1> QED
    BY <1>2, <1>7, RerankFailsHolds

LEMMA ScoresGatheredHolds ==
  ASSUME HybridHolds, ScoresGathered
  PROVE  HybridHolds'
  <1>1. /\ search \in Searches /\ search.stage = "reranking" /\ PoolIs /\ TellsDegraded
        /\ batches' = batches /\ pool' = pool /\ faults' = faults
        /\ batches # <<>> => BatchesHold
    BY DEF ScoresGathered, HybridHolds
  <1>2. PICK c : c = Reranked
    OBVIOUS
  <1>3. PICK d \in BOOLEAN : d = search.degraded
    BY <1>1 DEF Searches
  <1>4. Return(c, d)
    BY <1>2, <1>3 DEF ScoresGathered
  <1>5. (BatchesHold' <=> BatchesHold) /\ (AllScored' <=> AllScored) /\ Reranked' = c
    BY <1>1, <1>2, <1>4, ReturningKeeps, BatchesStay
  <1>6. batches # <<>> => AllScored
    <2>1. BatchesHold => DOMAIN batches = 1..BatchCount
      BY DEF BatchesHold
    <2> QED
      BY <1>1, <2>1 DEF ScoresGathered, AllScored
  <1>7. Single => (d <=> faults' # {})
    BY <1>1, <1>3 DEF TellsDegraded
  <1> QED
    BY <1>1, <1>4, <1>5, <1>6, <1>7, ReturningHolds

LEMMA HybridStays ==
  ASSUME HybridHolds, UNCHANGED <<search, listed, fused, faults, pool, batches, returned>>
  PROVE  HybridHolds'
  <1>1. (BatchesHold' <=> BatchesHold) /\ (AllScored' <=> AllScored) /\ Reranked' = Reranked
    BY BatchesStay
  <1>2. /\ PoolIs' <=> PoolIs
        /\ TellsDegraded' <=> TellsDegraded
        /\ Unscored' <=> Unscored
    BY DEF PoolIs, TellsDegraded, Single, Unscored
  <1>3. RetrievalHolds' <=> RetrievalHolds
    BY DEF RetrievalHolds, Variants, Single, Lost
  <1>4. First(Reranked', search'.topK) = First(Reranked, search.topK)
    BY <1>1
  <1> QED
    BY <1>1, <1>2, <1>3, <1>4 DEF HybridHolds

LEMMA HybridSteps ==
  ASSUME HybridHolds, [HybridNext]_hybridVars
  PROVE  HybridHolds'
  <1>1. CASE BeginHybrid
    BY <1>1, BeginHybridHolds
  <1>2. ASSUME NEW v \in DOMAIN fused, FuseLists(v) \/ RetrievalTimesOut(v)  PROVE HybridHolds'
    BY <1>2, FuseListsHolds, TimeoutHolds
  <1>3. CASE CutPool
    BY <1>3, CutPoolHolds
  <1>4. CASE ReturnFused
    BY <1>4, ReturnFusedHolds
  <1>5. CASE BeginReranking
    BY <1>5, BeginRerankingHolds
  <1>6. CASE RerankTimesOut
    BY <1>6, RerankTimesOutHolds
  <1>7. CASE ScoresGathered
    BY <1>7, ScoresGatheredHolds
  <1>8. CASE OthersScore
    BY <1>8, HybridStays DEF OthersScore
  <1>9. ASSUME NEW v \in DOMAIN fused, NEW i \in Indices, IndexAnswers(v, i)  PROVE HybridHolds'
    BY <1>9, IndexAnswersHolds
  <1>10. ASSUME NEW b \in DOMAIN batches, BatchStarts(b) \/ BatchScores(b) \/ BatchRaises(b)
         PROVE  HybridHolds'
    BY <1>10, BatchStartsHolds, BatchScoresHolds, BatchRaisesHolds
  <1>11. CASE RerankingRejected
    BY <1>11, RerankingRejectedHolds
  <1>12. CASE UNCHANGED hybridVars
    BY <1>12, HybridStays DEF hybridVars
  <1> QED
    BY <1>1, <1>2, <1>3, <1>4, <1>5, <1>6, <1>7, <1>8, <1>9, <1>10, <1>11, <1>12 DEF HybridNext, HybridStep

LEMMA HybridRanks == HybridHolds => RankingsAreTrue
  <1> SUFFICES ASSUME HybridHolds  PROVE RankingsAreTrue
    OBVIOUS
  <1>1. ASSUME AllFused
        PROVE  /\ IsInjective(Ranking)
               /\ ToSet(Ranking) = UNION {ToSet(s) : s \in Counting}
               /\ \A a, b \in ToSet(Ranking) : Beats(a, b) => RankIn(Ranking, a) < RankIn(Ranking, b)
    <2>1. RetrievalHolds
      BY <1>1 DEF AllFused, HybridHolds
    <2> QED
      BY <1>1, <2>1, FusionIsTrue
  <1>2. search.stage = "done" => (Single => (search.degraded <=> faults # {}))
    BY DEF HybridHolds, TellsDegraded
  <1>3. ASSUME search.stage = "done", batches # <<>>, <<"rerank", 0>> \notin faults
        PROVE  BestReturned
    <2>1. /\ BatchesHold /\ PoolIs /\ AllScored /\ returned = First(Reranked, search.topK)
          /\ search.topK \in Nat /\ search.limit \in Nat \cup {NoLimit}
      BY <1>3 DEF HybridHolds, Unscored, Searches
    <2>2. Bounded \in Seq(Chunks) /\ \A i, j \in DOMAIN Bounded : Bounded[i] = Bounded[j] => i = j
      BY <2>1, BoundedIs
    <2>3. Len(Bounded) # 0
      <3> SUFFICES ASSUME Len(Bounded) = 0  PROVE FALSE
        OBVIOUS
      <3>1. BatchCount = 0
        BY <2>2, EndsAre
      <3>2. batches \in [1..0 -> Batches]
        BY <2>1, <3>1 DEF BatchesHold
      <3> QED
        BY <1>3, <3>2
    <2> QED
      BY <2>1, <2>2, <2>3, ReturnedAreBest DEF BoundedHolds
  <1> QED
    BY <1>1, <1>2, <1>3 DEF RankingsAreTrue, BestReturned

(* A search is ranked as the cross-encoder, or else the fusion of the      *)
(* lists, would have it (ReciprocalRankFusion.fuse, execute_plan, rerank): *)
(* for any chunks, weights, limits, batch sizes and scores, and any lists  *)
(* of up to three, whichever index fails, whatever times out and whichever *)
(* batch ends first.                                                       *)
THEOREM RankingsStayTrue == HybridSpec => []RankingsAreTrue
  <1>1. HybridInit => HybridHolds
    BY HybridStarts
  <1>2. HybridHolds /\ [HybridNext]_hybridVars => HybridHolds'
    BY HybridSteps
  <1>3. HybridHolds => RankingsAreTrue
    BY HybridRanks
  <1> QED
    BY <1>1, <1>2, <1>3, PTL DEF HybridSpec
================================================================================
