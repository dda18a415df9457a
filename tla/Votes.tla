--------------------------------- MODULE Votes ---------------------------------
(***************************************************************************)
(* Votes with post-quantum signatures                                      *)
(* (quantum_defense_siso_road_singular_build/06-raft-node): nodes verify   *)
(* a vote with PPSIM and record it in the ledger document of its proposal. *)
(*                                                                         *)
(* A Firestore transaction is one step, and its answer may be lost.  A     *)
(* vote and its hash are one value.  The node that receives a vote is the  *)
(* one that attests it.                                                    *)
(***************************************************************************)
EXTENDS Naturals, FiniteSets

CONSTANTS
    Node,       \* the raft nodes
    Vote,       \* votes: [proposal, content]
    Quorum,     \* SARA_PQC_QUORUM_SIZE
    Ballot,     \* requests to /v1/consensus/pqc-vote
    VotesEnv    \* what may happen: subset of {"restart", "lost"}

ASSUME VotesAssumption ==
    /\ Quorum \in Nat \ {0}
    /\ IsFiniteSet(Node)

VARIABLES
    proposals,   \* the ledger documents: proposal -> [hash, votes, committed]
    seen,        \* _SEEN_VOTE_HASHES of each node, in memory
    ballot,      \* requests to vote
    accepted     \* votes that were answered accepted: [node, vote, committed]

votesVars == <<proposals, seen, ballot, accepted>>

Proposal == {v.proposal : v \in Vote}

VotesInit ==
    /\ proposals = [p \in Proposal |-> [hash |-> {}, votes |-> {}, committed |-> FALSE]]
    /\ seen = [n \in Node |-> {}]
    /\ ballot \in [Ballot -> [node : Node, vote : Vote, step : {"sent"}]]
    /\ accepted = {}

-----------------------------------------------------------------------------
BallotGoes(b, step) == ballot' = [ballot EXCEPT ![b].step = step]
DocumentOf(b) == proposals[ballot[b].vote.proposal]

\* _handle_pqc_vote: PPSIM verifies the signature, natively or not at all, and
\* the node looks the vote up among those it has seen.  Without a signature a
\* vote is refused, strict or not.
VerifyVote(b) ==
    /\ ballot[b].step = "sent"
    /\ \E valid \in BOOLEAN :
         BallotGoes(b, IF valid /\ ballot[b].vote \notin seen[ballot[b].node] THEN "verified" ELSE "refused")
    /\ UNCHANGED <<proposals, seen, accepted>>

Attesting(b) == DocumentOf(b).votes \cup {ballot[b].node}

\* Mutant of Recordable: the hash of an earlier vote is not compared.
RecordableAny(b) == ballot[b].node \notin DocumentOf(b).votes

\* _record_verified_vote_impl accepts one vote of each node, all for one hash.
Recordable(b) ==
    /\ DocumentOf(b).hash \subseteq {ballot[b].vote}
    /\ ballot[b].node \notin DocumentOf(b).votes

\* The transaction, and what the node does with its result.  When its answer is
\* lost the node answers 503 and does not remember the vote.
RecordVote(b) ==
    /\ ballot[b].step = "verified"
    /\ IF Recordable(b)
       THEN LET v == ballot[b].vote
                done == Cardinality(Attesting(b)) >= Quorum
            IN /\ proposals' = [proposals EXCEPT ![v.proposal] =
                     [hash |-> {v}, votes |-> Attesting(b), committed |-> done]]
               /\ \/ /\ seen' = [seen EXCEPT ![ballot[b].node] = @ \cup {v}]
                     /\ accepted' = accepted \cup {[node |-> ballot[b].node, vote |-> v, committed |-> done]}
                     /\ BallotGoes(b, "accepted")
                  \/ /\ "lost" \in VotesEnv
                     /\ BallotGoes(b, "failed")
                     /\ UNCHANGED <<seen, accepted>>
       ELSE BallotGoes(b, "refused") /\ UNCHANGED <<proposals, seen, accepted>>

\* A client whose vote was not accepted sends it again.
SendAgain(b) ==
    /\ ballot[b].step = "failed"
    /\ BallotGoes(b, "sent")
    /\ UNCHANGED <<proposals, seen, accepted>>

\* A node restarts: the votes it has seen are forgotten, its requests are lost.
NodeRestart ==
    /\ "restart" \in VotesEnv
    /\ \E n \in Node :
         /\ seen[n] # {} \/ \E b \in Ballot : ballot[b].node = n /\ ballot[b].step = "verified"
         /\ seen' = [seen EXCEPT ![n] = {}]
         /\ ballot' = [b \in Ballot |->
              IF ballot[b].node = n /\ ballot[b].step = "verified" THEN [ballot[b] EXCEPT !.step = "failed"]
              ELSE ballot[b]]
    /\ UNCHANGED <<proposals, accepted>>

VotesNext ==
    \/ \E b \in Ballot : VerifyVote(b) \/ RecordVote(b) \/ SendAgain(b)
    \/ NodeRestart

VotesSpec == VotesInit /\ [][VotesNext]_votesVars

-----------------------------------------------------------------------------
VotesTypeOK ==
    /\ proposals \in [Proposal -> [hash : SUBSET Vote, votes : SUBSET Node, committed : BOOLEAN]]
    /\ seen \in [Node -> SUBSET Vote]
    /\ ballot \in [Ballot -> [node : Node, vote : Vote,
                              step : {"sent", "verified", "accepted", "refused", "failed"}]]
    /\ accepted \subseteq [node : Node, vote : Vote, committed : BOOLEAN]

\* Whoever was told that a proposal is committed was told so of the one vote
\* that a quorum of different nodes verified, also when nodes restart and
\* clients send again.
CommitIsQuorate ==
    /\ \A a \in accepted :
         /\ proposals[a.vote.proposal].hash = {a.vote}
         /\ a.node \in proposals[a.vote.proposal].votes
         /\ a.committed => proposals[a.vote.proposal].committed
    /\ \A p \in Proposal :
         proposals[p].committed <=> Cardinality(proposals[p].votes) >= Quorum
=============================================================================
