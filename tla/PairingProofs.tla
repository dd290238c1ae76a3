---------------------------- MODULE PairingProofs ----------------------------
(***************************************************************************)
(* Theorems about Pairing, for every set of pairings and accounts and any  *)
(* number of overlapping approvals and polls.                              *)
(***************************************************************************)
EXTENDS Pairing, TLAPS

(* A pairing without an account has no runner, and a runner no more than   *)
(* one pairing.                                                            *)
OneRunnerEach ==
  /\ \A p \in Pairings : ownerId[p] = NoOwner <=> runnerId[p] = NoRunner
  /\ \A p, q \in Pairings : runnerId[p] = runnerId[q] /\ runnerId[p] # NoRunner => p = q

(* The id an approval has drawn is in no row and in no other request.      *)
IdsFresh ==
  /\ \A q \in approveReqs : q.runner < nextRunner /\ runnerOwner[q.runner] = NoOwner
  /\ \A q, s \in approveReqs : q.runner = s.runner => q = s
  /\ \A r \in Runners : runnerOwner[r] # NoOwner => r < nextRunner

(* A poll has read an approval, which stands.                              *)
PollsApproved ==
  \A q \in pollReqs : q.pairing \in started /\ runnerId[q.pairing] = q.runner

AnswersConsumed == \A a \in answers : a.pairing \in consumed

IInv ==
  /\ TypeOK
  /\ OneRunnerEach /\ RunnerOfItsApprover /\ IdsFresh /\ PollsApproved
  /\ AnswersConsumed /\ TokenDeliveredOnce /\ DeliveredTokenStands

LEMMA InitInv == Init => IInv
BY PairingAssumption DEF Init, IInv, TypeOK, OneRunnerEach, RunnerOfItsApprover, IdsFresh,
   PollsApproved, AnswersConsumed, TokenDeliveredOnce, DeliveredTokenStands, Runners,
   Tokens, NoRunner, NoToken

LEMMA ReceiveApprovalInv ==
  ASSUME IInv, NEW p \in Pairings, NEW o \in Owners, ReceiveApproval(p, o)
  PROVE  IInv'
<1> DEFINE new == [pairing |-> p, owner |-> o, runner |-> nextRunner]
<1>1. nextRunner \in Runners /\ new \in ApproveReq /\ nextRunner' \in 1..MaxRunners + 1
  BY PairingAssumption DEF IInv, TypeOK, ReceiveApproval, Runners, ApproveReq
<1>2. approveReqs' = approveReqs \cup {new} /\ nextRunner' = nextRunner + 1
  BY DEF ReceiveApproval
<1>3. UNCHANGED <<pairingVars, runnerVars, nextToken, pollReqs, answers>>
  BY DEF ReceiveApproval
<1>4. TypeOK'
  BY <1>1, <1>2, <1>3 DEF IInv, TypeOK, pairingVars, runnerVars
<1>5. IdsFresh'
  <2>1. runnerOwner[nextRunner] = NoOwner
    BY <1>1 DEF IInv, IdsFresh, Runners
  <2>2. \A q \in approveReqs : q.runner \in Runners /\ q.runner < nextRunner
    BY DEF IInv, TypeOK, IdsFresh, ApproveReq
  <2>3. new.runner = nextRunner
    OBVIOUS
  <2> HIDE DEF new
  <2> QED BY <1>1, <1>2, <1>3, <2>1, <2>2, <2>3 DEF IInv, IdsFresh, runnerVars, Runners
<1> QED BY <1>3, <1>4, <1>5 DEF IInv, OneRunnerEach, RunnerOfItsApprover, PollsApproved,
        AnswersConsumed, TokenDeliveredOnce, DeliveredTokenStands, pairingVars, runnerVars

LEMMA ApproveInv ==
  ASSUME IInv, NEW q \in approveReqs, NEW t \in InTime(q.pairing), Approve(q, t)
  PROVE  IInv'
<1>1. q.pairing \in Pairings /\ q.owner \in Owners /\ q.runner \in Runners
  BY DEF IInv, TypeOK, ApproveReq
<1>2. UNCHANGED <<started, expired, consumed, tokenHash, revoked, nextRunner,
                  nextToken, pollReqs, answers>> /\ approveReqs' = approveReqs \ {q}
  BY DEF Approve
<1>3. CASE t /\ StillUnapproved(q)
  <2>1. /\ ownerId' = [ownerId EXCEPT ![q.pairing] = q.owner]
        /\ runnerId' = [runnerId EXCEPT ![q.pairing] = q.runner]
        /\ runnerOwner' = [runnerOwner EXCEPT ![q.runner] = q.owner]
    BY <1>3 DEF Approve
  <2>2. runnerOwner[q.runner] = NoOwner /\ q.runner # NoRunner /\ q.owner # NoOwner
    BY <1>1, PairingAssumption DEF IInv, IdsFresh, Runners, NoRunner
  <2>3. runnerId[q.pairing] = NoRunner
    BY <1>1, <1>3 DEF IInv, OneRunnerEach, StillUnapproved
  <2>4. \A p \in Pairings : runnerId[p] # q.runner
    BY <2>2 DEF IInv, RunnerOfItsApprover
  <2>5. TypeOK'
    BY <1>1, <1>2, <2>1 DEF IInv, TypeOK
  <2>6. OneRunnerEach'
    BY <1>1, <2>1, <2>2, <2>4 DEF IInv, TypeOK, OneRunnerEach
  <2>7. RunnerOfItsApprover'
    BY <1>1, <2>1, <2>2, <2>3, <2>4 DEF IInv, TypeOK, RunnerOfItsApprover, Runners, NoRunner
  <2>8. IdsFresh'
    BY <1>1, <1>2, <2>1 DEF IInv, TypeOK, IdsFresh, ApproveReq
  <2>9. PollsApproved'
    BY <1>1, <1>2, <2>1, <2>3 DEF IInv, TypeOK, PollsApproved, PollReq, Runners, NoRunner
  <2>10. DeliveredTokenStands'
    BY <1>1, <1>2, <2>1, <2>3 DEF IInv, TypeOK, DeliveredTokenStands, Answer, Runners, NoRunner
  <2> QED BY <1>2, <2>5, <2>6, <2>7, <2>8, <2>9, <2>10
          DEF IInv, AnswersConsumed, TokenDeliveredOnce
<1>4. CASE ~(t /\ StillUnapproved(q))
  <2>1. UNCHANGED <<ownerId, runnerId, runnerOwner>>
    BY <1>4 DEF Approve
  <2> QED BY <1>2, <2>1 DEF IInv, TypeOK, OneRunnerEach, RunnerOfItsApprover, IdsFresh,
          PollsApproved, AnswersConsumed, TokenDeliveredOnce, DeliveredTokenStands
<1> QED BY <1>3, <1>4

LEMMA ReceivePollInv ==
  ASSUME IInv, NEW p \in Pairings, ReceivePoll(p)
  PROVE  IInv'
<1> DEFINE r == runnerId[p]
           new == [pairing |-> p, runner |-> r, token |-> nextToken, revoked |-> r \in revoked]
<1>1. r \in Runners /\ nextToken \in Tokens /\ nextToken' \in 1..MaxTokens + 1
  BY PairingAssumption DEF IInv, TypeOK, ReceivePoll, IsApproved, Tokens
<1>2. (r \in revoked) \in BOOLEAN
  OBVIOUS
<1>3. new \in PollReq
  BY <1>1, <1>2 DEF PollReq
<1>4. pollReqs' = pollReqs \cup {new}
      /\ UNCHANGED <<pairingVars, runnerVars, nextRunner, approveReqs, answers>>
  BY DEF ReceivePoll
<1>5. TypeOK'
  BY <1>1, <1>3, <1>4 DEF IInv, TypeOK, pairingVars, runnerVars
<1>6. PollsApproved'
  <2>1. new.pairing = p /\ new.runner = runnerId[p] /\ p \in started
    BY DEF ReceivePoll, Usable
  <2> HIDE DEF new
  <2> QED BY <1>4, <2>1 DEF IInv, PollsApproved, pairingVars
<1> QED BY <1>4, <1>5, <1>6 DEF IInv, OneRunnerEach, RunnerOfItsApprover, IdsFresh,
        AnswersConsumed, TokenDeliveredOnce, DeliveredTokenStands, pairingVars, runnerVars

LEMMA ConsumeInv ==
  ASSUME IInv, NEW q \in pollReqs, NEW t \in InTime(q.pairing), Consume(q, t)
  PROVE  IInv'
<1> DEFINE claimed == t /\ StillUnconsumed(q)
           new == [pairing |-> q.pairing, runner |-> q.runner, token |-> q.token]
<1>1. q.pairing \in Pairings /\ q.runner \in Runners /\ q.token \in Tokens
  BY DEF IInv, TypeOK, PollReq
<1>2. /\ pollReqs' = pollReqs \ {q} /\ revoked' = revoked
      /\ UNCHANGED <<started, expired, ownerId, runnerId, runnerOwner, nextRunner,
                     nextToken, approveReqs>>
  BY DEF Consume, Revocations
<1>3. CASE claimed
  <2>1. /\ tokenHash' = [tokenHash EXCEPT ![q.runner] = q.token]
        /\ consumed' = consumed \cup {q.pairing}
        /\ answers' = answers \cup {new}
    BY <1>3 DEF Consume, TokenHashes
  <2>2. q.pairing \notin consumed /\ runnerId[q.pairing] = q.runner
    BY <1>3 DEF StillUnconsumed
  <2>3. new \in Answer /\ new.pairing = q.pairing /\ new.runner = q.runner /\ new.token = q.token
    BY <1>1 DEF Answer
  <2>4. q.pairing \in started
    BY DEF IInv, PollsApproved
  <2>5. \A a \in answers : a.pairing # q.pairing /\ a.runner # q.runner
    <3> SUFFICES ASSUME NEW a \in answers PROVE a.pairing # q.pairing /\ a.runner # q.runner
      OBVIOUS
    <3>1. a.pairing \in consumed /\ a.pairing \in Pairings /\ runnerId[a.pairing] = a.runner
      BY DEF IInv, TypeOK, AnswersConsumed, DeliveredTokenStands, Answer
    <3> QED BY <1>1, <2>2, <3>1 DEF IInv, OneRunnerEach, Runners, NoRunner
  <2> HIDE DEF new
  <2>6. TypeOK'
    BY <1>1, <1>2, <2>1, <2>3, <2>4 DEF IInv, TypeOK
  <2>7. AnswersConsumed' /\ TokenDeliveredOnce'
    BY <2>1, <2>3, <2>5 DEF IInv, AnswersConsumed, TokenDeliveredOnce
  <2>8. DeliveredTokenStands'
    BY <1>1, <1>2, <2>1, <2>2, <2>3, <2>5 DEF IInv, TypeOK, DeliveredTokenStands, Answer
  <2> QED BY <1>2, <2>6, <2>7, <2>8 DEF IInv, OneRunnerEach, RunnerOfItsApprover, IdsFresh,
          PollsApproved
<1>4. CASE ~claimed
  <2>1. UNCHANGED <<tokenHash, consumed, answers>>
    BY <1>4 DEF Consume, TokenHashes
  <2> QED BY <1>2, <2>1 DEF IInv, TypeOK, OneRunnerEach, RunnerOfItsApprover, IdsFresh,
          PollsApproved, AnswersConsumed, TokenDeliveredOnce, DeliveredTokenStands
<1> QED BY <1>3, <1>4

LEMMA NextInv == IInv /\ [Next]_vars => IInv'
<1> SUFFICES ASSUME IInv, [Next]_vars PROVE IInv'
  OBVIOUS
<1>1. ASSUME NEW p \in Pairings, StartPairing(p) PROVE IInv'
  BY <1>1 DEF StartPairing, IInv, TypeOK, OneRunnerEach, RunnerOfItsApprover, IdsFresh,
     PollsApproved, AnswersConsumed, TokenDeliveredOnce, DeliveredTokenStands, runnerVars
<1>2. ASSUME NEW p \in Pairings, Expire(p) PROVE IInv'
  BY <1>2 DEF Expire, IInv, TypeOK, OneRunnerEach, RunnerOfItsApprover, IdsFresh,
     PollsApproved, AnswersConsumed, TokenDeliveredOnce, DeliveredTokenStands, runnerVars
<1>3. ASSUME NEW q \in approveReqs \cup pollReqs, Abandon(q) PROVE IInv'
  BY <1>3 DEF Abandon, IInv, TypeOK, OneRunnerEach, RunnerOfItsApprover, IdsFresh,
     PollsApproved, AnswersConsumed, TokenDeliveredOnce, DeliveredTokenStands, pairingVars,
     runnerVars
<1>4. ASSUME NEW r \in Runners, RevokeRunner(r) PROVE IInv'
  BY <1>4 DEF RevokeRunner, IInv, TypeOK, OneRunnerEach, RunnerOfItsApprover, IdsFresh,
     PollsApproved, AnswersConsumed, TokenDeliveredOnce, DeliveredTokenStands, pairingVars
<1>5. CASE UNCHANGED vars
  BY <1>5 DEF vars, IInv, TypeOK, OneRunnerEach, RunnerOfItsApprover, IdsFresh,
     PollsApproved, AnswersConsumed, TokenDeliveredOnce, DeliveredTokenStands, pairingVars,
     runnerVars
<1> QED BY <1>1, <1>2, <1>3, <1>4, <1>5, ReceiveApprovalInv, ApproveInv, ReceivePollInv,
        ConsumeInv DEF Next

(* The inductive invariant: ids are fresh, a runner has one pairing, and   *)
(* what a poll has read of an approval stays true.                         *)
THEOREM Inductive == Spec => []IInv
BY InitInv, NextInv, PTL DEF Spec

(* Rows, requests and answers keep their types.                            *)
THEOREM TypeCorrect == Spec => []TypeOK
<1>1. IInv => TypeOK
  BY DEF IInv
<1> QED BY <1>1, Inductive, PTL

(* However many polls of a device code overlap, one answer carries a token.*)
THEOREM DeliveredOnce == Spec => []TokenDeliveredOnce
<1>1. IInv => TokenDeliveredOnce
  BY DEF IInv
<1> QED BY <1>1, Inductive, PTL

(* A token that was sent stays the one its runner authenticates with.      *)
THEOREM DeliveredStands == Spec => []DeliveredTokenStands
<1>1. IInv => DeliveredTokenStands
  BY DEF IInv
<1> QED BY <1>1, Inductive, PTL

(* Overlapping approvals leave one runner, of the account that came first. *)
THEOREM ApprovalUnique == Spec => []RunnerOfItsApprover
<1>1. IInv => RunnerOfItsApprover
  BY DEF IInv
<1> QED BY <1>1, Inductive, PTL

(* A poll that read the runner's row before a revocation and writes after  *)
(* it does not undo the revocation: no step gives a revoked runner back.   *)
THEOREM RevocationStands == Spec => RevocationSurvivesPairing
<1>1. [Next]_vars => revoked \subseteq revoked'
  BY DEF Next, vars, runnerVars, StartPairing, Expire, ReceivePoll, ReceiveApproval, Approve,
     Consume, Revocations, Abandon, RevokeRunner
<1>2. [Next]_vars => [revoked \subseteq revoked']_vars
  BY <1>1
<1> QED BY <1>2, PTL DEF Spec, RevocationSurvivesPairing
=============================================================================
