------------------------------ MODULE Pairing ------------------------------
(***************************************************************************)
(* Pairing a runner with an account: the tables runner_pairings and        *)
(* runners, the protocol service (runner-protocol.ts) over the Postgres    *)
(* store (postgres-runner-store.ts).                                       *)
(*                                                                         *)
(* approvePairing and pollPairing read the pairing, decide, and write in a *)
(* later transaction; what they carry from the read to the write is a      *)
(* record in approveReqs or pollReqs, so any number of them can overlap.   *)
(***************************************************************************)
EXTENDS Naturals, FiniteSets

CONSTANTS
  Pairings,        \* device codes, each with its user code
  Owners, NoOwner, \* accounts, and the null of runner_pairings.owner_id
  MaxRunners,      \* bound: approvals that can be attempted
  MaxTokens        \* bound: polls of an approved pairing

ASSUME PairingAssumption ==
  NoOwner \notin Owners /\ MaxRunners \in Nat /\ MaxTokens \in Nat

Runners == 1..MaxRunners      \* ids and tokens are random: never drawn twice
Tokens == 1..MaxTokens
NoRunner == 0
NoToken == 0

VARIABLES
  started, expired, ownerId, runnerId, consumed,     \* a row of runner_pairings
  runnerOwner, tokenHash, revoked,                   \* a row of runners
  nextRunner, nextToken,
  approveReqs, pollReqs,
  answers          \* the "approved" answers that were ever sent

pairingVars == <<started, expired, ownerId, runnerId, consumed>>
runnerVars == <<runnerOwner, tokenHash, revoked>>
vars == <<pairingVars, runnerVars, nextRunner, nextToken, approveReqs, pollReqs, answers>>

ApproveReq == [pairing : Pairings, owner : Owners, runner : Runners]
PollReq == [pairing : Pairings, runner : Runners, token : Tokens, revoked : BOOLEAN]
Answer == [pairing : Pairings, runner : Runners, token : Tokens]

TypeOK ==
  /\ started \subseteq Pairings /\ expired \subseteq started /\ consumed \subseteq started
  /\ ownerId \in [Pairings -> Owners \cup {NoOwner}]
  /\ runnerId \in [Pairings -> Runners \cup {NoRunner}]
  /\ runnerOwner \in [Runners -> Owners \cup {NoOwner}]
  /\ tokenHash \in [Runners -> Tokens \cup {NoToken}]
  /\ revoked \subseteq Runners
  /\ nextRunner \in 1..MaxRunners + 1 /\ nextToken \in 1..MaxTokens + 1
  /\ approveReqs \subseteq ApproveReq /\ pollReqs \subseteq PollReq
  /\ answers \subseteq Answer

Init ==
  /\ started = {} /\ expired = {} /\ consumed = {}
  /\ ownerId = [p \in Pairings |-> NoOwner]
  /\ runnerId = [p \in Pairings |-> NoRunner]
  /\ runnerOwner = [r \in Runners |-> NoOwner]
  /\ tokenHash = [r \in Runners |-> NoToken]
  /\ revoked = {} /\ nextRunner = 1 /\ nextToken = 1
  /\ approveReqs = {} /\ pollReqs = {} /\ answers = {}

StartPairing(p) ==
  /\ p \notin started
  /\ started' = started \cup {p}
  /\ UNCHANGED <<expired, ownerId, runnerId, consumed, runnerVars, nextRunner,
                 nextToken, approveReqs, pollReqs, answers>>

(* Ten minutes pass.                                                       *)
Expire(p) ==
  /\ p \in started \ expired
  /\ expired' = expired \cup {p}
  /\ UNCHANGED <<started, ownerId, runnerId, consumed, runnerVars, nextRunner,
                 nextToken, approveReqs, pollReqs, answers>>

(* assertPairingUsable.                                                    *)
Usable(p) == p \in started \ (consumed \cup expired)

(* A transaction took its clock before the expiry, or after it.            *)
InTime(p) == {TRUE, p \notin expired}

-----------------------------------------------------------------------------
(* approvePairing.                                                         *)

ReceiveApproval(p, owner) ==
  /\ Usable(p) /\ ownerId[p] = NoOwner
  /\ nextRunner <= MaxRunners
  /\ approveReqs' = approveReqs \cup
       {[pairing |-> p, owner |-> owner, runner |-> nextRunner]}
  /\ nextRunner' = nextRunner + 1
  /\ UNCHANGED <<pairingVars, runnerVars, nextToken, pollReqs, answers>>

\* Mutant of StillUnapproved.
StillUnapprovedAsRead(q) == TRUE

StillUnapproved(q) == ownerId[q.pairing] = NoOwner

(* The transaction inserts the runner, claims the pairing, and deletes the *)
(* runner again when another approval or the expiry came first.            *)
Approve(q, inTime) ==
  /\ approveReqs' = approveReqs \ {q}
  /\ IF inTime /\ StillUnapproved(q)
       THEN /\ ownerId' = [ownerId EXCEPT ![q.pairing] = q.owner]
            /\ runnerId' = [runnerId EXCEPT ![q.pairing] = q.runner]
            /\ runnerOwner' = [runnerOwner EXCEPT ![q.runner] = q.owner]
       ELSE UNCHANGED <<ownerId, runnerId, runnerOwner>>
  /\ UNCHANGED <<started, expired, consumed, tokenHash, revoked, nextRunner,
                 nextToken, pollReqs, answers>>

-----------------------------------------------------------------------------
(* pollPairing.                                                            *)

\* Mutant of IsApproved.
IsApprovedAlways(p) == TRUE

IsApproved(p) == runnerId[p] # NoRunner

(* Until it is approved a poll reads "pending" and changes nothing.  The   *)
(* request carries the runner's row as it is now, with a fresh token.      *)
ReceivePoll(p) ==
  /\ Usable(p) /\ IsApproved(p)
  /\ nextToken <= MaxTokens
  /\ pollReqs' = pollReqs \cup
       {[pairing |-> p, runner |-> runnerId[p], token |-> nextToken,
         revoked |-> runnerId[p] \in revoked]}
  /\ nextToken' = nextToken + 1
  /\ UNCHANGED <<pairingVars, runnerVars, nextRunner, approveReqs, answers>>

\* Mutant of StillUnconsumed.
StillUnconsumedAsRead(q) == TRUE

StillUnconsumed(q) == q.pairing \notin consumed /\ runnerId[q.pairing] = q.runner

\* Mutant of TokenHashes: the token is stored before the pairing is claimed.
TokenHashesAlways(q, claimed) == [tokenHash EXCEPT ![q.runner] = q.token]

TokenHashes(q, claimed) ==
  IF claimed THEN [tokenHash EXCEPT ![q.runner] = q.token] ELSE tokenHash

\* Mutant of Revocations: the row is written back as it was read, which is
\* what the in-memory store does.
RevocationsAsRead(q) == IF q.revoked THEN revoked ELSE revoked \ {q.runner}

(* Only the token column of the runner's row is written.                   *)
Revocations(q) == revoked

Consume(q, inTime) ==
  LET claimed == inTime /\ StillUnconsumed(q) IN
  /\ pollReqs' = pollReqs \ {q}
  /\ tokenHash' = TokenHashes(q, claimed)
  /\ revoked' = Revocations(q)
  /\ consumed' = IF claimed THEN consumed \cup {q.pairing} ELSE consumed
  /\ answers' = IF claimed
       THEN answers \cup {[pairing |-> q.pairing, runner |-> q.runner, token |-> q.token]}
       ELSE answers
  /\ UNCHANGED <<started, expired, ownerId, runnerId, runnerOwner, nextRunner,
                 nextToken, approveReqs>>

(* The server process stops between the read and the transaction.          *)
Abandon(q) ==
  /\ approveReqs' = approveReqs \ {q} /\ pollReqs' = pollReqs \ {q}
  /\ UNCHANGED <<pairingVars, runnerVars, nextRunner, nextToken, answers>>

-----------------------------------------------------------------------------
(* revokeRunner, the owner's, which the dashboard offers as soon as the    *)
(* runner's row exists, or the runner's own logout.                        *)
RevokeRunner(r) ==
  /\ runnerOwner[r] # NoOwner
  /\ revoked' = revoked \cup {r}
  /\ UNCHANGED <<pairingVars, runnerOwner, tokenHash, nextRunner, nextToken,
                 approveReqs, pollReqs, answers>>

Next ==
  \/ \E p \in Pairings : StartPairing(p) \/ Expire(p) \/ ReceivePoll(p)
  \/ \E p \in Pairings, o \in Owners : ReceiveApproval(p, o)
  \/ \E q \in approveReqs : \E t \in InTime(q.pairing) : Approve(q, t)
  \/ \E q \in pollReqs : \E t \in InTime(q.pairing) : Consume(q, t)
  \/ \E q \in approveReqs \cup pollReqs : Abandon(q)
  \/ \E r \in Runners : RevokeRunner(r)

Spec == Init /\ [][Next]_vars

-----------------------------------------------------------------------------
(***************************************************************************)
(* Properties.                                                             *)
(***************************************************************************)

(* control-plane/README.md: pairing codes "can deliver a token only once", *)
(* however many polls overlap.                                             *)
TokenDeliveredOnce == \A a, b \in answers : a.pairing = b.pairing => a = b

(* The token that was delivered is the one authenticate will look for: no  *)
(* poll that lost the race replaced it, and no approval that came late     *)
(* gave the pairing to another runner.                                     *)
DeliveredTokenStands ==
  \A a \in answers : runnerId[a.pairing] = a.runner /\ tokenHash[a.runner] = a.token

(* A pairing belongs to the first account that approved it, and its runner *)
(* is the only one the approvals left behind.                              *)
RunnerOfItsApprover ==
  /\ \A p \in Pairings :
       runnerId[p] # NoRunner => runnerOwner[runnerId[p]] = ownerId[p] /\ ownerId[p] # NoOwner
  /\ \A r \in Runners :
       runnerOwner[r] # NoOwner => \E p \in Pairings : runnerId[p] = r

(* A runner revoked while its poll is under way stays revoked.             *)
RevocationSurvivesPairing == [][revoked \subseteq revoked']_vars
=============================================================================
