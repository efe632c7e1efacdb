----------------------------- MODULE MCProtocol -----------------------------
(* BnplCore from its deployment, in two kinds of behaviours.  In one the   *)
(* interest is in the loans: two bills of a user on both sides of expiry,  *)
(* grace period and threshold, with deposits and withdrawals around them.  *)
(* In the other it is in the pool's own calls, all of them: one loan, and  *)
(* a bounded number of calls before, during and after it.                  *)
EXTENDS MCBnplCore

CONSTANTS
  MaxPoolCalls,   \* bound: pool calls of a behaviour of the second kind
  CallTimes,      \* bound: the times at which they are made
  CallShares      \* bound: the supply of shares then

MCLpApproveAmounts == {-300, 300}

VARIABLES
  kind,           \* "loans" or "calls"
  poolCalls       \* pool calls so far

protocolVars == <<vars, kind, poolCalls>>

MCProtocolInit == Init /\ kind \in {"loans", "calls"} /\ poolCalls = 0

(* A pool that is initialized again is left empty from then on.            *)
AroundLoans ==
  /\ UNCHANGED poolCalls
  /\ \/ CoreCall
     \/ LedgerClose /\ UNCHANGED <<coreVars, lpVars>>
     \/ /\ \/ UpdateIndex
           \/ \E u \in Users, a \in DepositAmounts : Deposit(u, a)
           \/ \E u \in Users, a \in WithdrawAmounts : Withdraw(u, a, Locked[u])
           \/ LpInitialize("USDC")
        /\ UNCHANGED coreVars
  /\ merchants' \in [Merchants -> {NotEnrolled, "Pending", "Approved"}]
  /\ reset => supply' = 0

AroundCalls ==
  /\ \/ CoreCall /\ UNCHANGED poolCalls
     \/ LedgerClose /\ UNCHANGED <<coreVars, lpVars, poolCalls>>
     \/ /\ poolCalls < MaxPoolCalls
        /\ poolCalls' = poolCalls + 1
        /\ LpCall(Locked) /\ UNCHANGED coreVars
  /\ billCounter' <= 2 /\ now' \in CallTimes /\ supply' <= CallShares

MCProtocolNext ==
  /\ \/ kind = "loans" /\ AroundLoans
     \/ kind = "calls" /\ AroundCalls
  /\ UNCHANGED kind
MCProtocolSpec == MCProtocolInit /\ [][MCProtocolNext]_protocolVars
=============================================================================
