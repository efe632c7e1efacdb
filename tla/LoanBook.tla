------------------------------ MODULE LoanBook ------------------------------
(***************************************************************************)
(* What the protocol promises about loans, without prices, fees, shares or *)
(* time: bills are opened in the order of their numbers, each is drawn at  *)
(* most once and a drawn one is closed at most once; its principal never   *)
(* changes; and what the pool has lent moves by exactly that principal, up *)
(* when the bill is drawn and down when it is closed, whether by repayment *)
(* or by liquidation.                                                      *)
(***************************************************************************)
EXTENDS Integers

CONSTANTS
  MaxLoans,    \* number of loans
  LoanAmounts  \* principals a loan can have

VARIABLES
  loans,   \* stage and principal of each loan
  lent     \* principal the pool is owed

LoanIds == 1 .. MaxLoans
Stages == {"none", "open", "drawn", "closed"}
NoLoan == [stage |-> "none", principal |-> 0]

LoanBookInit ==
  /\ loans = [i \in LoanIds |-> NoLoan]
  /\ lent = 0

Open(i, p) ==
  /\ p > 0
  /\ loans[i] = NoLoan
  /\ \A j \in LoanIds : j < i => loans[j] # NoLoan
  /\ loans' = [loans EXCEPT ![i] = [stage |-> "open", principal |-> p]]
  /\ UNCHANGED lent

Draw(i) ==
  /\ loans[i].stage = "open"
  /\ loans' = [loans EXCEPT ![i].stage = "drawn"]
  /\ lent' = lent + loans[i].principal

Close(i) ==
  /\ loans[i].stage = "drawn"
  /\ loans' = [loans EXCEPT ![i].stage = "closed"]
  /\ lent' = lent - loans[i].principal

LoanBookNext ==
  \E i \in LoanIds :
    \/ \E p \in LoanAmounts : Open(i, p)
    \/ Draw(i)
    \/ Close(i)

LoanBookSpec == LoanBookInit /\ [][LoanBookNext]_<<loans, lent>>
=============================================================================
