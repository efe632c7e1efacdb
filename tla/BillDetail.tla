----------------------------- MODULE BillDetail -----------------------------
(***************************************************************************)
(* The page of one bill, as its buyer, its merchant and the admin see it.  *)
(* It shows the indexed copy, which it keeps for half a minute, and, once  *)
(* asked to verify, what BNPL Core says; where the two differ it reports a *)
(* mismatch and offers to report the discrepancy.  The two are read at     *)
(* different times, and the page follows neither: a payment between them   *)
(* is a mismatch too, though nothing is wrong.                             *)
(***************************************************************************)
EXTENDS Naturals

VARIABLES
  status,     \* status of the bill in BNPL Core, or "None" before it exists
  parsed,     \* ParsedBill.status, or "none"
  copy,       \* the indexed bill the page's query holds, or "none"
  fresh,      \* the copy is younger than its staleTime
  viewer,     \* whose page it is
  onPage,     \* the page is open
  onChainData \* what the page last got from the chain, or "none"

billDetailVars == <<viewer, status, parsed, copy, fresh, onPage, onChainData>>

(* The contract's status tags, and the database's names for them.          *)
Tags == {"Created", "Paid", "Repaid", "Liquidated"}
Stored == [Created |-> "CREATED", Paid |-> "PAID",
           Repaid |-> "REPAID", Liquidated |-> "LIQUIDATED"]
Follows == [None |-> {"Created"}, Created |-> {"Paid"},
            Paid |-> {"Repaid", "Liquidated"}, Repaid |-> {}, Liquidated |-> {}]
Viewers == {"user", "merchant", "admin"}
Rows == {"none"} \cup {Stored[t] : t \in Tags}

BillDetailTypeOK ==
  /\ status \in Tags \cup {"None"} /\ parsed \in Rows /\ copy \in Rows
  /\ viewer \in Viewers /\ fresh \in BOOLEAN /\ onPage \in BOOLEAN
  /\ onChainData \in Tags \cup {"none"}

BillDetailInit ==
  /\ viewer \in Viewers
  /\ status = "None" /\ parsed = "none"
  /\ copy = "none" /\ fresh = FALSE /\ onPage = TRUE
  /\ onChainData = "none"

(* The bill's life on chain, and the indexer, which follows it.            *)
ChainMoves ==
  /\ \E t \in Follows[status] : status' = t
  /\ UNCHANGED <<viewer, parsed, copy, fresh, onPage, onChainData>>

RowFollows ==
  /\ status # "None" /\ parsed # Stored[status]
  /\ parsed' = Stored[status]
  /\ UNCHANGED <<viewer, status, copy, fresh, onPage, onChainData>>

-----------------------------------------------------------------------------
(* The query of the indexed bill, repeated when the tab gets the focus and *)
(* the copy is stale.  A bill that is not indexed is "Bill Not Found".     *)
ReadBill ==
  /\ onPage /\ ~ fresh /\ parsed # "none"
  /\ copy' = parsed /\ fresh' = TRUE
  /\ UNCHANGED <<viewer, status, parsed, onPage, onChainData>>

CopyStales ==
  /\ fresh
  /\ fresh' = FALSE
  /\ UNCHANGED <<viewer, status, parsed, copy, onPage, onChainData>>

(* Each page shows the bill once it has a copy; the buyer's and the        *)
(* merchant's to whoever is connected, as a guest if it is not theirs.     *)
UserSees == viewer = "user" /\ copy # "none"
MerchantSees == viewer = "merchant" /\ copy # "none"
AdminSees == viewer = "admin" /\ copy # "none"
CardShown == onPage /\ (UserSees \/ MerchantSees \/ AdminSees)

(* The Verify button: read the bill from the chain and keep what is read,  *)
(* if anything: after a refused or lost read the older data stay.  When    *)
(* the answer comes late it is only an older one.                          *)
VerifyOnChain ==
  /\ CardShown
  /\ onChainData' = status
  /\ UNCHANGED <<viewer, status, parsed, copy, fresh, onPage>>

NormalizeStatus_AsStored(s) == s                        \* mutant
NormalizeStatus(s) ==
  IF s \in Tags THEN s ELSE CHOOSE t \in Tags : Stored[t] = s

HasMismatch ==
  /\ CardShown /\ onChainData # "none"
  /\ NormalizeStatus(copy) # NormalizeStatus(onChainData)

-----------------------------------------------------------------------------
(* The buyer's page repays an active bill, as far as it knows, and leaves  *)
(* for the dashboard; the query keeps its copy, the verification is gone.  *)
RepayOffered == onPage /\ UserSees /\ copy = Stored["Paid"]

HandleRepay ==
  /\ RepayOffered /\ status = "Paid"
  /\ status' = "Repaid"
  /\ onPage' = FALSE /\ onChainData' = "none"
  /\ UNCHANGED <<viewer, parsed, copy, fresh>>

ComeBack ==
  /\ ~ onPage
  /\ onPage' = TRUE
  /\ UNCHANGED <<viewer, status, parsed, copy, fresh, onChainData>>

BillDetailNext ==
  \/ ChainMoves \/ RowFollows
  \/ ReadBill \/ CopyStales
  \/ VerifyOnChain
  \/ HandleRepay \/ ComeBack

(* The indexer and the staleness go on by themselves, and a reader who     *)
(* sees a mismatch looks again and verifies again, until an answer comes.  *)
BillDetailFairness ==
  /\ WF_billDetailVars(RowFollows) /\ WF_billDetailVars(CopyStales)
  /\ SF_billDetailVars(ReadBill)
  /\ SF_billDetailVars(VerifyOnChain)

BillDetailSpec == BillDetailInit /\ [][BillDetailNext]_billDetailVars

-----------------------------------------------------------------------------
(* A mismatch the page reports while the indexer only lags, or because its *)
(* two copies were read around a payment, goes away: no bill is reported   *)
(* as a discrepancy for good because of how its status is written          *)
(* (BillDetailCard.tsx L94-104).                                           *)
DiscrepancyClears == HasMismatch ~> ~ HasMismatch
=============================================================================
