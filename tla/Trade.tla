------------------------------- MODULE Trade -------------------------------
(***************************************************************************)
(* The trade record two peers keep about one exchange, and the pure        *)
(* functions of storage.rs and commit_procedure.rs on it.  A trade stands  *)
(* for the bincode value stored under its id in the active-trades tree;    *)
(* the charge and the multiaddresses are left out, no step reads them.     *)
(***************************************************************************)
EXTENDS Tree

CONSTANTS Node,   \* peers, named by their PeerId
          Id      \* trade ids (u32), chosen by the requester's client

(* The statuses whose step is started by the indexer's ticker. *)
SendStatus == {"RSendT1Commit", "PSendT1Commit", "RSendT2Commit"}

(* The statuses in which a commit of the counterparty is awaited. *)
WaitStatus == {"WaitingRT1Commit", "WaitingPT1Commit", "WaitingRT2Commit"}

(* The statuses in which a received commit is being verified. *)
ProcStatus == {"ProcessingRT1Commit", "ProcessingPT1Commit", "ProcessingRT2Commit"}

(* WaitingInvalidatingSignatures is declared by the code and never entered. *)
TradeStatus == SendStatus \cup WaitStatus \cup ProcStatus \cup
  {"WaitingForService", "PFulfillService", "WaitingInvalidatingSignatures"}

TradeRecord == [id: Id, requester: Node, provider: Node,
                status: TradeStatus, isRequester: BOOLEAN]

(* counter_party_details: decided by the stored flag, not by the node's id. *)
CounterParty(t) == IF t.isRequester THEN t.provider ELSE t.requester

(* The three commits of an exchange, as variants of ExchangeRequest. *)
CommitKind == {"T1RequesterCommit", "T1ProviderCommit", "T2RequesterCommit"}

(* create_send_request: the commit a send status asks for. *)
KindToSend(st) ==
  CASE st = "RSendT1Commit" -> "T1RequesterCommit"
    [] st = "PSendT1Commit" -> "T1ProviderCommit"
    [] OTHER -> "T2RequesterCommit"

(* The status a handler requires before it takes a commit of this kind. *)
AwaitStatus(kind) ==
  CASE kind = "T1RequesterCommit" -> "WaitingRT1Commit"
    [] kind = "T1ProviderCommit"  -> "WaitingPT1Commit"
    [] OTHER -> "WaitingRT2Commit"

UpdateStatus(t, to) == [t EXCEPT !.status = to]

(* Slips: a status the protocol no longer has, no wait for the payment, *)
(* and a match arm left out.                                            *)
ToWaitingOldStatus(t) == UpdateStatus(t,
  IF t.status = "PSendT1Commit" THEN "WaitingStartCommit" ELSE "WaitingPT1Commit")
ToWaitingNoWait(t) == UpdateStatus(t,
  CASE t.status = "PSendT1Commit" -> "ProcessingRT2Commit"
    [] t.status = "RSendT1Commit" -> "WaitingPT1Commit"
    [] OTHER -> "WaitingForService")
ToWaitingMissingArm(t) == UpdateStatus(t,
  CASE t.status = "PSendT1Commit" -> "WaitingRT2Commit"
    [] t.status = "RSendT1Commit" -> "WaitingPT1Commit"
    [] OTHER -> t.status)

(* update_trade_waiting_status on the procedure's own copy. *)
ToWaiting(t) == UpdateStatus(t,
  CASE t.status = "PSendT1Commit" -> "WaitingRT2Commit"
    [] t.status = "RSendT1Commit" -> "WaitingPT1Commit"
    [] t.status = "RSendT2Commit" -> "WaitingForService"
    [] OTHER -> t.status)

(* update_trade_processing_status on the procedure's own copy. *)
ToProcessing(t) == UpdateStatus(t,
  CASE t.status = "WaitingRT1Commit" -> "ProcessingRT1Commit"
    [] t.status = "WaitingPT1Commit" -> "ProcessingPT1Commit"
    [] t.status = "WaitingRT2Commit" -> "ProcessingRT2Commit"
    [] OTHER -> t.status)

(* Slips: service before the second commit, and a match arm left out. *)
ToSendUnpaid(t) == UpdateStatus(t,
  CASE t.status = "ProcessingRT1Commit" -> "PFulfillService"
    [] t.status = "ProcessingPT1Commit" -> "RSendT2Commit"
    [] OTHER -> "PFulfillService")
ToSendMissingArm(t) == UpdateStatus(t,
  CASE t.status = "ProcessingRT1Commit" -> "PSendT1Commit"
    [] t.status = "ProcessingRT2Commit" -> "PFulfillService"
    [] OTHER -> t.status)

(* update_trade_send_status on the procedure's own copy. *)
ToSend(t) == UpdateStatus(t,
  CASE t.status = "ProcessingRT1Commit" -> "PSendT1Commit"
    [] t.status = "ProcessingPT1Commit" -> "RSendT2Commit"
    [] t.status = "ProcessingRT2Commit" -> "PFulfillService"
    [] OTHER -> t.status)
=============================================================================
