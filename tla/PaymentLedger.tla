---------------------------- MODULE PaymentLedger ----------------------------
(***************************************************************************)
(* What billing promises about money, with no webhooks in it: an invoice   *)
(* is collected by the provider, recorded in the payments table at most    *)
(* once and only if it was collected, and its receipt is sent only for a   *)
(* recorded invoice and never twice.  Nothing is ever taken back.          *)
(* docs.md: payments are "Recorded on invoice.payment_succeeded webhooks". *)
(***************************************************************************)
CONSTANT Invoices

VARIABLES collected, recorded, receipted

ledgerVars == <<collected, recorded, receipted>>

LedgerInit == collected = {} /\ recorded = {} /\ receipted = {}

Collect(i) ==
  /\ i \notin collected
  /\ collected' = collected \cup {i}
  /\ UNCHANGED <<recorded, receipted>>

Record(i) ==
  /\ i \in collected \ recorded
  /\ recorded' = recorded \cup {i}
  /\ UNCHANGED <<collected, receipted>>

Receipt(i) ==
  /\ i \in recorded \ receipted
  /\ receipted' = receipted \cup {i}
  /\ UNCHANGED <<collected, recorded>>

LedgerNext == \E i \in Invoices : Collect(i) \/ Record(i) \/ Receipt(i)

LedgerSpec == LedgerInit /\ [][LedgerNext]_ledgerVars
=============================================================================
