------------------------------- MODULE Billing -------------------------------
(***************************************************************************)
(* One tenant's subscriptions and invoices.  The service runs every tenant *)
(* on the pool tier (ctxFor), so a store function is one READ COMMITTED    *)
(* transaction; a call makes several.  An UPDATE or INSERT is the last     *)
(* statement that matters of its transaction, so it and its COMMIT are one *)
(* step and a second writer of the same row or number comes after it.      *)
(***************************************************************************)
EXTENDS Integers, Sequences, FiniteSets

CONSTANTS
  BillingCalls,      \* requests to the service in flight at once
  MaxSubscriptions,  \* POST /subscription, over the tenant's life
  MaxInvoices        \* POST /invoices, over the tenant's life

ASSUME BillingAssumption ==
  IsFiniteSet(BillingCalls) /\ MaxSubscriptions \in Nat /\ MaxInvoices \in Nat

VARIABLES
  subscription,  \* status of the rows in the order of created_at
  invoice,       \* [number, subscription] of the rows in the order they committed
  billingPc,     \* per call: idle, check, update, count, insert
  subject,       \* per call: the subscription it is about
  target,        \* per call: the status it is to set
  invoiceCount,  \* per call: COUNT(*) of invoice
  overtaken      \* per call, history: its subscription was canceled after it was checked

billingLocals == <<billingPc, subject, target, invoiceCount, overtaken>>
billingVars == <<subscription, invoice, billingLocals>>

Status == {"trialing", "active", "past_due", "canceled"}

\* ALLOWED_TRANSITIONS
Allowed == [trialing |-> {"active", "canceled"},
            active |-> {"past_due", "canceled"},
            past_due |-> {"active", "canceled"},
            canceled |-> {}]

CanTransition(from, to) == to \in Allowed[from]

BillingInit ==
  /\ subscription = << >>
  /\ invoice = << >>
  /\ billingPc = [c \in BillingCalls |-> "idle"]
  /\ subject = [c \in BillingCalls |-> 0]
  /\ target = [c \in BillingCalls |-> "trialing"]
  /\ invoiceCount = [c \in BillingCalls |-> 0]
  /\ overtaken = [c \in BillingCalls |-> FALSE]

EndBilling(c) ==
  /\ billingPc' = [billingPc EXCEPT ![c] = "idle"]
  /\ subject' = [subject EXCEPT ![c] = 0]
  /\ target' = [target EXCEPT ![c] = "trialing"]
  /\ invoiceCount' = [invoiceCount EXCEPT ![c] = 0]

-----------------------------------------------------------------------------
\* subscribe: a tenant may have several rows, in any status the body names.
Subscribe ==
  /\ Len(subscription) < MaxSubscriptions
  /\ \E s \in Status : subscription' = Append(subscription, s)
  /\ UNCHANGED <<invoice, billingLocals>>

\* getCurrent: the newest subscription.
BeginCall(c, step) ==
  /\ billingPc[c] = "idle" /\ subscription # << >>
  /\ billingPc' = [billingPc EXCEPT ![c] = step]
  /\ subject' = [subject EXCEPT ![c] = Len(subscription)]
  /\ UNCHANGED <<subscription, invoice, invoiceCount, overtaken>>

(* POST /subscription/transition *)

BeginTransition(c) ==
  BeginCall(c, "check") /\ \E s \in Status : target' = [target EXCEPT ![c] = s]

\* mutant: the check in the store is left to the caller.
CheckSkipped(c) ==
  /\ billingPc[c] = "check"
  /\ billingPc' = [billingPc EXCEPT ![c] = "update"]
  /\ overtaken' = [overtaken EXCEPT ![c] = FALSE]
  /\ UNCHANGED <<subject, target, invoiceCount, subscription, invoice>>

\* transition reads the row again; a transition that is not allowed ends the call.
CheckTransition(c) ==
  /\ billingPc[c] = "check"
  /\ \/ /\ CanTransition(subscription[subject[c]], target[c])
        /\ billingPc' = [billingPc EXCEPT ![c] = "update"]
        /\ overtaken' = [overtaken EXCEPT ![c] = FALSE]
        /\ UNCHANGED <<subject, target, invoiceCount>>
     \/ ~CanTransition(subscription[subject[c]], target[c]) /\ EndBilling(c) /\ UNCHANGED overtaken
  /\ UNCHANGED <<subscription, invoice>>

\* The UPDATE names the row and not the status that was checked.
UpdateStatus(c) ==
  LET s == subject[c] IN
  /\ billingPc[c] = "update"
  /\ subscription' = [subscription EXCEPT ![s] = target[c]]
  /\ overtaken' = [d \in BillingCalls |->
       IF d = c THEN FALSE
       ELSE overtaken[d] \/ (target[c] = "canceled" /\ billingPc[d] = "update" /\ subject[d] = s)]
  /\ EndBilling(c)
  /\ UNCHANGED invoice

(* POST /invoices *)

BeginInvoice(c) == BeginCall(c, "count") /\ UNCHANGED target

CountInvoices(c) ==
  /\ billingPc[c] = "count"
  /\ invoiceCount' = [invoiceCount EXCEPT ![c] = Len(invoice)]
  /\ billingPc' = [billingPc EXCEPT ![c] = "insert"]
  /\ UNCHANGED <<subscription, invoice, subject, target, overtaken>>

Numbers == {invoice[i].number : i \in DOMAIN invoice}

\* mutant: no UNIQUE (tenant_id, number).
InsertAnyNumber(c) ==
  /\ billingPc[c] = "insert"
  /\ Len(invoice) < MaxInvoices
  /\ invoice' = Append(invoice, [number |-> invoiceCount[c] + 1, subscription |-> subject[c]])
  /\ EndBilling(c)
  /\ UNCHANGED <<subscription, overtaken>>

\* A number that is taken by now fails the call on UNIQUE (tenant_id, number).
InsertInvoice(c) ==
  /\ billingPc[c] = "insert"
  /\ \/ invoiceCount[c] + 1 \in Numbers /\ UNCHANGED invoice
     \/ /\ invoiceCount[c] + 1 \notin Numbers /\ Len(invoice) < MaxInvoices
        /\ invoice' = Append(invoice, [number |-> invoiceCount[c] + 1, subscription |-> subject[c]])
  /\ EndBilling(c)
  /\ UNCHANGED <<subscription, overtaken>>

\* A query throws or the process dies.
BillingFails(c) ==
  /\ billingPc[c] # "idle"
  /\ EndBilling(c)
  /\ overtaken' = [overtaken EXCEPT ![c] = FALSE]
  /\ UNCHANGED <<subscription, invoice>>

BillingNext ==
  \/ Subscribe
  \/ \E c \in BillingCalls :
       \/ BeginTransition(c) \/ CheckTransition(c) \/ UpdateStatus(c)
       \/ BeginInvoice(c) \/ CountInvoices(c) \/ InsertInvoice(c)
       \/ BillingFails(c)

BillingSpec == BillingInit /\ [][BillingNext]_billingVars

-----------------------------------------------------------------------------
Subscriptions == 1..MaxSubscriptions

BillingTypeOK ==
  /\ subscription \in Seq(Status) /\ Len(subscription) <= MaxSubscriptions
  /\ invoice \in Seq([number : Nat, subscription : Subscriptions]) /\ Len(invoice) <= MaxInvoices
  /\ billingPc \in [BillingCalls -> {"idle", "check", "update", "count", "insert"}]
  /\ subject \in [BillingCalls -> Subscriptions \union {0}]
  /\ target \in [BillingCalls -> Status]
  /\ invoiceCount \in [BillingCalls -> 0..MaxInvoices]
  /\ overtaken \in [BillingCalls -> BOOLEAN]

\* `canceled` is terminal, for every call but one that had passed the check when
\* the cancel committed: no other transition takes a subscription out of it.
CanceledIsTerminal ==
  [][\A s \in DOMAIN subscription :
       subscription[s] = "canceled" /\ subscription'[s] # "canceled" =>
         \E c \in BillingCalls : overtaken[c] /\ subject[c] = s /\ billingPc'[c] = "idle"]_billingVars

\* Invoices are numbered 1, 2, 3 ... in the order they were committed, without a
\* gap and without a repeat, however many calls count at once, fail or die.
InvoicesAreGapless == \A i \in DOMAIN invoice : invoice[i].number = i
=============================================================================
