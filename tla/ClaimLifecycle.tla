--------------------------- MODULE ClaimLifecycle ---------------------------
(***************************************************************************)
(* What the expenses module promises about a claim, with no seams, no      *)
(* concurrency and no database: a lifecycle whose contents are frozen      *)
(* from the submit on, that only a ledger entry takes to posted and only   *)
(* a payment, for a claim the employee paid, to done.  A refused claim     *)
(* and a done one stay as they are.                                        *)
(***************************************************************************)
CONSTANTS Claims, Contents, Nothing, PaidByEmployee(_)

VARIABLES
    life,      \* where each claim is in its lifecycle
    content,   \* what each claim claims
    entries,   \* for each claim, the contents entered in the ledger
    payments   \* for each claim, the contents paid to the employee

vars == <<life, content, entries, payments>>

Init ==
    /\ life = [c \in Claims |-> "absent"]
    /\ content = [c \in Claims |-> Nothing]
    /\ entries = [c \in Claims |-> {}]
    /\ payments = [c \in Claims |-> {}]

\* A draft appears or is edited.
Draft(c) ==
    /\ life[c] \in {"absent", "draft"}
    /\ life' = [life EXCEPT ![c] = "draft"]
    /\ \E x \in Contents : content' = [content EXCEPT ![c] = x]
    /\ UNCHANGED <<entries, payments>>

Advance(c, from, to) ==
    /\ life[c] = from
    /\ life' = [life EXCEPT ![c] = to]
    /\ UNCHANGED <<content, entries, payments>>

Submit(c) == Advance(c, "draft", "submitted")
Approve(c) == Advance(c, "submitted", "approved")
Refuse(c) == Advance(c, "submitted", "refused")

\* The ledger and the payment side are written ahead of the claim, and may
\* be written without the claim ever following.
Enter(c) ==
    /\ life[c] \in {"approved", "posted", "done"}
    /\ entries' = [entries EXCEPT ![c] = @ \cup {content[c]}]
    /\ UNCHANGED <<life, content, payments>>

Post(c) == entries[c] = {content[c]} /\ Advance(c, "approved", "posted")

Pay(c) ==
    /\ life[c] \in {"posted", "done"}
    /\ PaidByEmployee(content[c])
    /\ payments' = [payments EXCEPT ![c] = @ \cup {content[c]}]
    /\ UNCHANGED <<life, content, entries>>

Settle(c) == payments[c] = {content[c]} /\ Advance(c, "posted", "done")

Next ==
    \E c \in Claims : \/ Draft(c) \/ Submit(c) \/ Approve(c) \/ Refuse(c)
                      \/ Enter(c) \/ Post(c) \/ Pay(c) \/ Settle(c)

Spec == Init /\ [][Next]_vars
=============================================================================
