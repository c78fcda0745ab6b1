--------------------------- MODULE MCApprovalGate ---------------------------
(***************************************************************************)
(* Calls and steps for TLC: two emails, a domain purchase and a note.           *)
(***************************************************************************)
EXTENDS ApprovalGate

CONSTANTS mailA, mailB, domainA, note

MCTools == [c \in Calls |-> IF c \in {mailA, mailB} THEN "send_email"
                            ELSE IF c = note THEN "remember" ELSE "register_domain"]

\* One call a step; the first is made twice.
Singly == <<<<mailA>>, <<mailA>>, <<domainA>>, <<mailB>>>>
AfterNote == <<<<note, mailA>>>>
=============================================================================
