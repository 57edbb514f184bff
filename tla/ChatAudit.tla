----------------------------- MODULE ChatAudit -----------------------------
(***************************************************************************)
(* What the gateway promises about tokens, with no mention of handlers,    *)
(* providers, credentials or processes.                                    *)
(*                                                                         *)
(* A request is declined, or opened against an account that has room.  An  *)
(* open request is abandoned, or comes to owe a number of tokens.  A debt  *)
(* is booked in the ledger once, and only then entered in the journal.     *)
(* Either entry may be lost, and the whole office may be cleared at once.  *)
(***************************************************************************)
EXTENDS Integers

CONSTANTS Requests, Accounts,
          Quota,          \* the tokens of each account
          Opening,        \* what of them was used when the books open
          MaxBill,        \* the largest debt of one request
          NoAccount

VARIABLES phase,          \* idle, open, owed, booked or closed
          account,        \* the account of an open, owing or booked request
          bill,           \* what an owing request owes
          ledger,         \* the tokens used, by account
          journal         \* the requests entered

vars == <<phase, account, bill, ledger, journal>>

Live == {"open", "owed", "booked"}

Init == /\ phase = [r \in Requests |-> "idle"]
        /\ account = [r \in Requests |-> NoAccount]
        /\ bill = [r \in Requests |-> 0]
        /\ ledger = Opening
        /\ journal = {}

Move(r, l) == phase' = [phase EXCEPT ![r] = l]
Leave(r) == account' = [account EXCEPT ![r] = NoAccount]

Decline(r) == /\ phase[r] = "idle"
              /\ Move(r, "closed")
              /\ UNCHANGED <<account, bill, ledger, journal>>

Open(r, a) == /\ phase[r] = "idle"
              /\ ledger[a] < Quota[a]
              /\ Move(r, "open")
              /\ account' = [account EXCEPT ![r] = a]
              /\ UNCHANGED <<bill, ledger, journal>>

Abandon(r) == /\ phase[r] = "open"
              /\ Move(r, "closed")
              /\ Leave(r)
              /\ UNCHANGED <<bill, ledger, journal>>

Owe(r, n) == /\ phase[r] = "open"
             /\ Move(r, "owed")
             /\ bill' = [bill EXCEPT ![r] = n]
             /\ UNCHANGED <<account, ledger, journal>>

Book(r) == /\ phase[r] = "owed"
           /\ Move(r, "booked")
           /\ ledger' = [ledger EXCEPT ![account[r]] = @ + bill[r]]
           /\ bill' = [bill EXCEPT ![r] = 0]
           /\ UNCHANGED <<account, journal>>

LoseBooking(r) == /\ phase[r] = "owed"
                  /\ Move(r, "booked")
                  /\ bill' = [bill EXCEPT ![r] = 0]
                  /\ UNCHANGED <<account, ledger, journal>>

Enter(r) == /\ phase[r] = "booked"
            /\ Move(r, "closed")
            /\ Leave(r)
            /\ journal' = journal \cup {r}
            /\ UNCHANGED <<bill, ledger>>

LoseEntry(r) == /\ phase[r] = "booked"
                /\ Move(r, "closed")
                /\ Leave(r)
                /\ UNCHANGED <<bill, ledger, journal>>

\* Everything in progress is lost, and some requests are never taken up.
Clear(S) == /\ phase' = [r \in Requests |->
                           IF phase[r] \in Live \/ (phase[r] = "idle" /\ r \in S)
                           THEN "closed" ELSE phase[r]]
            /\ account' = [r \in Requests |-> NoAccount]
            /\ bill' = [r \in Requests |-> 0]
            /\ UNCHANGED <<ledger, journal>>

Close(r) == Book(r) \/ LoseBooking(r) \/ Enter(r) \/ LoseEntry(r)

Next == \/ \E r \in Requests : \/ Decline(r)
                               \/ \E a \in Accounts : Open(r, a)
                               \/ Abandon(r)
                               \/ \E n \in 0..MaxBill : Owe(r, n)
                               \/ Close(r)
        \/ \E S \in SUBSET Requests : Clear(S)

Spec == Init /\ [][Next]_vars

\* What is owed is settled or lost in the end.
FairSpec == Spec /\ \A r \in Requests : WF_vars(Close(r))
=============================================================================
