--------------------------- MODULE StreamContract ---------------------------
(***************************************************************************)
(* What a stream promises to whoever keeps the books, with no mention of   *)
(* upstreams, lines, events or clients that leave.                         *)
(*                                                                         *)
(* While it is open it shows text.  It ends settled, owing for a record    *)
(* that holds all it showed, or failed, owing nothing, which it may only   *)
(* do while it has shown nothing.  After its end it shows no more.         *)
(***************************************************************************)
EXTENDS Integers, SequencesExt

CONSTANT NoRecord

VARIABLES state,     \* open, settled or failed
          text,      \* the text shown so far
          record     \* what is owed for

vars == <<state, text, record>>

Init == state = "open" /\ text = <<>> /\ record = NoRecord

Show == /\ state = "open"
        /\ IsPrefix(text, text') /\ text' # text
        /\ UNCHANGED <<state, record>>

Settle == /\ state = "open" /\ state' = "settled"
          /\ record' # NoRecord
          /\ record'.total = record'.input + record'.output
          /\ IsPrefix(text, record'.content)
          /\ UNCHANGED text

Fail == /\ state = "open" /\ state' = "failed"
        /\ text = <<>>
        /\ UNCHANGED <<text, record>>

Next == Show \/ Settle \/ Fail

Spec == Init /\ [][Next]_vars
=============================================================================
