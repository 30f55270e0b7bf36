---------------------------- MODULE MemoryLedger ----------------------------
(***************************************************************************)
(* What the memory module promises of every user: ended sessions are taken *)
(* in the order they ended, one at a time; a session may be recorded in    *)
(* the user's overview only while it is the oldest unsettled one, once     *)
(* unless somebody has edited the overview since; nothing that is in the   *)
(* overview is ever lost.                                                  *)
(***************************************************************************)
EXTENDS SequencesExt

CONSTANTS Sessions, Owners, OwnerOf
VARIABLES
    line,       \* ended sessions of all owners, in the order they ended
    settled,    \* those that are done with
    book        \* the entries of every owner's overview

vars == <<line, settled, book>>
Edit == "edit"

Init == line = <<>> /\ settled = {} /\ book = [o \in Owners |-> <<>>]

End(s) ==
    /\ s \notin ToSet(line)
    /\ line' = Append(line, s)
    /\ UNCHANGED <<settled, book>>

\* All that the owner ended before s is settled.
Oldest(s) ==
    \E k \in DOMAIN line :
        /\ line[k] = s /\ s \notin settled
        /\ \A i \in DOMAIN line : i < k /\ OwnerOf[line[i]] = OwnerOf[s] => line[i] \in settled

\* The session is entered, unless it already is the latest entry.
Entered(s) ==
    LET o == OwnerOf[s]
    IN  /\ book[o] = <<>> \/ Last(book[o]) # s
        /\ book' = [book EXCEPT ![o] = Append(@, s)]

Record(s) == Oldest(s) /\ Entered(s) /\ UNCHANGED <<line, settled>>

\* The oldest session is done with; it may be entered in the same step.
Settle(s) ==
    /\ Oldest(s)
    /\ settled' = settled \cup {s}
    /\ Entered(s) \/ UNCHANGED book
    /\ UNCHANGED line

\* The user edits the overview by hand.
Note(o) == book' = [book EXCEPT ![o] = Append(@, Edit)] /\ UNCHANGED <<line, settled>>

Next ==
    \/ \E s \in Sessions : End(s) \/ Record(s) \/ Settle(s)
    \/ \E o \in Owners : Note(o)
Spec == Init /\ [][Next]_vars
=============================================================================
