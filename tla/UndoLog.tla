------------------------------- MODULE UndoLog -------------------------------
(***************************************************************************)
(* What capture and undo promise, whatever files and locks they use.  A    *)
(* close is noted, settled, and possibly turned into entries; an entry is  *)
(* offered, taken by one reopen, and perhaps given back.                   *)
(*                                                                         *)
(* No close is forgotten before it is settled.  An entry comes into being  *)
(* when closes are settled, from closes noted by then, under an id of its  *)
(* own; from then on it is offered to one reopen at a time, and once it is *)
(* forgotten it is never offered again.                                    *)
(***************************************************************************)
EXTENDS Naturals, FiniteSets

CONSTANT Closes

VARIABLES
  noted,     \* closes written down and not yet cleared
  settled,   \* closes that were turned into entries, or into none by a rule
  ever,      \* every entry there has been
  offered,   \* entries that can be taken
  taken      \* entries that reopens hold or have restored

log == <<noted, settled, ever, offered, taken>>

Init == noted = {} /\ settled = {} /\ ever = {} /\ offered = {} /\ taken = {}

\* The noted closes are settled, and some of them become new entries.
Settle ==
  /\ settled' = settled \cup noted
  /\ ever \subseteq ever'
  /\ \A e \in ever' \ ever :
       /\ e.closes # {} /\ e.closes \subseteq noted
       /\ \A d \in ever' : d.id = e.id => d = e
  /\ offered' \subseteq offered \cup (ever' \ ever)
  /\ UNCHANGED <<noted, taken>>

\* One close is noted, and settled ones may be cleared.
Turn ==
  /\ \E c \in Closes : noted' \subseteq noted \cup {c}
  /\ noted \ noted' \subseteq settled
  /\ UNCHANGED <<settled, ever, offered, taken>>

Take ==
  /\ \E e \in offered : taken' = taken \cup {e} /\ offered' \subseteq offered \ {e}
  /\ UNCHANGED <<noted, settled, ever>>

GiveBack ==
  /\ \E e \in taken : /\ taken' = taken \ {e}
                      /\ e \in offered' /\ offered' \subseteq offered \cup {e}
  /\ UNCHANGED <<noted, settled, ever>>

\* Old entries are pruned.
Forget ==
  /\ offered' \subseteq offered
  /\ UNCHANGED <<noted, settled, ever, taken>>

Next == Settle \/ Turn \/ Take \/ GiveBack \/ Forget

Spec == Init /\ [][Next]_log
==============================================================================
