-------------------------------- MODULE Store --------------------------------
(***************************************************************************)
(* The undo stack of src/store.rs as a value: closed.json, read whole and  *)
(* written whole.  entries[1] is the head, the one `reopen-last` takes.    *)
(***************************************************************************)
EXTENDS Ordered

CONSTANTS
  StackCap,    \* entries kept (lib.rs: 20)
  EntryTTL     \* age at which an entry is pruned; 0 keeps it for ever

ASSUME StackCapAssumption == StackCap \in Nat \ {0}
ASSUME EntryTTLAssumption == EntryTTL \in Nat

\* u64::saturating_sub: a clock reading earlier than `then` counts as no time.
Elapsed(now, then) == IF now > then THEN now - then ELSE 0

EmptyStack == [entries |-> << >>, next_id |-> 0]

Truncate(entries) ==
  SubSeq(entries, 1, IF Len(entries) <= StackCap THEN Len(entries) ELSE StackCap)

IdsOf(stack) == {stack.entries[i].id : i \in DOMAIN stack.entries}

prune_entries(stack, now) ==
  LET young == {i \in DOMAIN stack.entries :
                  \/ EntryTTL = 0
                  \/ Elapsed(now, stack.entries[i].closed_at_ms) <= EntryTTL}
  IN  [stack EXCEPT !.entries = Truncate(Keep(stack.entries, young))]

next_entry_id_derived(stack) ==
  LET bounds == {1} \cup {id + 1 : id \in IdsOf(stack)}
  IN  CHOOSE n \in bounds : \A m \in bounds : m <= n

\* The persisted allocator wins over what the entries alone would give.
next_entry_id(stack) ==
  LET bounds == {1, stack.next_id} \cup {id + 1 : id \in IdsOf(stack)}
  IN  CHOOSE n \in bounds : \A m \in bounds : m <= n

\* The captures of one burst go on top, the first of them at the head.
push_captures(stack, new) ==
  [entries |-> Truncate(new \o stack.entries),
   next_id |-> new[Len(new)].id + 1]

pop_at_unwritten(stack, i) == stack

pop_at(stack, i) ==
  [stack EXCEPT !.entries = SubSeq(@, 1, i - 1) \o SubSeq(@, i + 1, Len(@))]

push_back_uncapped(stack, entry) == [stack EXCEPT !.entries = <<entry>> \o @]

push_back(stack, entry) ==
  IF entry.id \in IdsOf(stack)
  THEN stack
  ELSE [stack EXCEPT !.entries = Truncate(<<entry>> \o @)]

==============================================================================
