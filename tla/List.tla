-------------------------------- MODULE List --------------------------------
(***************************************************************************)
(* list.h: a list is a head and the nodes its pointers lead to.  Memory    *)
(* maps every list_head, of a list or inside an element, to its pointers.  *)
(***************************************************************************)
EXTENDS Integers, Sequences, FiniteSets

list_head(next, prev) == [next |-> next, prev |-> prev]

INIT_LIST_HEAD(mem, list) == [mem EXCEPT ![list] = list_head(list, list)]

(* Mutant: the pointer back is forgotten. *)
list_insertForward(mem, new, prev, next) ==
  [mem EXCEPT ![next].prev = new, ![new].next = next, ![prev].next = new]

(* The four assignments of __list_add, one after the other. *)
list_insert(mem, new, prev, next) ==
  [mem EXCEPT ![next].prev = new, ![new].next = next,
              ![new].prev = prev, ![prev].next = new]

list_add(mem, new, head) == list_insert(mem, new, head, mem[head].next)

list_add_tail(mem, new, head) == list_insert(mem, new, mem[head].prev, head)

(* Where a walk over the list is after each step.  Of more steps than      *)
(* there are nodes one is a repetition, so a walk that has not met the     *)
(* head by then never does.                                                *)
Walk(mem, head) ==
  LET pos[k \in 1 .. (Cardinality(DOMAIN mem) + 1)] ==
        mem[IF k = 1 THEN head ELSE pos[k - 1]].next
  IN  pos

WalkEnds(mem, head) == \E k \in DOMAIN Walk(mem, head) : Walk(mem, head)[k] = head

(* The nodes a walk that ends visits, in order. *)
list_for_each(mem, head) ==
  LET pos == Walk(mem, head)
      end == CHOOSE k \in DOMAIN pos :
               pos[k] = head /\ \A h \in 1 .. (k - 1) : pos[h] # head
  IN  SubSeq(pos, 1, end - 1)
=============================================================================
