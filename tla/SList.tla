------------------------------- MODULE SList -------------------------------
(***************************************************************************)
(* The singly-linked list macros of server/queue.h that run_server uses,   *)
(* on pointers.  A list is its head pointer (slh_first) and the link of    *)
(* every node (sle_next); what a node holds before it is allocated and     *)
(* after it is freed is FREED, which no reader should come across.         *)
(***************************************************************************)
EXTENDS Integers

CONSTANTS Node, NULL

FREED == "freed"

SList == [slh_first : Node \cup {NULL, FREED}, sle_next : [Node -> Node \cup {NULL, FREED}]]

(* SLIST_INIT of a list none of whose nodes is allocated.                  *)
SLIST_INIT == [slh_first |-> NULL, sle_next |-> [n \in Node |-> FREED]]

SLIST_EMPTY(head) == head.slh_first = NULL
SLIST_FIRST(head) == head.slh_first
SLIST_NEXT(head, elm) == head.sle_next[elm]

SLIST_INSERT_HEAD(head, elm) ==
    [slh_first |-> elm, sle_next |-> [head.sle_next EXCEPT ![elm] = SLIST_FIRST(head)]]

SLIST_REMOVE_HEAD(head) == [head EXCEPT !.slh_first = SLIST_NEXT(head, SLIST_FIRST(head))]

SLIST_REMOVE_AFTER(head, elm) ==
    [head EXCEPT !.sle_next[elm] = SLIST_NEXT(head, SLIST_NEXT(head, elm))]

(* The node the loop of SLIST_REMOVE stops at: the one linked to elm.      *)
(* There is one, as freed nodes are linked to nothing.                     *)
Predecessor(head, elm) == CHOOSE n \in Node : SLIST_NEXT(head, n) = elm

(* A mutant of SLIST_REMOVE: the head, whichever elm is.                   *)
SLIST_REMOVE_Head(head, elm) == SLIST_REMOVE_HEAD(head)

SLIST_REMOVE(head, elm) ==
    IF SLIST_FIRST(head) = elm THEN SLIST_REMOVE_HEAD(head)
    ELSE SLIST_REMOVE_AFTER(head, Predecessor(head, elm))

(* free of a node.                                                         *)
Freed(head, elm) == [head EXCEPT !.sle_next[elm] = FREED]

(* S has the first node, and with every node the one it is linked to.      *)
FollowsLinks(head, S) ==
    \A n \in Node : n = SLIST_FIRST(head) \/ (\E m \in S : SLIST_NEXT(head, m) = n) => n \in S

(* The nodes a walk from slh_first along the links comes to.               *)
Elements(head) == {n \in Node : \A S \in SUBSET Node : FollowsLinks(head, S) => n \in S}

(* The walk comes to no node twice: nothing is linked to the first node,   *)
(* and no two nodes to the same one.                                       *)
WalkedOnce(head) ==
    \A m, n \in Elements(head) :
        /\ SLIST_NEXT(head, m) # SLIST_FIRST(head)
        /\ SLIST_NEXT(head, m) = SLIST_NEXT(head, n) => m = n \/ SLIST_NEXT(head, m) = NULL
=============================================================================
